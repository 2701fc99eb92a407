------------------------- MODULE ContextWindow_proofs -------------------------
(***************************************************************************)
(* Every request to the model pairs calls and results (RequestsArePaired), *)
(* and before the first loss the window shows every row it stands for      *)
(* (NothingIsForgotten), for any number of turns, steps and attempts, and  *)
(* any bounds.                                                             *)
(*                                                                         *)
(* The first part is about the functions, for every window.  A recursive   *)
(* definition is known to have a value by FunctionUp and FunctionDown,     *)
(* which find the function by a least counterexample.  Repair puts a       *)
(* result of every call that has none right behind it (RepairIsFull);      *)
(* Sanitize returns a window where results follow their calls, and keeps   *)
(* the chains that are complete (SanitizedIsSound).  A window is Full when *)
(* every call has its result in the run behind it, and Part when it has it *)
(* there or nowhere: Repair makes a Part window Full, and a request is     *)
(* made from a Full one by an end of it, or by messages without calls.     *)
(*                                                                         *)
(* The second part is that the window stays Part while the ledger is in    *)
(* order (WinInv).  That needs what the window and the ledger have to do   *)
(* with each other: behind the checkpoint are only results, of calls that  *)
(* had none, and the row before them is the last message of the window if  *)
(* it has calls.  So the rows a new question takes over belong to the last *)
(* message of the window, or to no call in it.                             *)
(*                                                                         *)
(* The third part is about what the window shows.  A row is shown for good *)
(* (Safe) when a message about it stays through Repair and Sanitize, which *)
(* both keep what is safe.  Every row the checkpoint covers is a reply, a  *)
(* result that came late, or safe, until the window is cut (Tells); the    *)
(* rows a question takes over are safe too, since a result that came in    *)
(* time answers a call that no result answered before.                     *)
(***************************************************************************)
EXTENDS ContextWindow, SequenceTheorems, FiniteSetTheorems, NaturalsInduction, WellFoundedInduction, TLAPS

-----------------------------------------------------------------------------
(* Numbers, and functions defined along them.                              *)

\* A set of numbers that is not empty has a least one.
LEMMA LeastNumber ==
  ASSUME NEW T, T \in SUBSET Nat, T # {}
  PROVE  \E x \in T : \A y \in T : x <= y
<1> DEFINE R == OpToRel(<, Nat)
<1>1. IsWellFoundedOn(R, Nat)
  BY NatLessThanWellFounded
<1>2. \A x, y \in Nat : y < x => <<y, x>> \in R
  BY DEF OpToRel
<1> HIDE DEF R
<1>3. PICK x \in T : \A y \in T : <<y, x>> \notin R
  BY <1>1, WFMin
<1>4. x \in Nat /\ \A y \in T : y \in Nat /\ ~(y < x)
  BY <1>2, <1>3
<1>5. \A y \in T : x <= y
  BY <1>4
<1>. QED
  BY <1>5

\* Counting up: what holds of zero and goes on from each number to the next.
LEMMA CountsUp ==
  ASSUME NEW n \in Nat, NEW T, 0 \in T, \A k \in 1..n : k - 1 \in T => k \in T
  PROVE  \A k \in 0..n : k \in T
<1> DEFINE Out == {k \in 0..n : k \notin T}
<1>1. CASE Out = {}
  BY <1>1
<1>2. CASE Out # {}
  <2>1. Out \in SUBSET Nat
    OBVIOUS
  <2>2. PICK x \in Out : \A y \in Out : x <= y
    BY <1>2, <2>1, LeastNumber
  <2>3. x \in 1..n /\ x - 1 \in 0..n /\ x \notin T
    BY <2>2
  <2>4. x - 1 \in Out
    BY <2>3
  <2>. QED
    BY <2>2, <2>3, <2>4
<1>. QED
  BY <1>1, <1>2

\* A function whose values are made one from the last.
MadeUp(f, n, S, first, G) ==
  /\ f \in [0..n -> S]
  /\ f[0] = first
  /\ \A k \in 1..n : f[k] = G[k, f[k - 1]]

\* There is one, and it is unique by construction: what a recursive definition over 0..n asks for.
LEMMA FunctionUp ==
  ASSUME NEW n \in Nat, NEW S, NEW first \in S, NEW G \in [(1..n) \X S -> S]
  PROVE  \E f : MadeUp(f, n, S, first, G)
<1> DEFINE Upto(m) == \E f \in [0..m -> S] : f[0] = first /\ \A k \in 1..m : f[k] = G[k, f[k - 1]]
           T == {m \in 0..n : Upto(m)}
<1>1. 0 \in T
  <2>1. PICK f : f = [k \in 0..0 |-> first]
    OBVIOUS
  <2>2. f \in [0..0 -> S] /\ f[0] = first
    BY <2>1
  <2>3. Upto(0)
    BY <2>2
  <2> HIDE DEF Upto
  <2>. QED
    BY <2>3
<1>2. ASSUME NEW m \in 1..n, m - 1 \in T
      PROVE  m \in T
  <2>1. m \in Nat /\ m - 1 \in 0..(m - 1) /\ m \in 0..n /\ 0 \in 0..(m - 1) /\ 0..m = 0..(m - 1) \cup {m}
    OBVIOUS
  <2>2. PICK f \in [0..(m - 1) -> S] : f[0] = first /\ \A k \in 1..(m - 1) : f[k] = G[k, f[k - 1]]
    BY <1>2
  <2>3. PICK g : g = [k \in 0..m |-> IF k = m THEN G[m, f[m - 1]] ELSE f[k]]
    OBVIOUS
  <2> HIDE DEF T
  <2>4. f[m - 1] \in S
    BY <2>1, <2>2
  <2>5. PICK v \in S : v = G[m, f[m - 1]]
    BY <2>4
  <2>6. g = [k \in 0..m |-> IF k = m THEN v ELSE f[k]]
    BY <2>3, <2>5
  <2>7. g \in [0..m -> S]
    BY <2>1, <2>2, <2>6
  <2>8. \A k \in 0..(m - 1) : k \in 0..m /\ k # m
    BY <2>1
  <2>9. g[m] = G[m, f[m - 1]] /\ \A k \in 0..(m - 1) : g[k] = f[k]
    BY <2>1, <2>5, <2>6, <2>8
  <2>10. g[0] = first
    BY <2>1, <2>2, <2>9
  <2>11. ASSUME NEW k \in 1..m PROVE g[k] = G[k, g[k - 1]]
    <3>1. CASE k = m
      <4>1. g[k - 1] = f[k - 1]
        BY <2>1, <2>9, <3>1
      <4>. QED
        BY <2>9, <3>1, <4>1
    <3>2. CASE k \in 1..(m - 1)
      <4>1. k \in 0..(m - 1) /\ k - 1 \in 0..(m - 1)
        BY <3>2
      <4>. QED
        BY <2>2, <2>9, <3>2, <4>1
    <3>3. k = m \/ k \in 1..(m - 1)
      BY <2>1
    <3>. QED
      BY <3>1, <3>2, <3>3
  <2>12. Upto(m)
    BY <2>7, <2>10, <2>11
  <2> HIDE DEF Upto
  <2>. QED
    BY <2>1, <2>12 DEF T
<1> HIDE DEF T
<1>3. \A m \in 0..n : m \in T
  BY <1>1, <1>2, CountsUp
<1>4. n \in T
  BY <1>3
<1>5. PICK f \in [0..n -> S] : f[0] = first /\ \A k \in 1..n : f[k] = G[k, f[k - 1]]
  BY <1>4 DEF T
<1>. QED
  BY <1>5 DEF MadeUp

-----------------------------------------------------------------------------
(* Messages and sequences of them.                                         *)

Kinds == {"user", "reply", "calls", "result", "text"}

\* The messages about the first n rows of a branch.
Msgs(n) ==
  {m \in [kind : Kinds, calls : SUBSET ((1..n) \X Nat), of : ((1..n) \X Nat) \cup {<<>>},
          about : SUBSET (1..n)] :
     /\ IsFiniteSet(m.calls)
     /\ m.kind # "calls" => m.calls = {}
     /\ m.kind = "result" => m.of # <<>>}

\* A message about n rows is one about more.
LEMMA MsgsGrow ==
  ASSUME NEW n \in Nat, NEW k \in Nat, n <= k
  PROVE  Msgs(n) \subseteq Msgs(k)
<1>1. 1..n \subseteq 1..k
  OBVIOUS
<1>2. ((1..n) \X Nat) \subseteq ((1..k) \X Nat)
  BY <1>1
<1>. QED
  BY <1>1, <1>2 DEF Msgs

\* A set in some order: each element once.
LEMMA SetInOrder ==
  ASSUME NEW S, IsFiniteSet(S)
  PROVE  /\ SetToSeq(S) \in Seq(S) /\ Len(SetToSeq(S)) = Cardinality(S) /\ Cardinality(S) \in Nat
         /\ \A i, j \in 1..Cardinality(S) : i # j => SetToSeq(S)[i] # SetToSeq(S)[j]
         /\ \A x \in S : \E i \in 1..Cardinality(S) : SetToSeq(S)[i] = x
<1>1. PICK n \in Nat : n = Cardinality(S)
  BY FS_CardinalityType
<1>2. PICK g : g \in Bijection(1..n, S)
  BY <1>1, FS_CardinalityType DEF ExistsBijection
<1>3. g \in [1..n -> S] /\ IsInjective(g)
  BY <1>2 DEF Bijection, Injection, IsInjective
<1>4. PICK f : f = SetToSeq(S)
  OBVIOUS
<1>5. f \in [1..n -> S] /\ IsInjective(f)
  BY <1>1, <1>3, <1>4 DEF SetToSeq
<1>6. f \in Injection(1..n, S)
  BY <1>5 DEF Injection, IsInjective
<1>7. f \in Seq(S) /\ Len(f) = n
  BY <1>5
<1>8. \A i, j \in 1..n : i # j => f[i] # f[j]
  BY <1>5 DEF IsInjective
<1>9. \A x \in S : \E i \in 1..n : f[i] = x
  <2>1. IsFiniteSet(1..n) /\ Cardinality(1..n) = n
    BY FS_Interval
  <2>2. f \in Surjection(1..n, S)
    BY <1>1, <1>6, <2>1, FS_SurjSameCardinalityImpliesInj, FS_Injection
  <2>. QED
    BY <2>2 DEF Surjection
<1>. QED
  BY <1>1, <1>4, <1>7, <1>8, <1>9

-----------------------------------------------------------------------------
(* Sequences made of pieces.                                               *)

\* Where the pieces B[1] .. B[n] are in F: piece i ends at place o[i].
Placed(B, n, F, o) ==
  /\ o[0] = 0 /\ Len(F) = o[n]
  /\ \A i \in 1..n : o[i] = o[i - 1] + Len(B[i])
  /\ \A i \in 1..n : \A d \in 1..Len(B[i]) : o[i - 1] + d \in 1..Len(F) /\ F[o[i - 1] + d] = B[i][d]
  /\ \A p \in 1..Len(F) : \E i \in 1..n : \E d \in 1..Len(B[i]) : p = o[i - 1] + d

\* One piece more.
LEMMA PlacedMore ==
  ASSUME NEW S, NEW n \in Nat \ {0}, NEW B, NEW F \in Seq(S), NEW o, NEW piece \in Seq(S), piece = B[n],
         \A k \in 0..n : o[k] \in Nat, o[n] = o[n - 1] + Len(B[n]), Placed(B, n - 1, F, o)
  PROVE  F \o piece \in Seq(S) /\ Placed(B, n, F \o piece, o)
<1>1. PICK g : g = F \o piece
  OBVIOUS
<1>2. /\ g \in Seq(S) /\ Len(g) = Len(F) + Len(piece) /\ Len(F) \in Nat /\ Len(piece) \in Nat
      /\ \A p \in 1..Len(F) : g[p] = F[p]
      /\ \A d \in 1..Len(piece) : g[Len(F) + d] = piece[d]
  <2>1. g \in Seq(S) /\ Len(g) = Len(F) + Len(piece)
    BY <1>1
  <2>2. \A p \in 1..(Len(F) + Len(piece)) : g[p] = IF p <= Len(F) THEN F[p] ELSE piece[p - Len(F)]
    BY <1>1
  <2>3. Len(F) \in Nat /\ Len(piece) \in Nat
    OBVIOUS
  <2>4. ASSUME NEW d \in 1..Len(piece) PROVE g[Len(F) + d] = piece[d]
    <3>1. Len(F) + d \in 1..(Len(F) + Len(piece)) /\ ~(Len(F) + d <= Len(F)) /\ (Len(F) + d) - Len(F) = d
      BY <2>3
    <3>. QED
      BY <2>2, <3>1
  <2>5. ASSUME NEW p \in 1..Len(F) PROVE g[p] = F[p]
    <3>1. p \in 1..(Len(F) + Len(piece)) /\ p <= Len(F)
      BY <2>3
    <3>. QED
      BY <2>2, <3>1
  <2>. QED
    BY <2>1, <2>3, <2>4, <2>5, Zenon
<1>3. n - 1 \in 0..n /\ 1..(n - 1) \subseteq 1..n /\ \A i \in 1..n : i = n \/ i \in 1..(n - 1)
  OBVIOUS
<1>4. Len(F) = o[n - 1] /\ Len(g) = o[n] /\ o[0] = 0
  BY <1>2 DEF Placed
<1>5. \A i \in 1..n : o[i] = o[i - 1] + Len(B[i])
  BY <1>3 DEF Placed
<1>6. ASSUME NEW i \in 1..n, NEW d \in 1..Len(B[i])
      PROVE  o[i - 1] + d \in 1..Len(g) /\ g[o[i - 1] + d] = B[i][d]
  <2>1. CASE i = n
    <3>1. o[i - 1] + d = Len(F) + d /\ d \in 1..Len(piece) /\ B[i] = piece
      BY <1>4, <2>1
    <3>2. Len(F) + d \in 1..Len(g)
      BY <1>2, <3>1
    <3>. QED
      BY <1>2, <3>1, <3>2
  <2>2. CASE i \in 1..(n - 1)
    <3>1. o[i - 1] + d \in 1..Len(F) /\ F[o[i - 1] + d] = B[i][d]
      BY <2>2 DEF Placed
    <3>2. 1..Len(F) \subseteq 1..Len(g)
      BY <1>2
    <3>. QED
      BY <1>2, <3>1, <3>2
  <2>. QED
    BY <1>3, <2>1, <2>2
<1>7. ASSUME NEW p \in 1..Len(g) PROVE \E i \in 1..n : \E d \in 1..Len(B[i]) : p = o[i - 1] + d
  <2>1. CASE p \in 1..Len(F)
    BY <1>3, <2>1 DEF Placed
  <2>2. CASE p \notin 1..Len(F)
    <3>1. p - Len(F) \in 1..Len(piece) /\ p = Len(F) + (p - Len(F))
      BY <1>2, <2>2
    <3>2. p - Len(F) \in 1..Len(B[n]) /\ p = o[n - 1] + (p - Len(F)) /\ n \in 1..n
      BY <1>4, <3>1
    <3>. QED
      BY <3>2
  <2>. QED
    BY <2>1, <2>2
<1>8. Placed(B, n, g, o)
  BY <1>4, <1>5, <1>6, <1>7 DEF Placed
<1>. QED
  BY <1>1, <1>2, <1>8

\* What FlattenSeq makes of them.
LEMMA FlattenPlaces ==
  ASSUME NEW S, NEW n \in Nat, NEW B \in [1..n -> Seq(S)]
  PROVE  /\ FlattenSeq(B) \in Seq(S)
         /\ \E o \in [0..n -> Nat] : Placed(B, n, FlattenSeq(B), o)
<1>1. Len(B) = n /\ B = [i \in 1..n |-> B[i]] /\ \A i \in 1..n : B[i] \in Seq(S) /\ Len(B[i]) \in Nat
  OBVIOUS
<1>2. <<>> \in Seq(S) /\ Len(<<>>) = 0
  OBVIOUS
<1>3. PICK o \in [0..n -> Nat] : o[0] = 0 /\ \A k \in 1..n : o[k] = o[k - 1] + Len(B[k])
  <2> DEFINE G == [x \in (1..n) \X Nat |-> x[2] + Len(B[x[1]])]
  <2>1. 0 \in Nat
    OBVIOUS
  <2>2. G \in [(1..n) \X Nat -> Nat]
    BY <1>1
  <2>3. \A k \in 1..n : \A v \in Nat : G[k, v] = v + Len(B[k])
    OBVIOUS
  <2> HIDE DEF G
  <2>4. PICK o : MadeUp(o, n, Nat, 0, G)
    BY <2>1, <2>2, FunctionUp, Zenon
  <2>5. \A k \in 1..n : k - 1 \in 0..n
    OBVIOUS
  <2>. QED
    BY <2>3, <2>4, <2>5 DEF MadeUp
<1>4. CASE n = 0
  <2>1. FlattenSeq(B) = B /\ B = <<>>
    BY <1>1, <1>4 DEF FlattenSeq
  <2>2. Placed(B, n, <<>>, o)
    BY <1>2, <1>3, <1>4 DEF Placed
  <2>. QED
    BY <1>2, <2>1, <2>2
<1>5. CASE n > 0
  <2>1. PICK f \in [0..n -> Seq(S)] : f[0] = <<>> /\ \A k \in 1..n : f[k] = f[k - 1] \o B[k]
    <3> DEFINE G == [x \in (1..n) \X Seq(S) |-> x[2] \o B[x[1]]]
    <3>1. G \in [(1..n) \X Seq(S) -> Seq(S)]
      BY <1>1
    <3>2. \A k \in 1..n : \A v \in Seq(S) : G[k, v] = v \o B[k]
      OBVIOUS
    <3> HIDE DEF G
    <3>3. PICK f : MadeUp(f, n, Seq(S), <<>>, G)
      BY <1>2, <3>1, FunctionUp, Zenon
    <3>4. \A k \in 1..n : k - 1 \in 0..n
      OBVIOUS
    <3>. QED
      BY <3>2, <3>3, <3>4 DEF MadeUp
  <2> DEFINE Solves(h) == h = [i \in 1..n |-> IF i = 1 THEN B[i] ELSE h[i - 1] \o B[i]]
  <2>2. \E h : Solves(h)
    <3>1. PICK h : h = [i \in 1..n |-> f[i]]
      OBVIOUS
    <3>2. ASSUME NEW i \in 1..n PROVE h[i] = IF i = 1 THEN B[i] ELSE h[i - 1] \o B[i]
      <4>1. f[i] = f[i - 1] \o B[i] /\ h[i] = f[i]
        BY <2>1, <3>1
      <4>2. CASE i = 1
        <5>1. f[i - 1] = <<>>
          BY <2>1, <4>2
        <5>2. <<>> \o B[i] = B[i]
          BY <1>1
        <5>. QED
          BY <4>1, <4>2, <5>1, <5>2
      <4>3. CASE i # 1
        <5>1. i - 1 \in 1..n
          BY <4>3
        <5>2. h[i - 1] = f[i - 1]
          BY <3>1, <5>1
        <5>. QED
          BY <4>1, <4>3, <5>2
      <4>. QED
        BY <4>2, <4>3
    <3>3. h = [i \in 1..n |-> h[i]]
      BY <3>1
    <3>4. Solves(h)
      BY <3>2, <3>3
    <3>. QED
      BY <3>4
  <2>3. PICK h : h = CHOOSE x : Solves(x)
    OBVIOUS
  <2>4. Solves(h)
    BY <2>2, <2>3
  <2>5. \A i \in 1..n : h[i] = IF i = 1 THEN B[i] ELSE h[i - 1] \o B[i]
    BY <2>4
  <2>6. FlattenSeq(B) = h[n]
    BY <1>1, <1>5, <2>3 DEF FlattenSeq
  <2> DEFINE g == [k \in 0..n |-> IF k = 0 THEN <<>> ELSE h[k]]
             T == {k \in 0..n : g[k] \in Seq(S) /\ Placed(B, k, g[k], o)}
  <2>7. g[0] = <<>> /\ \A k \in 1..n : g[k] = g[k - 1] \o B[k] \/ (g[k] = B[k] /\ g[k - 1] = <<>>)
    <3>1. g[0] = <<>>
      OBVIOUS
    <3>2. ASSUME NEW k \in 1..n PROVE g[k] = g[k - 1] \o B[k] \/ (g[k] = B[k] /\ g[k - 1] = <<>>)
      <4>1. k \in 0..n /\ k # 0 /\ k - 1 \in 0..n /\ (k # 1 => k - 1 # 0) /\ (k = 1 => k - 1 = 0)
        OBVIOUS
      <4>2. g[k] = h[k] /\ g[k - 1] = IF k = 1 THEN <<>> ELSE h[k - 1]
        BY <4>1
      <4>. QED
        BY <2>5, <4>2
    <3>. QED
      BY <3>1, <3>2
  <2>8. g[n] = h[n]
    BY <1>5
  <2> HIDE DEF g, Solves, T
  <2>9. 0 \in T
    <3>1. Placed(B, 0, <<>>, o)
      BY <1>2, <1>3 DEF Placed
    <3>2. 0 \in 0..n /\ g[0] \in Seq(S) /\ Placed(B, 0, g[0], o)
      BY <1>2, <2>7, <3>1
    <3>. QED
      BY <3>2, Zenon DEF T
  <2>10. ASSUME NEW k \in 1..n, k - 1 \in T PROVE k \in T
    <3>1. g[k - 1] \in Seq(S) /\ Placed(B, k - 1, g[k - 1], o)
      BY <2>10, Zenon DEF T
    <3>2. B[k] \in Seq(S) /\ <<>> \o B[k] = B[k]
      BY <1>1
    <3>3. g[k] = g[k - 1] \o B[k]
      BY <2>7, <3>2
    <3>4. k \in Nat \ {0} /\ (\A j \in 0..k : o[j] \in Nat) /\ o[k] = o[k - 1] + Len(B[k])
      BY <1>3
    <3>5. PICK F, piece : F = g[k - 1] /\ piece = B[k]
      OBVIOUS
    <3>6. F \in Seq(S) /\ piece \in Seq(S) /\ Placed(B, k - 1, F, o)
      BY <3>1, <3>2, <3>5
    <3>7. F \o piece \in Seq(S) /\ Placed(B, k, F \o piece, o)
      BY <3>4, <3>5, <3>6, PlacedMore, Zenon
    <3>8. k \in 0..n
      OBVIOUS
    <3>9. F \o piece = g[k]
      BY <3>3, <3>5
    <3>. QED
      BY <3>7, <3>8, <3>9, Zenon DEF T
  <2>11. \A k \in 0..n : k \in T
    BY <2>9, <2>10, CountsUp
  <2>12. n \in T
    BY <2>11
  <2>. QED
    BY <2>6, <2>8, <2>12 DEF T
<1>6. n = 0 \/ n > 0
  OBVIOUS
<1>. QED
  BY <1>4, <1>5, <1>6, Zenon

-----------------------------------------------------------------------------
(* The calls of a message and the results right behind it.                 *)

\* RunEnd is what it is chosen as: the first place behind i that holds no result.
LEMMA RunEnds ==
  ASSUME NEW S, NEW ms \in Seq(S), NEW i \in 1..Len(ms)
  PROVE  /\ RunEnd(ms, i) \in i + 1..Len(ms) + 1
         /\ \A k \in i + 1..RunEnd(ms, i) - 1 : ms[k].kind = "result"
         /\ RunEnd(ms, i) <= Len(ms) => ms[RunEnd(ms, i)].kind # "result"
<1> DEFINE Ends(j) == /\ \A k \in i + 1..j - 1 : ms[k].kind = "result"
                      /\ j <= Len(ms) => ms[j].kind # "result"
           T == {j \in i + 1..Len(ms) + 1 : j <= Len(ms) => ms[j].kind # "result"}
<1>1. PICK n \in Nat : n = Len(ms)
  OBVIOUS
<1>2. T \in SUBSET Nat /\ n + 1 \in T
  BY <1>1
<1>3. PICK j \in T : \A k \in T : j <= k
  BY <1>2, LeastNumber
<1>4. j \in i + 1..n + 1 /\ (j <= n => ms[j].kind # "result")
  BY <1>1, <1>3
<1>5. ASSUME NEW k \in i + 1..j - 1 PROVE ms[k].kind = "result"
  <2>1. k \notin T
    BY <1>3, <1>4
  <2>. QED
    BY <1>1, <1>4, <2>1
<1>6. j \in i + 1..Len(ms) + 1 /\ Ends(j)
  BY <1>1, <1>4, <1>5
<1> HIDE DEF T
<1>7. PICK e : e = CHOOSE x \in i + 1..Len(ms) + 1 : Ends(x)
  OBVIOUS
<1>8. e \in i + 1..Len(ms) + 1 /\ Ends(e)
  BY <1>6, <1>7
<1>9. e = RunEnd(ms, i)
  BY <1>7 DEF RunEnd
<1>. QED
  BY <1>8, <1>9

\* The first n messages behind message i are results of its calls, each of another call.
Chained(s, i, n) ==
  /\ i + n <= Len(s)
  /\ \A d \in 1..n : /\ s[i + d].kind = "result"
                     /\ s[i + d].of \in s[i].calls
                     /\ \A e \in 1..(d - 1) : s[i + e].of # s[i + d].of

\* The results a sanitized chain is made of: the ones of the run that belong to the calls, in
\* their order.
OwnOf(s, ms, i) ==
  /\ \A d \in 1..Len(s) : \E k \in i + 1..RunEnd(ms, i) - 1 :
       s[d] = ms[k] /\ ms[k].of \in ms[i].calls
  /\ \A n \in Nat : Chained(ms, i, n) => n <= Len(s) /\ \A d \in 1..n : s[d] = ms[i + d]

OwnNext(ms, i, k, v) == IF ms[k].of \in ms[i].calls THEN Append(v, ms[k]) ELSE v
OwnMade(h, ms, i) ==
  h = [k \in i..RunEnd(ms, i) - 1 |-> IF k = i THEN <<>> ELSE OwnNext(ms, i, k, h[k - 1])]

\* The function by which Own is defined has the values its definition asks for.
LEMMA OwnIsMade ==
  ASSUME NEW S, NEW ms \in Seq(S), NEW i \in 1..Len(ms)
  PROVE  \E h : OwnMade(h, ms, i) /\ Own(ms, i) = h[RunEnd(ms, i) - 1]
<1>1. PICK e : e = RunEnd(ms, i)
  OBVIOUS
<1>2. e \in i + 1..Len(ms) + 1 /\ i \in Nat /\ Len(ms) \in Nat
  BY <1>1, RunEnds
<1>3. PICK w \in Nat : w = (e - 1) - i
  BY <1>2
<1>4. \A k \in 1..w : i + k \in 1..Len(ms)
  BY <1>2, <1>3
<1> DEFINE G == [x \in (1..w) \X Seq(S) |-> OwnNext(ms, i, i + x[1], x[2])]
<1>5. G \in [(1..w) \X Seq(S) -> Seq(S)]
  <2>1. ASSUME NEW k \in 1..w, NEW v \in Seq(S) PROVE OwnNext(ms, i, i + k, v) \in Seq(S)
    <3>1. i + k \in 1..Len(ms)
      BY <1>4
    <3>2. ms[i + k] \in S
      BY <3>1, ElementOfSeq
    <3>. QED
      BY <3>2 DEF OwnNext
  <2>2. \A x \in (1..w) \X Seq(S) : x[1] \in 1..w /\ x[2] \in Seq(S)
    OBVIOUS
  <2>. QED
    BY <2>1, <2>2
<1>6. \A k \in 1..w : \A v \in Seq(S) : G[k, v] = OwnNext(ms, i, i + k, v)
  OBVIOUS
<1> HIDE DEF G
<1>7. <<>> \in Seq(S)
  OBVIOUS
<1>8. PICK f : MadeUp(f, w, Seq(S), <<>>, G)
  BY <1>5, <1>7, FunctionUp, Zenon
<1>9. f \in [0..w -> Seq(S)] /\ f[0] = <<>> /\ \A k \in 1..w : f[k] = OwnNext(ms, i, i + k, f[k - 1])
  <2>1. \A k \in 1..w : k - 1 \in 0..w
    OBVIOUS
  <2>. QED
    BY <1>6, <1>8, <2>1 DEF MadeUp
<1>10. PICK h : h = [k \in i..e - 1 |-> f[k - i]]
  OBVIOUS
<1>11. ASSUME NEW k \in i..e - 1 PROVE h[k] = IF k = i THEN <<>> ELSE OwnNext(ms, i, k, h[k - 1])
  <2>1. h[k] = f[k - i]
    BY <1>10
  <2>2. CASE k = i
    <3>1. k - i = 0
      BY <1>2, <2>2
    <3>. QED
      BY <1>9, <2>1, <2>2, <3>1
  <2>3. CASE k # i
    <3>1. k - i \in 1..w /\ k - 1 \in i..e - 1 /\ (k - i) - 1 = (k - 1) - i /\ i + (k - i) = k
      BY <1>2, <1>3, <2>3
    <3>2. h[k - 1] = f[(k - i) - 1]
      BY <1>10, <3>1
    <3>3. f[k - i] = OwnNext(ms, i, k, f[(k - i) - 1])
      BY <1>9, <3>1
    <3>. QED
      BY <2>1, <2>3, <3>2, <3>3
  <2>. QED
    BY <2>2, <2>3
<1>12. h = [k \in i..e - 1 |-> h[k]]
  BY <1>10
<1>13. h = [k \in i..e - 1 |-> IF k = i THEN <<>> ELSE OwnNext(ms, i, k, h[k - 1])]
  BY <1>11, <1>12
<1>14. \E x : OwnMade(x, ms, i)
  BY <1>1, <1>13 DEF OwnMade
<1>15. PICK x : x = CHOOSE y : OwnMade(y, ms, i)
  OBVIOUS
<1>16. OwnMade(x, ms, i)
  BY <1>14, <1>15
<1>17. Own(ms, i) = x[RunEnd(ms, i) - 1]
  BY <1>15 DEF Own, OwnMade, OwnNext
<1>. QED
  BY <1>16, <1>17

\* Own step by step: f[k] are the results among the first k messages behind i.
OwnBy(f, ms, i, w) ==
  f[0] = <<>> /\ (\A k \in 1..w : f[k] = OwnNext(ms, i, i + k, f[k - 1])) /\ Own(ms, i) = f[w]

\* Own has such steps.
LEMMA OwnSteps ==
  ASSUME NEW S, NEW ms \in Seq(S), NEW i \in 1..Len(ms), NEW w, w = (RunEnd(ms, i) - 1) - i
  PROVE  w \in Nat /\ \E f : OwnBy(f, ms, i, w)
<1>1. PICK e : e = RunEnd(ms, i)
  OBVIOUS
<1>2. /\ e \in i + 1..Len(ms) + 1 /\ i \in Nat /\ Len(ms) \in Nat
      /\ e <= Len(ms) => ms[e].kind # "result"
  BY <1>1, RunEnds
<1>3. w \in Nat /\ w = (e - 1) - i
  BY <1>1, <1>2
<1>4. PICK h : OwnMade(h, ms, i) /\ Own(ms, i) = h[e - 1]
  BY <1>1, OwnIsMade
<1>5. PICK f : f = [k \in 0..w |-> h[i + k]]
  OBVIOUS
<1>6. h[i] = <<>> /\ \A k \in i + 1..e - 1 : h[k] = OwnNext(ms, i, k, h[k - 1])
  <2>1. h = [k \in i..e - 1 |-> IF k = i THEN <<>> ELSE OwnNext(ms, i, k, h[k - 1])]
    BY <1>1, <1>4 DEF OwnMade
  <2>2. i \in i..e - 1 /\ \A k \in i + 1..e - 1 : k \in i..e - 1 /\ k # i
    BY <1>2
  <2>. QED
    BY <2>1, <2>2
<1>7. f[0] = <<>> /\ \A k \in 1..w : f[k] = OwnNext(ms, i, i + k, f[k - 1])
  <2>1. f[0] = <<>>
    <3>1. 0 \in 0..w /\ i + 0 = i
      BY <1>2, <1>3
    <3>. QED
      BY <1>5, <1>6, <3>1
  <2>2. ASSUME NEW k \in 1..w PROVE f[k] = OwnNext(ms, i, i + k, f[k - 1])
    <3>1. /\ k \in 0..w /\ k - 1 \in 0..w /\ i + k \in i + 1..e - 1 /\ (i + k) - 1 = i + (k - 1)
      BY <1>2, <1>3
    <3>2. f[k] = h[i + k] /\ f[k - 1] = h[(i + k) - 1]
      BY <1>5, <3>1
    <3>. QED
      BY <1>6, <3>1, <3>2
  <2>. QED
    BY <2>1, <2>2
<1>8. Own(ms, i) = f[w]
  <2>1. w \in 0..w /\ i + w = e - 1
    BY <1>2, <1>3
  <2>. QED
    BY <1>4, <1>5, <2>1
<1>. QED
  BY <1>3, <1>7, <1>8 DEF OwnBy

\* So Own returns messages of the run that answer a call of i, and all of a chain behind i.
LEMMA OwnResults ==
  ASSUME NEW S, NEW ms \in Seq(S), NEW i \in 1..Len(ms)
  PROVE  Own(ms, i) \in Seq(S) /\ OwnOf(Own(ms, i), ms, i)
<1>1. PICK e : e = RunEnd(ms, i)
  OBVIOUS
<1>2. /\ e \in i + 1..Len(ms) + 1 /\ i \in Nat /\ Len(ms) \in Nat
      /\ e <= Len(ms) => ms[e].kind # "result"
  BY <1>1, RunEnds
<1>3. PICK w \in Nat : w = (e - 1) - i
  BY <1>2
<1>4. \E f : OwnBy(f, ms, i, w)
  BY <1>1, <1>3, OwnSteps
<1>5. PICK f : OwnBy(f, ms, i, w)
  BY <1>4
<1>6. f[0] = <<>> /\ \A k \in 1..w : f[k] = OwnNext(ms, i, i + k, f[k - 1])
  BY <1>5 DEF OwnBy
<1>7. f[0] = <<>> /\ \A k \in 1..w : f[k] = OwnNext(ms, i, i + k, f[k - 1])
  BY <1>6
<1>8. Own(ms, i) = f[w]
  BY <1>5 DEF OwnBy
<1> DEFINE From1(k) == /\ f[k] \in Seq(S)
                       /\ \A d \in 1..Len(f[k]) : \E j \in i + 1..i + k :
                            f[k][d] = ms[j] /\ ms[j].of \in ms[i].calls
           T == {k \in 0..w : From1(k)}
<1>9. 0 \in T
  <2>1. f[0] \in Seq(S) /\ Len(f[0]) = 0 /\ 0 \in 0..w
    BY <1>7
  <2>2. From1(0)
    BY <2>1
  <2> HIDE DEF From1
  <2>. QED
    BY <2>1, <2>2
<1>10. ASSUME NEW k \in 1..w, k - 1 \in T PROVE k \in T
  <2>1. PICK v, x : v = f[k - 1] /\ x = ms[i + k]
    OBVIOUS
  <2>2. v \in Seq(S) /\ \A d \in 1..Len(v) : \E j \in i + 1..i + (k - 1) : v[d] = ms[j] /\ ms[j].of \in ms[i].calls
    BY <1>10, <2>1
  <2>3. i + k \in 1..Len(ms) /\ i + k \in i + 1..i + k /\ i + 1..i + (k - 1) \subseteq i + 1..i + k /\ k \in 0..w
    BY <1>2, <1>3
  <2>4. x \in S
    BY <2>1, <2>3
  <2> HIDE DEF T
  <2>5. CASE x.of \in ms[i].calls
    <3>1. PICK u : u = Append(v, x)
      OBVIOUS
    <3>2. f[k] = u
      BY <1>7, <2>1, <2>5, <3>1 DEF OwnNext
    <3>3. u \in Seq(S) /\ Len(u) = Len(v) + 1 /\ Len(v) \in Nat /\ u[Len(v) + 1] = x /\ \A d \in 1..Len(v) : u[d] = v[d]
      BY <2>2, <2>4, <3>1
    <3>4. ASSUME NEW d \in 1..Len(u) PROVE \E j \in i + 1..i + k : u[d] = ms[j] /\ ms[j].of \in ms[i].calls
      <4>1. CASE d \in 1..Len(v)
        <5>1. u[d] = v[d]
          BY <3>3, <4>1
        <5>2. PICK j \in i + 1..i + (k - 1) : v[d] = ms[j] /\ ms[j].of \in ms[i].calls
          BY <2>2, <4>1
        <5>3. j \in i + 1..i + k
          BY <2>3
        <5>. QED
          BY <5>1, <5>2, <5>3
      <4>2. CASE d = Len(v) + 1
        BY <2>1, <2>3, <2>5, <3>3, <4>2
      <4>3. d \in 1..Len(v) \/ d = Len(v) + 1
        BY <3>3
      <4>. QED
        BY <4>1, <4>2, <4>3
    <3>5. From1(k)
      BY <3>2, <3>3, <3>4
    <3> HIDE DEF From1
    <3>. QED
      BY <2>3, <3>5 DEF T
  <2>6. CASE x.of \notin ms[i].calls
    <3>1. f[k] = v
      BY <1>7, <2>1, <2>6 DEF OwnNext
    <3>2. From1(k)
      BY <2>2, <2>3, <3>1
    <3> HIDE DEF From1
    <3>. QED
      BY <2>3, <3>2 DEF T
  <2>. QED
    BY <2>5, <2>6
<1> HIDE DEF T
<1>11. \A k \in 0..w : k \in T
  BY <1>9, <1>10, CountsUp
<1>12. \A k \in 0..w : From1(k)
  BY <1>11 DEF T
<1>13. /\ Own(ms, i) \in Seq(S)
       /\ \A d \in 1..Len(Own(ms, i)) : \E k \in i + 1..e - 1 : Own(ms, i)[d] = ms[k] /\ ms[k].of \in ms[i].calls
  <2>1. w \in 0..w /\ i + w = e - 1
    BY <1>2, <1>3
  <2>2. From1(w)
    BY <1>12, <2>1
  <2>. QED
    BY <1>8, <2>1, <2>2
<1>14. ASSUME NEW n \in Nat, Chained(ms, i, n)
       PROVE  n <= Len(Own(ms, i)) /\ \A d \in 1..n : Own(ms, i)[d] = ms[i + d]
  <2>1. n <= w
    <3>1. ASSUME n > w PROVE FALSE
      <4>1. w + 1 \in 1..n /\ i + (w + 1) = e /\ i + n <= Len(ms)
        BY <1>2, <1>3, <1>14, <3>1 DEF Chained
      <4>2. ms[e].kind = "result" /\ e <= Len(ms)
        <5>1. ms[i + (w + 1)].kind = "result"
          BY <1>14, <4>1 DEF Chained
        <5>. QED
          BY <1>2, <4>1, <5>1
      <4>. QED
        BY <1>2, <4>2
    <3>. QED
      BY <3>1
  <2> DEFINE Lead(k) == /\ k <= n => Len(f[k]) = k /\ \A d \in 1..k : f[k][d] = ms[i + d]
                        /\ k >= n => Len(f[k]) >= n /\ \A d \in 1..n : f[k][d] = ms[i + d]
             U == {k \in 0..w : Lead(k)}
  <2>2. 0 \in U
    <3>1. Len(f[0]) = 0 /\ 0 \in 0..w
      BY <1>7
    <3>2. Lead(0)
      BY <3>1
    <3> HIDE DEF Lead
    <3>. QED
      BY <3>1, <3>2
  <2>3. ASSUME NEW k \in 1..w, k - 1 \in U PROVE k \in U
    <3>1. PICK v, x : v = f[k - 1] /\ x = ms[i + k]
      OBVIOUS
    <3>2. /\ k - 1 <= n => Len(v) = k - 1 /\ \A d \in 1..(k - 1) : v[d] = ms[i + d]
          /\ k - 1 >= n => Len(v) >= n /\ \A d \in 1..n : v[d] = ms[i + d]
      BY <2>3, <3>1
    <3>3. v \in Seq(S) /\ Len(v) \in Nat
      BY <1>12, <3>1
    <3>4. i + k \in 1..Len(ms) /\ k \in 0..w /\ k \in Nat
      BY <1>2, <1>3
    <3>5. x \in S
      BY <3>1, <3>4
    <3>6. f[k] = IF x.of \in ms[i].calls THEN Append(v, x) ELSE v
      BY <1>7, <3>1 DEF OwnNext
    <3>7. PICK u : u = Append(v, x)
      OBVIOUS
    <3>8. u \in Seq(S) /\ Len(u) = Len(v) + 1 /\ u[Len(v) + 1] = x /\ \A d \in 1..Len(v) : u[d] = v[d]
      BY <3>3, <3>5, <3>7
    <3> HIDE DEF U
    <3>9. CASE k <= n
      <4>1. x.of \in ms[i].calls
        BY <1>14, <3>1, <3>9 DEF Chained
      <4>2. f[k] = u
        BY <3>6, <3>7, <4>1
      <4>3. Len(v) = k - 1 /\ \A d \in 1..(k - 1) : v[d] = ms[i + d]
        BY <3>2, <3>9
      <4>4. Len(u) = k
        BY <3>4, <3>8, <4>3
      <4>5. ASSUME NEW d \in 1..k PROVE u[d] = ms[i + d]
        <5>1. CASE d \in 1..(k - 1)
          BY <3>8, <4>3, <5>1
        <5>2. CASE d = k
          BY <3>1, <3>4, <3>8, <4>3, <5>2
        <5>3. d \in 1..(k - 1) \/ d = k
          OBVIOUS
        <5>. QED
          BY <5>1, <5>2, <5>3
      <4>6. k >= n => k = n
        BY <3>9
      <4>7. Lead(k)
        BY <4>2, <4>4, <4>5, <4>6
      <4> HIDE DEF Lead
      <4>. QED
        BY <3>4, <4>7 DEF U
    <3>10. CASE k > n
      <4>1. Len(v) >= n /\ \A d \in 1..n : v[d] = ms[i + d]
        BY <3>2, <3>10
      <4>2. Len(f[k]) >= n /\ \A d \in 1..n : f[k][d] = ms[i + d]
        <5>1. CASE f[k] = v
          BY <4>1, <5>1
        <5>2. CASE f[k] = u
          <6>1. Len(u) >= n /\ \A d \in 1..n : d \in 1..Len(v)
            BY <3>3, <3>8, <4>1
          <6>. QED
            BY <3>8, <4>1, <5>2, <6>1
        <5>. QED
          BY <3>6, <3>7, <5>1, <5>2
      <4>3. Lead(k)
        BY <3>10, <4>2
      <4> HIDE DEF Lead
      <4>. QED
        BY <3>4, <4>3 DEF U
    <3>. QED
      BY <3>9, <3>10
  <2> HIDE DEF U
  <2>4. \A k \in 0..w : k \in U
    BY <2>2, <2>3, CountsUp
  <2>5. w \in 0..w
    OBVIOUS
  <2>6. Lead(w)
    BY <2>4, <2>5 DEF U
  <2>. QED
    BY <1>8, <2>1, <2>6
<1>. QED
  BY <1>1, <1>13, <1>14 DEF OwnOf

-----------------------------------------------------------------------------
(* sanitize_working_messages.                                              *)

\* What a message becomes with its results, and where the next piece starts.
ChainPiece(ms, i) ==
  IF Len(Own(ms, i)) >= Cardinality(ms[i].calls)
  THEN <<ms[i]>> \o SubSeq(Own(ms, i), 1, Cardinality(ms[i].calls))
  ELSE IF Own(ms, i) # <<>> THEN <<Text(ms[i].about \cup About(Own(ms, i)))>>
  ELSE <<ms[i]>>
Piece(ms, i) ==
  IF ms[i].kind = "calls" THEN ChainPiece(ms, i)
  ELSE IF ms[i].kind = "result" THEN <<Text(ms[i].about)>>
  ELSE <<ms[i]>>
NextPiece(ms, i) == IF ms[i].kind = "calls" THEN RunEnd(ms, i) ELSE i + 1

RestMade(h, ms) ==
  h = [i \in 1..Len(ms) + 1 |->
         IF i > Len(ms) THEN <<>>
         ELSE IF ms[i].kind = "calls" THEN ChainPiece(ms, i) \o h[RunEnd(ms, i)]
         ELSE IF ms[i].kind = "result" THEN <<Text(ms[i].about)>> \o h[i + 1]
         ELSE <<ms[i]>> \o h[i + 1]]

\* The next piece starts further on, or behind the end.
LEMMA NextIsLater ==
  ASSUME NEW S, NEW ms \in Seq(S), NEW i \in 1..Len(ms)
  PROVE  NextPiece(ms, i) \in i + 1..Len(ms) + 1
<1>1. RunEnd(ms, i) \in i + 1..Len(ms) + 1
  BY RunEnds
<1>2. i + 1 \in i + 1..Len(ms) + 1
  OBVIOUS
<1>. QED
  BY <1>1, <1>2 DEF NextPiece

\* A function whose values are made from later ones.
RestOf(h, n, P, next) == h[n + 1] = <<>> /\ \A i \in 1..n : h[i] = P[i] \o h[next[i]]

\* There is such a function: by the number of places at the end it is made for.
LEMMA FunctionDown ==
  ASSUME NEW n \in Nat, NEW P, NEW next, \A i \in 1..n : next[i] \in i + 1..n + 1
  PROVE  \E h : h = [i \in 1..n + 1 |-> h[i]] /\ RestOf(h, n, P, next)
<1> DEFINE Solves(h, k) == /\ h = [i \in 1..n + 1 |-> h[i]]
                           /\ h[n + 1] = <<>>
                           /\ \A i \in 1..n : i > n - k => h[i] = P[i] \o h[next[i]]
           T == {k \in 0..n : \E h : Solves(h, k)}
<1>1. 0 \in T
  <2>1. PICK h : h = [i \in 1..n + 1 |-> <<>>]
    OBVIOUS
  <2>2. h[n + 1] = <<>> /\ h = [i \in 1..n + 1 |-> h[i]] /\ \A i \in 1..n : ~(i > n - 0)
    BY <2>1
  <2>3. Solves(h, 0)
    BY <2>2
  <2>4. 0 \in 0..n
    OBVIOUS
  <2> HIDE DEF Solves
  <2>. QED
    BY <2>3, <2>4
<1>2. ASSUME NEW k \in 1..n, k - 1 \in T PROVE k \in T
  <2>1. PICK h : Solves(h, k - 1)
    BY <1>2
  <2> HIDE DEF T
  <2>2. PICK j : j = n - (k - 1)
    OBVIOUS
  <2>3. j \in 1..n /\ j \in 1..n + 1 /\ j # n + 1 /\ (\A i \in 1..n : i > n - k => i = j \/ i > n - (k - 1)) /\ k \in 0..n
    BY <2>2
  <2>4. PICK v : v = P[j] \o h[next[j]]
    OBVIOUS
  <2>5. PICK g : g = [i \in 1..n + 1 |-> IF i = j THEN v ELSE h[i]]
    OBVIOUS
  <2>6. g[j] = v /\ (\A i \in 1..n + 1 : i # j => g[i] = h[i]) /\ g = [i \in 1..n + 1 |-> g[i]]
    BY <2>3, <2>5
  <2>7. h[n + 1] = <<>> /\ \A i \in 1..n : i > n - (k - 1) => h[i] = P[i] \o h[next[i]]
    BY <2>1
  <2>8. g[n + 1] = <<>>
    <3>1. n + 1 \in 1..n + 1
      OBVIOUS
    <3>. QED
      BY <2>3, <2>6, <2>7, <3>1
  <2>9. ASSUME NEW i \in 1..n, i > n - k PROVE g[i] = P[i] \o g[next[i]]
    <3>1. next[i] \in i + 1..n + 1 /\ next[i] \in 1..n + 1
      OBVIOUS
    <3>2. next[i] # j
      BY <2>2, <2>9, <3>1
    <3>3. g[next[i]] = h[next[i]]
      BY <2>6, <3>1, <3>2
    <3>4. CASE i = j
      BY <2>4, <2>6, <3>3, <3>4
    <3>5. CASE i # j
      <4>1. i > n - (k - 1) /\ i \in 1..n + 1
        <5>1. i > n - (k - 1)
          BY <2>3, <2>9, <3>5
        <5>. QED
          BY <5>1
      <4>. QED
        BY <2>6, <2>7, <3>3, <3>5, <4>1
    <3>. QED
      BY <3>4, <3>5
  <2>10. Solves(g, k)
    BY <2>6, <2>8, <2>9
  <2> HIDE DEF Solves
  <2>. QED
    BY <2>3, <2>10 DEF T
<1> HIDE DEF T
<1>3. \A k \in 0..n : k \in T
  BY <1>1, <1>2, CountsUp
<1>4. n \in 0..n
  OBVIOUS
<1>5. PICK h : Solves(h, n)
  BY <1>3, <1>4 DEF T
<1>6. \A i \in 1..n : i > n - n
  OBVIOUS
<1>. QED
  BY <1>5, <1>6 DEF RestOf

\* What every piece has and a concatenation keeps, the whole has.
LEMMA FromPieces ==
  ASSUME NEW n \in Nat, NEW P, NEW next, \A i \in 1..n : next[i] \in i + 1..n + 1,
         NEW h, RestOf(h, n, P, next),
         NEW T, <<>> \in T, \A a, b \in T : a \o b \in T, \A i \in 1..n : P[i] \in T
  PROVE  h[1] \in T
<1> DEFINE U == {k \in 0..n : \A i \in 1..n + 1 : i > n - k => h[i] \in T}
<1>1. 0 \in U
  <2>1. \A i \in 1..n + 1 : i > n - 0 => i = n + 1
    OBVIOUS
  <2>2. h[n + 1] \in T
    BY DEF RestOf
  <2>. QED
    BY <2>1, <2>2
<1>2. ASSUME NEW k \in 1..n, k - 1 \in U PROVE k \in U
  <2>1. ASSUME NEW i \in 1..n + 1, i > n - k PROVE h[i] \in T
    <3>1. CASE i > n - (k - 1)
      BY <1>2, <3>1
    <3>2. CASE ~(i > n - (k - 1))
      <4>1. i \in 1..n /\ i + 1 > n - (k - 1)
        BY <2>1, <3>2
      <4>2. next[i] \in 1..n + 1 /\ next[i] > n - (k - 1)
        BY <4>1
      <4>3. h[next[i]] \in T
        BY <1>2, <4>2
      <4>4. h[i] = P[i] \o h[next[i]]
        BY <4>1 DEF RestOf
      <4>. QED
        BY <4>1, <4>3, <4>4
    <3>. QED
      BY <3>1, <3>2
  <2>2. k \in 0..n
    OBVIOUS
  <2>. QED
    BY <2>1, <2>2
<1> HIDE DEF U
<1>3. \A k \in 0..n : k \in U
  BY <1>1, <1>2, CountsUp
<1>4. n \in 0..n /\ 1 \in 1..n + 1 /\ 1 > n - n
  OBVIOUS
<1>. QED
  BY <1>3, <1>4 DEF U

\* How the sanitized window is put together.
SanitizedBy(x, P, next, ms) ==
  /\ \A i \in 1..Len(ms) : P[i] = Piece(ms, i) /\ next[i] = NextPiece(ms, i)
  /\ RestOf(x, Len(ms), P, next)
  /\ Sanitize(ms) = x[1]

\* sanitize_working_messages goes from piece to piece.
LEMMA SanitizedIs ==
  ASSUME NEW S, NEW ms \in Seq(S)
  PROVE  \E x, P, next : SanitizedBy(x, P, next, ms)
<1>1. PICK n \in Nat : n = Len(ms)
  OBVIOUS
<1>2. PICK P, next : P = [i \in 1..n |-> Piece(ms, i)] /\ next = [i \in 1..n |-> NextPiece(ms, i)]
  OBVIOUS
<1>3. \A i \in 1..n : P[i] = Piece(ms, i) /\ next[i] = NextPiece(ms, i)
  BY <1>2
<1>4. \A i \in 1..n : next[i] \in i + 1..n + 1
  BY <1>1, <1>3, NextIsLater
<1>5. PICK h : h = [i \in 1..n + 1 |-> h[i]] /\ RestOf(h, n, P, next)
  BY <1>4, FunctionDown
<1>6. ASSUME NEW g, RestMade(g, ms) PROVE RestOf(g, n, P, next)
  <2>1. g[n + 1] = <<>>
    <3>1. n + 1 \in 1..n + 1 /\ n + 1 > n
      OBVIOUS
    <3>. QED
      BY <1>1, <1>6, <3>1 DEF RestMade
  <2>2. ASSUME NEW i \in 1..n PROVE g[i] = P[i] \o g[next[i]]
    <3>1. i \in 1..n + 1 /\ ~(i > n)
      OBVIOUS
    <3>2. g[i] = IF ms[i].kind = "calls" THEN ChainPiece(ms, i) \o g[RunEnd(ms, i)]
                 ELSE IF ms[i].kind = "result" THEN <<Text(ms[i].about)>> \o g[i + 1]
                 ELSE <<ms[i]>> \o g[i + 1]
      BY <1>1, <1>6, <3>1 DEF RestMade
    <3>3. P[i] = Piece(ms, i) /\ next[i] = NextPiece(ms, i)
      BY <1>3
    <3>. QED
      BY <3>2, <3>3 DEF Piece, NextPiece
  <2>. QED
    BY <2>1, <2>2 DEF RestOf
<1>7. RestMade(h, ms)
  <2>1. ASSUME NEW i \in 1..n + 1
        PROVE  h[i] = IF i > n THEN <<>>
                      ELSE IF ms[i].kind = "calls" THEN ChainPiece(ms, i) \o h[RunEnd(ms, i)]
                      ELSE IF ms[i].kind = "result" THEN <<Text(ms[i].about)>> \o h[i + 1]
                      ELSE <<ms[i]>> \o h[i + 1]
    <3>1. CASE i > n
      <4>1. i = n + 1
        BY <3>1
      <4>. QED
        BY <1>5, <3>1, <4>1 DEF RestOf
    <3>2. CASE ~(i > n)
      <4>1. i \in 1..n
        BY <3>2
      <4>2. h[i] = P[i] \o h[next[i]]
        BY <1>5, <4>1 DEF RestOf
      <4>3. P[i] = Piece(ms, i) /\ next[i] = NextPiece(ms, i)
        BY <1>3, <4>1
      <4>. QED
        BY <3>2, <4>2, <4>3 DEF Piece, NextPiece
    <3>. QED
      BY <3>1, <3>2
  <2>2. h = [i \in 1..n + 1 |->
               IF i > n THEN <<>>
               ELSE IF ms[i].kind = "calls" THEN ChainPiece(ms, i) \o h[RunEnd(ms, i)]
               ELSE IF ms[i].kind = "result" THEN <<Text(ms[i].about)>> \o h[i + 1]
               ELSE <<ms[i]>> \o h[i + 1]]
    BY <1>5, <2>1
  <2>. QED
    BY <1>1, <2>2 DEF RestMade
<1>8. PICK x : x = CHOOSE y : RestMade(y, ms)
  OBVIOUS
<1>9. RestMade(x, ms)
  BY <1>7, <1>8
<1>10. Sanitize(ms) = x[1]
  BY <1>8 DEF Sanitize, RestMade, ChainPiece
<1>11. RestOf(x, n, P, next)
  BY <1>6, <1>9
<1>12. SanitizedBy(x, P, next, ms)
  BY <1>1, <1>3, <1>10, <1>11 DEF SanitizedBy
<1>. QED
  BY <1>12

\* What every piece has and a concatenation keeps, the sanitized window has.
LEMMA SanitizedHas ==
  ASSUME NEW S, NEW ms \in Seq(S), NEW T, <<>> \in T, \A a, b \in T : a \o b \in T,
         \A i \in 1..Len(ms) : Piece(ms, i) \in T
  PROVE  Sanitize(ms) \in T
<1>1. PICK n \in Nat : n = Len(ms)
  OBVIOUS
<1>2. PICK x, P, next : SanitizedBy(x, P, next, ms)
  BY SanitizedIs
<1>3. /\ \A i \in 1..n : P[i] = Piece(ms, i) /\ next[i] = NextPiece(ms, i)
      /\ RestOf(x, n, P, next) /\ Sanitize(ms) = x[1]
  BY <1>1, <1>2 DEF SanitizedBy
<1>4. \A i \in 1..n : next[i] \in i + 1..n + 1
  BY <1>1, <1>3, NextIsLater
<1>5. \A i \in 1..n : P[i] \in T
  BY <1>1, <1>3
<1>6. x[1] \in T
  BY <1>3, <1>4, <1>5, FromPieces
<1>. QED
  BY <1>3, <1>6

-----------------------------------------------------------------------------
(* What is said of the messages of a request.                              *)

\* Every result stands behind its calls, with nothing but results between.
Follows(s) ==
  \A j \in 1..Len(s) : s[j].kind = "result" =>
    \E i \in 1..j - 1 : s[j].of \in s[i].calls /\ \A k \in i + 1..j - 1 : s[k].kind = "result"

\* A call is answered by the first n messages behind i.
Has(s, i, n, c) == \E d \in 1..n : s[i + d].of = c

\* Right behind every message with calls is a result of each of its calls ...
Full(s) ==
  \A i \in 1..Len(s) : s[i].kind = "calls" =>
    \E n \in Nat : Chained(s, i, n) /\ \A c \in s[i].calls : Has(s, i, n, c)
\* ... or of some of them, and the others have none anywhere.
Part(s) ==
  \A i \in 1..Len(s) : s[i].kind = "calls" =>
    \E n \in Nat : Chained(s, i, n) /\ \A c \in s[i].calls : Has(s, i, n, c) \/ c \notin Answered(s)

\* The length and the places of two sequences put together.
LEMMA Joined ==
  ASSUME NEW S, NEW a \in Seq(S), NEW b \in Seq(S), NEW g, g = a \o b
  PROVE  /\ g \in Seq(S) /\ Len(g) = Len(a) + Len(b) /\ Len(a) \in Nat /\ Len(b) \in Nat
         /\ \A p \in 1..Len(a) : g[p] = a[p]
         /\ \A d \in 1..Len(b) : g[Len(a) + d] = b[d]
         /\ \A p \in 1..Len(g) : p \in 1..Len(a) \/ p - Len(a) \in 1..Len(b)
<1>1. g \in Seq(S) /\ Len(g) = Len(a) + Len(b)
  OBVIOUS
<1>2. \A p \in 1..(Len(a) + Len(b)) : g[p] = IF p <= Len(a) THEN a[p] ELSE b[p - Len(a)]
  OBVIOUS
<1>3. Len(a) \in Nat /\ Len(b) \in Nat
  OBVIOUS
<1>4. ASSUME NEW d \in 1..Len(b) PROVE g[Len(a) + d] = b[d]
  <2>1. Len(a) + d \in 1..(Len(a) + Len(b)) /\ ~(Len(a) + d <= Len(a)) /\ (Len(a) + d) - Len(a) = d
    BY <1>3
  <2>. QED
    BY <1>2, <2>1
<1>5. \A p \in 1..Len(a) : g[p] = a[p]
  BY <1>2, <1>3
<1>6. \A p \in 1..Len(g) : p \in 1..Len(a) \/ p - Len(a) \in 1..Len(b)
  BY <1>1, <1>3
<1>. QED
  BY <1>1, <1>3, <1>4, <1>5, <1>6

\* Two such sequences, one behind the other.
LEMMA FollowsJoined ==
  ASSUME NEW S, NEW a \in Seq(S), NEW b \in Seq(S), Follows(a), Follows(b)
  PROVE  Follows(a \o b)
<1>1. PICK g : g = a \o b
  OBVIOUS
<1>2. PICK m, n : m = Len(a) /\ n = Len(b)
  OBVIOUS
<1>3. /\ Len(g) = m + n /\ m \in Nat /\ n \in Nat
      /\ \A p \in 1..m : g[p] = a[p]
      /\ \A d \in 1..n : g[m + d] = b[d]
      /\ \A p \in 1..Len(g) : p \in 1..m \/ p - m \in 1..n
  BY <1>1, <1>2, Joined
<1>4. ASSUME NEW j \in 1..Len(g), g[j].kind = "result"
      PROVE  \E i \in 1..j - 1 : g[j].of \in g[i].calls /\ \A k \in i + 1..j - 1 : g[k].kind = "result"
  <2>1. CASE j \in 1..m
    <3>1. a[j].kind = "result" /\ g[j] = a[j]
      BY <1>3, <1>4, <2>1
    <3>2. PICK i \in 1..j - 1 : a[j].of \in a[i].calls /\ \A k \in i + 1..j - 1 : a[k].kind = "result"
      BY <1>2, <2>1, <3>1 DEF Follows
    <3>3. i \in 1..m /\ \A k \in i + 1..j - 1 : k \in 1..m
      BY <1>3, <2>1
    <3>. QED
      BY <1>3, <3>1, <3>2, <3>3
  <2>2. CASE j - m \in 1..n
    <3>1. PICK e : e = j - m
      OBVIOUS
    <3>2. e \in 1..n /\ j = m + e
      BY <1>3, <2>2, <3>1
    <3>3. g[j] = b[e]
      BY <1>3, <3>2
    <3>4. PICK i \in 1..e - 1 : b[e].of \in b[i].calls /\ \A k \in i + 1..e - 1 : b[k].kind = "result"
      BY <1>2, <1>4, <3>2, <3>3 DEF Follows
    <3>5. m + i \in 1..j - 1 /\ g[m + i] = b[i]
      BY <1>3, <3>2
    <3>6. ASSUME NEW k \in m + i + 1..j - 1 PROVE g[k].kind = "result"
      <4>1. k - m \in i + 1..e - 1 /\ k - m \in 1..n /\ m + (k - m) = k
        BY <1>3, <3>2
      <4>2. g[k] = b[k - m]
        BY <1>3, <4>1
      <4>. QED
        BY <3>4, <4>1, <4>2
    <3>. QED
      BY <3>3, <3>4, <3>5, <3>6
  <2>. QED
    BY <1>3, <2>1, <2>2
<1>. QED
  BY <1>1, <1>4 DEF Follows

\* Two full windows put together are full.
LEMMA FullJoined ==
  ASSUME NEW S, NEW a \in Seq(S), NEW b \in Seq(S), Full(a), Full(b)
  PROVE  Full(a \o b)
<1>1. PICK g : g = a \o b
  OBVIOUS
<1>2. PICK m, n : m = Len(a) /\ n = Len(b)
  OBVIOUS
<1>3. /\ Len(g) = m + n /\ m \in Nat /\ n \in Nat
      /\ \A p \in 1..m : g[p] = a[p]
      /\ \A d \in 1..n : g[m + d] = b[d]
      /\ \A p \in 1..Len(g) : p \in 1..m \/ p - m \in 1..n
  BY <1>1, <1>2, Joined
<1>4. ASSUME NEW i \in 1..Len(g), g[i].kind = "calls"
      PROVE  \E l \in Nat : Chained(g, i, l) /\ \A c \in g[i].calls : Has(g, i, l, c)
  <2>1. CASE i \in 1..m
    <3>1. a[i].kind = "calls" /\ g[i] = a[i]
      BY <1>3, <1>4, <2>1
    <3>2. PICK l \in Nat : Chained(a, i, l) /\ \A c \in a[i].calls : Has(a, i, l, c)
      BY <1>2, <2>1, <3>1 DEF Full
    <3>3. i + l <= m
      BY <1>2, <3>2 DEF Chained
    <3>4. \A d \in 1..l : g[i + d] = a[i + d]
      <4>1. \A d \in 1..l : i + d \in 1..m
        BY <1>3, <2>1, <3>3
      <4>. QED
        BY <1>3, <4>1
    <3>5. \A d \in 1..l : \A e \in 1..(d - 1) : e \in 1..l
      OBVIOUS
    <3>6. i + l <= Len(g)
      BY <1>3, <2>1, <3>3
    <3>7. Chained(g, i, l)
      BY <3>1, <3>2, <3>4, <3>5, <3>6 DEF Chained
    <3>8. \A c \in g[i].calls : Has(g, i, l, c)
      BY <3>1, <3>2, <3>4 DEF Has
    <3>. QED
      BY <3>7, <3>8
  <2>2. CASE i - m \in 1..n
    <3>1. PICK e : e = i - m
      OBVIOUS
    <3>2. e \in 1..n /\ i = m + e
      BY <1>3, <2>2, <3>1
    <3>3. g[i] = b[e]
      BY <1>3, <3>2
    <3>4. PICK l \in Nat : Chained(b, e, l) /\ \A c \in b[e].calls : Has(b, e, l, c)
      BY <1>2, <1>4, <3>2, <3>3 DEF Full
    <3>5. e + l <= n
      BY <1>2, <3>4 DEF Chained
    <3>6. \A d \in 1..l : g[i + d] = b[e + d]
      <4>1. ASSUME NEW d \in 1..l PROVE g[i + d] = b[e + d]
        <5>1. e + d \in 1..n /\ i + d = m + (e + d)
          BY <1>3, <3>2, <3>5
        <5>. QED
          BY <1>3, <5>1
      <4>. QED
        BY <4>1
    <3>7. \A d \in 1..l : \A k \in 1..(d - 1) : k \in 1..l
      OBVIOUS
    <3>8. i + l <= Len(g)
      BY <1>3, <3>2, <3>5
    <3>9. Chained(g, i, l)
      BY <3>3, <3>4, <3>6, <3>7, <3>8 DEF Chained
    <3>10. \A c \in g[i].calls : Has(g, i, l, c)
      BY <3>3, <3>4, <3>6 DEF Has
    <3>. QED
      BY <3>9, <3>10
  <2>. QED
    BY <1>3, <2>1, <2>2
<1>. QED
  BY <1>1, <1>4 DEF Full

\* A chain with a result of each call has as many results as there are calls.
LEMMA ChainLength ==
  ASSUME NEW s, NEW i, NEW n \in Nat, Chained(s, i, n), \A c \in s[i].calls : Has(s, i, n, c)
  PROVE  Cardinality(s[i].calls) = n
<1>1. PICK C : C = s[i].calls
  OBVIOUS
<1>2. PICK g : g = [d \in 1..n |-> s[i + d].of]
  OBVIOUS
<1>3. g \in [1..n -> C]
  BY <1>1, <1>2 DEF Chained
<1>4. ASSUME NEW d \in 1..n, NEW e \in 1..n, d # e PROVE g[d] # g[e]
  <2>1. CASE e < d
    <3>1. e \in 1..(d - 1)
      BY <2>1
    <3>. QED
      BY <1>2, <3>1 DEF Chained
  <2>2. CASE d < e
    <3>1. d \in 1..(e - 1)
      BY <2>2
    <3>. QED
      BY <1>2, <3>1 DEF Chained
  <2>3. e < d \/ d < e
    BY <1>4
  <2>. QED
    BY <2>1, <2>2, <2>3
<1>5. \A c \in C : \E d \in 1..n : g[d] = c
  BY <1>1, <1>2 DEF Has
<1>6. g \in Bijection(1..n, C)
  BY <1>3, <1>4, <1>5 DEF Bijection, Injection, Surjection, IsInjective
<1>7. Cardinality(C) = n
  BY <1>6, FS_CountingElements DEF ExistsBijection
<1>. QED
  BY <1>1, <1>7

-----------------------------------------------------------------------------
(* A sanitized window is one of messages, its results follow their calls,  *)
(* and where every call had its results it still has.                      *)

\* A text is a message.
LEMMA TextIsMsg ==
  ASSUME NEW N \in Nat, NEW X \in SUBSET (1..N)
  PROVE  Text(X) \in Msgs(N) /\ Text(X).kind = "text" /\ Text(X).calls = {}
<1>1. Text(X).calls = {} /\ Text(X).kind = "text" /\ IsFiniteSet({})
  BY FS_EmptySet DEF Text
<1>2. Text(X) \in [kind : Kinds, calls : SUBSET ((1..N) \X Nat), of : ((1..N) \X Nat) \cup {<<>>},
                   about : SUBSET (1..N)]
  BY DEF Text, Kinds
<1>. QED
  BY <1>1, <1>2 DEF Msgs

\* Messages about n rows are about no others.
LEMMA AboutRows ==
  ASSUME NEW N \in Nat, NEW ms \in Seq(Msgs(N))
  PROVE  About(ms) \in SUBSET (1..N)
<1>1. \A i \in DOMAIN ms : ms[i].about \in SUBSET (1..N)
  <2>1. ASSUME NEW i \in DOMAIN ms PROVE ms[i].about \in SUBSET (1..N)
    <3>1. ms[i] \in Msgs(N)
      OBVIOUS
    <3>. QED
      BY <3>1 DEF Msgs
  <2>. QED
    BY <2>1
<1>. QED
  BY <1>1 DEF About

\* One message alone.
LEMMA Alone1 ==
  ASSUME NEW S, NEW m \in S
  PROVE  /\ <<m>> \in Seq(S)
         /\ m.kind # "result" => Follows(<<m>>)
         /\ m.kind # "calls" \/ m.calls = {} => Full(<<m>>)
<1>1. PICK s : s = <<m>>
  OBVIOUS
<1>2. s \in Seq(S) /\ Len(s) = 1 /\ s[1] = m
  BY <1>1
<1>3. \A j \in 1..Len(s) : s[j] = m /\ j = 1
  BY <1>2
<1>4. m.kind # "result" => Follows(s)
  BY <1>3 DEF Follows
<1>5. ASSUME m.calls = {}, NEW i \in 1..Len(s) PROVE Chained(s, i, 0) /\ \A c \in s[i].calls : Has(s, i, 0, c)
  <2>1. i + 0 <= Len(s) /\ \A d \in 1..0 : FALSE
    BY <1>2
  <2>. QED
    BY <1>3, <1>5, <2>1 DEF Chained
<1>6. m.calls = {} => Full(s)
  BY <1>5 DEF Full
<1>7. m.kind # "calls" => Full(s)
  BY <1>3 DEF Full
<1>. QED
  BY <1>1, <1>2, <1>4, <1>6, <1>7

\* A message and the first q of some others.
LEMMA ChainLaid ==
  ASSUME NEW S, NEW m \in S, NEW own \in Seq(S), NEW q \in Nat, q <= Len(own),
         NEW s, s = <<m>> \o SubSeq(own, 1, q)
  PROVE  s \in Seq(S) /\ Len(s) = q + 1 /\ s[1] = m /\ \A d \in 1..q : s[1 + d] = own[d]
<1>1. PICK b : b = SubSeq(own, 1, q)
  OBVIOUS
<1>2. b \in Seq(S) /\ Len(b) = q /\ \A d \in 1..q : b[d] = own[d]
  <2>1. Len(own) \in Nat
    OBVIOUS
  <2>2. \A x \in 1..q : x \in 1..Len(own)
    BY <2>1
  <2>3. /\ Len(SubSeq(own, 1, q)) = IF 1 <= q THEN q - 1 + 1 ELSE 0
        /\ \A d \in 1..q : SubSeq(own, 1, q)[d] = own[1 + d - 1]
        /\ SubSeq(own, 1, q) \in Seq(S)
    BY <2>1, <2>2
  <2>. QED
    BY <1>1, <2>3
<1>3. <<m>> \in Seq(S) /\ Len(<<m>>) = 1 /\ <<m>>[1] = m
  OBVIOUS
<1>4. /\ s \in Seq(S) /\ Len(s) = Len(<<m>>) + Len(b)
      /\ \A p \in 1..Len(<<m>>) : s[p] = <<m>>[p]
      /\ \A d \in 1..Len(b) : s[Len(<<m>>) + d] = b[d]
  BY <1>1, <1>2, <1>3, Joined
<1>5. 1 \in 1..1
  OBVIOUS
<1>. QED
  BY <1>2, <1>3, <1>4, <1>5

\* Calls with as many of their own results as there are calls.
LEMMA WholeChain ==
  ASSUME NEW N \in Nat, NEW ms \in Seq(Msgs(N)), NEW i \in 1..Len(ms), ms[i].kind = "calls",
         NEW q \in Nat, q = Cardinality(ms[i].calls), Len(Own(ms, i)) >= q
  PROVE  LET s == <<ms[i]>> \o SubSeq(Own(ms, i), 1, q)
         IN s \in Seq(Msgs(N)) /\ Follows(s) /\ (Full(ms) => Full(s))
<1>1. PICK own, m : own = Own(ms, i) /\ m = ms[i]
  OBVIOUS
<1>2. own \in Seq(Msgs(N)) /\ OwnOf(own, ms, i)
  BY <1>1, OwnResults
<1>3. m \in Msgs(N) /\ Len(own) \in Nat /\ q <= Len(own)
  BY <1>1, <1>2
<1>4. PICK s : s = <<m>> \o SubSeq(own, 1, q)
  OBVIOUS
<1>7. s \in Seq(Msgs(N)) /\ Len(s) = q + 1 /\ s[1] = m /\ \A d \in 1..q : s[1 + d] = own[d]
  BY <1>2, <1>3, <1>4, ChainLaid
<1>8. \A p \in 1..Len(s) : p = 1 \/ (p - 1 \in 1..q /\ p = 1 + (p - 1))
  BY <1>7
<1>9. \A d \in 1..q : own[d].kind = "result" /\ own[d].of \in m.calls
  <2>1. ASSUME NEW d \in 1..q PROVE own[d].kind = "result" /\ own[d].of \in m.calls
    <3>1. d \in 1..Len(own)
      BY <1>3
    <3>2. PICK k \in i + 1..RunEnd(ms, i) - 1 : own[d] = ms[k] /\ ms[k].of \in ms[i].calls
      BY <1>2, <3>1 DEF OwnOf
    <3>3. ms[k].kind = "result"
      BY <3>2, RunEnds
    <3>. QED
      BY <1>1, <3>2, <3>3
  <2>. QED
    BY <2>1
<1>10. \A p \in 1..Len(s) : p # 1 => s[p].kind = "result" /\ s[p].of \in m.calls
  <2>1. ASSUME NEW p \in 1..Len(s), p # 1 PROVE s[p].kind = "result" /\ s[p].of \in m.calls
    <3>1. s[p] = own[p - 1]
      BY <1>7, <1>8, <2>1
    <3>. QED
      BY <1>8, <1>9, <2>1, <3>1
  <2>. QED
    BY <2>1
<1>11. Follows(s)
  <2>1. ASSUME NEW j \in 1..Len(s), s[j].kind = "result"
        PROVE  \E a \in 1..j - 1 : s[j].of \in s[a].calls /\ \A k \in a + 1..j - 1 : s[k].kind = "result"
    <3>1. j # 1
      BY <1>1, <1>7, <2>1
    <3>2. 1 \in 1..j - 1 /\ \A k \in 1 + 1..j - 1 : k \in 1..Len(s) /\ k # 1
      BY <3>1
    <3>. QED
      BY <1>7, <1>10, <3>1, <3>2
  <2>. QED
    BY <2>1 DEF Follows
<1>12. ASSUME Full(ms) PROVE Full(s)
  <2>1. PICK n \in Nat : Chained(ms, i, n) /\ \A c \in ms[i].calls : Has(ms, i, n, c)
    BY <1>12 DEF Full
  <2>2. n = q
    BY <2>1, ChainLength
  <2>3. \A d \in 1..q : s[1 + d] = ms[i + d]
    <3>1. n <= Len(own) /\ \A d \in 1..n : own[d] = ms[i + d]
      BY <1>2, <2>1 DEF OwnOf
    <3>. QED
      BY <1>7, <2>2, <3>1
  <2>4. Chained(s, 1, q)
    <3>1. 1 + q <= Len(s)
      BY <1>7
    <3>2. ASSUME NEW d \in 1..q
          PROVE  /\ s[1 + d].kind = "result" /\ s[1 + d].of \in s[1].calls
                 /\ \A e \in 1..(d - 1) : s[1 + e].of # s[1 + d].of
      <4>1. d \in 1..n /\ \A e \in 1..(d - 1) : e \in 1..q
        BY <2>2
      <4>2. /\ ms[i + d].kind = "result" /\ ms[i + d].of \in ms[i].calls
            /\ \A e \in 1..(d - 1) : ms[i + e].of # ms[i + d].of
        BY <2>1, <4>1 DEF Chained
      <4>. QED
        BY <1>1, <1>7, <2>3, <4>1, <4>2
    <3>. QED
      BY <3>1, <3>2 DEF Chained
  <2>5. \A c \in s[1].calls : Has(s, 1, q, c)
    BY <1>1, <1>7, <2>1, <2>2, <2>3 DEF Has
  <2>6. ASSUME NEW p \in 1..Len(s), s[p].kind = "calls"
        PROVE  \E l \in Nat : Chained(s, p, l) /\ \A c \in s[p].calls : Has(s, p, l, c)
    <3>1. p = 1
      BY <1>10, <2>6
    <3>. QED
      BY <2>4, <2>5, <3>1
  <2>. QED
    BY <2>6 DEF Full
<1>. QED
  BY <1>1, <1>4, <1>7, <1>11, <1>12

\* What a request is made of.
Sound(ms, N) == {s \in Seq(Msgs(N)) : Follows(s) /\ (Full(ms) => Full(s))}

\* Each piece is sound, whatever its message is.
LEMMA PieceIsSound ==
  ASSUME NEW N \in Nat, NEW ms \in Seq(Msgs(N)), NEW i \in 1..Len(ms)
  PROVE  Piece(ms, i) \in Sound(ms, N)
<1>1. ms[i] \in Msgs(N)
  OBVIOUS
<1>2. PICK q : q = Cardinality(ms[i].calls)
  OBVIOUS
<1>3. q \in Nat
  <2>1. IsFiniteSet(ms[i].calls)
    BY <1>1 DEF Msgs
  <2>. QED
    BY <1>2, <2>1, FS_CardinalityType
<1>4. Own(ms, i) \in Seq(Msgs(N)) /\ OwnOf(Own(ms, i), ms, i)
  BY OwnResults
<1>5. ms[i].about \in SUBSET (1..N)
  BY <1>1 DEF Msgs
<1>6. ASSUME NEW X \in SUBSET (1..N) PROVE <<Text(X)>> \in Sound(ms, N)
  <2>1. Text(X) \in Msgs(N) /\ Text(X).kind = "text"
    BY TextIsMsg
  <2>2. <<Text(X)>> \in Seq(Msgs(N)) /\ Follows(<<Text(X)>>) /\ Full(<<Text(X)>>)
    BY <2>1, Alone1
  <2>. QED
    BY <2>2 DEF Sound
<1>7. CASE ms[i].kind = "calls"
  <2>1. CASE Len(Own(ms, i)) >= q
    <3>1. LET s == <<ms[i]>> \o SubSeq(Own(ms, i), 1, q)
          IN s \in Seq(Msgs(N)) /\ Follows(s) /\ (Full(ms) => Full(s))
      BY <1>2, <1>3, <1>7, <2>1, WholeChain
    <3>2. Piece(ms, i) = <<ms[i]>> \o SubSeq(Own(ms, i), 1, q)
      BY <1>2, <1>7, <2>1 DEF Piece, ChainPiece
    <3>. QED
      BY <3>1, <3>2 DEF Sound
  <2>2. CASE ~(Len(Own(ms, i)) >= q) /\ Own(ms, i) # <<>>
    <3>1. Piece(ms, i) = <<Text(ms[i].about \cup About(Own(ms, i)))>>
      BY <1>2, <1>7, <2>2 DEF Piece, ChainPiece
    <3>2. ms[i].about \cup About(Own(ms, i)) \in SUBSET (1..N)
      <4>1. About(Own(ms, i)) \in SUBSET (1..N)
        BY <1>4, AboutRows
      <4>. QED
        BY <1>5, <4>1
    <3>. QED
      BY <1>6, <3>1, <3>2
  <2>3. CASE ~(Len(Own(ms, i)) >= q) /\ Own(ms, i) = <<>>
    <3>1. Piece(ms, i) = <<ms[i]>>
      BY <1>2, <1>7, <2>3 DEF Piece, ChainPiece
    <3>2. ~Full(ms)
      <4>1. SUFFICES ASSUME Full(ms) PROVE FALSE
        OBVIOUS
      <4>2. PICK n \in Nat : Chained(ms, i, n) /\ \A c \in ms[i].calls : Has(ms, i, n, c)
        BY <1>7, <4>1 DEF Full
      <4>3. n = q
        BY <1>2, <4>2, ChainLength
      <4>4. n <= Len(Own(ms, i))
        BY <1>4, <4>2 DEF OwnOf
      <4>5. Len(Own(ms, i)) \in Nat
        BY <1>4
      <4>. QED
        BY <1>3, <2>3, <4>3, <4>4, <4>5
    <3>3. <<ms[i]>> \in Seq(Msgs(N)) /\ Follows(<<ms[i]>>)
      BY <1>1, <1>7, Alone1
    <3>. QED
      BY <3>1, <3>2, <3>3 DEF Sound
  <2>. QED
    BY <2>1, <2>2, <2>3
<1>8. CASE ms[i].kind = "result"
  <2>1. Piece(ms, i) = <<Text(ms[i].about)>>
    BY <1>8 DEF Piece
  <2>. QED
    BY <1>5, <1>6, <2>1
<1>9. CASE ms[i].kind # "result" /\ ms[i].kind # "calls"
  <2>1. Piece(ms, i) = <<ms[i]>>
    BY <1>9 DEF Piece
  <2>2. <<ms[i]>> \in Seq(Msgs(N)) /\ Follows(<<ms[i]>>) /\ Full(<<ms[i]>>)
    BY <1>1, <1>9, Alone1
  <2>. QED
    BY <2>1, <2>2 DEF Sound
<1>. QED
  BY <1>7, <1>8, <1>9

\* So sanitize_working_messages returns a sound window.
LEMMA SanitizedIsSound ==
  ASSUME NEW N \in Nat, NEW ms \in Seq(Msgs(N))
  PROVE  Sanitize(ms) \in Seq(Msgs(N)) /\ Follows(Sanitize(ms)) /\ (Full(ms) => Full(Sanitize(ms)))
<1>1. PICK T : T = Sound(ms, N)
  OBVIOUS
<1>2. <<>> \in T
  <2>1. <<>> \in Seq(Msgs(N)) /\ \A i \in 1..Len(<<>>) : FALSE
    OBVIOUS
  <2>. QED
    BY <1>1, <2>1 DEF Sound, Follows, Full
<1>3. ASSUME NEW a \in T, NEW b \in T PROVE a \o b \in T
  <2>1. /\ a \in Seq(Msgs(N)) /\ Follows(a) /\ (Full(ms) => Full(a))
        /\ b \in Seq(Msgs(N)) /\ Follows(b) /\ (Full(ms) => Full(b))
    BY <1>1, <1>3 DEF Sound
  <2>2. Follows(a \o b)
    BY <2>1, FollowsJoined
  <2>3. Full(ms) => Full(a \o b)
    BY <2>1, FullJoined
  <2>4. a \o b \in Seq(Msgs(N))
    BY <2>1
  <2>. QED
    BY <1>1, <2>2, <2>3, <2>4 DEF Sound
<1>4. \A i \in 1..Len(ms) : Piece(ms, i) \in T
  BY <1>1, PieceIsSound
<1>5. Sanitize(ms) \in T
  BY <1>2, <1>3, <1>4, SanitizedHas
<1>. QED
  BY <1>1, <1>5 DEF Sound

-----------------------------------------------------------------------------
(* repair_orphan_tool_calls.                                               *)

Missing(ms, i) == {Result(c, {}) : c \in ms[i].calls \ Answered(ms)}
Block(ms, i) == <<ms[i]>> \o SetToSeq(Missing(ms, i))

\* A message and the results it lacks.
BlockOf(s, ms, i, q) ==
  /\ Len(s) = q + 1 /\ s[1] = ms[i]
  /\ \A d \in 1..q : s[d + 1].kind = "result" /\ s[d + 1].of \in ms[i].calls \ Answered(ms)
  /\ \A d, e \in 1..q : d # e => s[d + 1].of # s[e + 1].of
  /\ \A c \in ms[i].calls \ Answered(ms) : \E d \in 1..q : s[d + 1].of = c
  /\ ms[i].calls = {} => q = 0

\* What repair makes is finitely many results, one of each call that has none.
LEMMA MissingOnes ==
  ASSUME NEW N \in Nat, NEW ms \in Seq(Msgs(N)), NEW i \in 1..Len(ms)
  PROVE  /\ IsFiniteSet(Missing(ms, i)) /\ Missing(ms, i) \subseteq Msgs(N)
         /\ \A m \in Missing(ms, i) : m.kind = "result" /\ m.of \in ms[i].calls \ Answered(ms)
         /\ \A m, k \in Missing(ms, i) : m # k => m.of # k.of
         /\ \A c \in ms[i].calls \ Answered(ms) : \E m \in Missing(ms, i) : m.of = c
<1>1. ms[i] \in Msgs(N)
  OBVIOUS
<1>2. PICK C : C = ms[i].calls \ Answered(ms)
  OBVIOUS
<1>3. IsFiniteSet(C) /\ C \subseteq (1..N) \X Nat
  <2>1. IsFiniteSet(ms[i].calls) /\ ms[i].calls \subseteq (1..N) \X Nat
    BY <1>1 DEF Msgs
  <2>2. C \subseteq ms[i].calls
    BY <1>2
  <2>. QED
    BY <2>1, <2>2, FS_Subset
<1>4. PICK f : f = [c \in C |-> Result(c, {})]
  OBVIOUS
<1>5. Missing(ms, i) = {f[c] : c \in C}
  BY <1>2, <1>4 DEF Missing
<1>6. \A c \in C : f[c].of = c /\ f[c].kind = "result" /\ f[c] \in Msgs(N)
  <2>1. ASSUME NEW c \in C PROVE f[c].of = c /\ f[c].kind = "result" /\ f[c] \in Msgs(N)
    <3>1. f[c] = Result(c, {}) /\ c \in (1..N) \X Nat
      BY <1>3, <1>4
    <3>2. /\ Result(c, {}).of = c /\ Result(c, {}).kind = "result" /\ Result(c, {}).calls = {}
          /\ Result(c, {}) \in [kind : Kinds, calls : SUBSET ((1..N) \X Nat),
                                of : ((1..N) \X Nat) \cup {<<>>}, about : SUBSET (1..N)]
      BY <3>1 DEF Result, Kinds
    <3>3. c # <<>>
      <4>1. PICK a \in 1..N, b \in Nat : c = <<a, b>>
        BY <3>1
      <4>2. Len(<<a, b>>) = 2 /\ Len(<<>>) = 0
        OBVIOUS
      <4>. QED
        BY <4>1, <4>2
    <3>4. IsFiniteSet({})
      BY FS_EmptySet
    <3>. QED
      BY <3>1, <3>2, <3>3, <3>4 DEF Msgs
  <2>. QED
    BY <2>1
<1>7. IsFiniteSet({f[c] : c \in C})
  <2>1. PICK I : I = {f[c] : c \in C}
    OBVIOUS
  <2>2. f \in Surjection(C, I)
    BY <1>4, <2>1 DEF Surjection
  <2>. QED
    BY <1>3, <2>1, <2>2, FS_Surjection DEF ExistsSurjection
<1>. QED
  BY <1>2, <1>5, <1>6, <1>7

\* So a block is its message and one result of each of its calls that has none.
LEMMA BlockShape ==
  ASSUME NEW N \in Nat, NEW ms \in Seq(Msgs(N)), NEW i \in 1..Len(ms)
  PROVE  Block(ms, i) \in Seq(Msgs(N)) /\ \E q \in Nat : BlockOf(Block(ms, i), ms, i, q)
<1>1. PICK M : M = Missing(ms, i)
  OBVIOUS
<1>2. /\ IsFiniteSet(M) /\ M \subseteq Msgs(N)
      /\ \A m \in M : m.kind = "result" /\ m.of \in ms[i].calls \ Answered(ms)
      /\ \A m, k \in M : m # k => m.of # k.of
      /\ \A c \in ms[i].calls \ Answered(ms) : \E m \in M : m.of = c
  <2>1. /\ IsFiniteSet(Missing(ms, i)) /\ Missing(ms, i) \subseteq Msgs(N)
        /\ \A m \in Missing(ms, i) : m.kind = "result" /\ m.of \in ms[i].calls \ Answered(ms)
        /\ \A m, k \in Missing(ms, i) : m # k => m.of # k.of
        /\ \A c \in ms[i].calls \ Answered(ms) : \E m \in Missing(ms, i) : m.of = c
    BY MissingOnes
  <2>. QED
    BY <1>1, <2>1, Zenon
<1>3. PICK r, q : r = SetToSeq(M) /\ q = Cardinality(M)
  OBVIOUS
<1>4. /\ r \in Seq(M) /\ Len(r) = q /\ q \in Nat
      /\ \A d, e \in 1..q : d # e => r[d] # r[e]
      /\ \A x \in M : \E d \in 1..q : r[d] = x
  BY <1>2, <1>3, SetInOrder
<1>5. r \in Seq(Msgs(N)) /\ ms[i] \in Msgs(N)
  <2>1. \A d \in 1..Len(r) : r[d] \in Msgs(N)
    BY <1>2, <1>4
  <2>. QED
    BY <1>4, <2>1
<1>6. PICK s : s = <<ms[i]>> \o r
  OBVIOUS
<1>7. s \in Seq(Msgs(N)) /\ Len(s) = q + 1 /\ s[1] = ms[i] /\ \A d \in 1..q : s[d + 1] = r[d]
  <2>1. <<ms[i]>> \in Seq(Msgs(N)) /\ Len(<<ms[i]>>) = 1 /\ <<ms[i]>>[1] = ms[i]
    BY <1>5
  <2>2. /\ s \in Seq(Msgs(N)) /\ Len(s) = Len(<<ms[i]>>) + Len(r)
        /\ \A p \in 1..Len(<<ms[i]>>) : s[p] = <<ms[i]>>[p]
        /\ \A d \in 1..Len(r) : s[Len(<<ms[i]>>) + d] = r[d]
    BY <1>5, <1>6, <2>1, Joined
  <2>3. 1 \in 1..1 /\ \A d \in 1..q : 1 + d = d + 1
    BY <1>4
  <2>. QED
    BY <1>4, <2>1, <2>2, <2>3
<1>8. \A d \in 1..q : r[d] \in M
  BY <1>4
<1>9. ms[i].calls = {} => q = 0
  <2>1. SUFFICES ASSUME ms[i].calls = {}, q # 0 PROVE FALSE
    OBVIOUS
  <2>2. 1 \in 1..q
    BY <1>4, <2>1
  <2>. QED
    BY <1>2, <1>8, <2>1, <2>2
<1>10. \A d \in 1..q : s[d + 1].kind = "result" /\ s[d + 1].of \in ms[i].calls \ Answered(ms)
  BY <1>2, <1>7, <1>8
<1>11. \A d, e \in 1..q : d # e => s[d + 1].of # s[e + 1].of
  BY <1>2, <1>4, <1>7, <1>8
<1>12. \A c \in ms[i].calls \ Answered(ms) : \E d \in 1..q : s[d + 1].of = c
  <2>1. ASSUME NEW c \in ms[i].calls \ Answered(ms) PROVE \E d \in 1..q : s[d + 1].of = c
    <3>1. PICK m \in M : m.of = c
      BY <1>2
    <3>2. PICK d \in 1..q : r[d] = m
      BY <1>4
    <3>. QED
      BY <1>7, <3>1, <3>2
  <2>. QED
    BY <2>1
<1>13. BlockOf(s, ms, i, q)
  BY <1>7, <1>9, <1>10, <1>11, <1>12 DEF BlockOf
<1>. QED
  BY <1>1, <1>3, <1>4, <1>6, <1>7, <1>13 DEF Block

\* Where a message of the window with its results is found after the repair.
ChainAt(F, B, ms, i, n, q, p) ==
  /\ p + q + n <= Len(F) /\ F[p] = ms[i]
  /\ \A d \in 1..q : F[p + d] = B[i][d + 1]
  /\ \A e \in 1..n : F[p + q + e] = ms[i + e]

\* A message with the results made for it and those it had is one run after the repair.
LEMMA ChainPlaced ==
  ASSUME NEW N \in Nat, NEW ms \in Seq(Msgs(N)), NEW B, \A k \in 1..Len(ms) : B[k] = Block(ms, k),
         NEW F \in Seq(Msgs(N)), NEW o \in [0..Len(ms) -> Nat], Placed(B, Len(ms), F, o),
         NEW i \in 1..Len(ms), NEW n \in Nat, i + n <= Len(ms), \A d \in 1..n : ms[i + d].kind = "result",
         NEW q \in Nat, BlockOf(B[i], ms, i, q),
         NEW p \in Nat, p = o[i - 1] + 1
  PROVE  ChainAt(F, B, ms, i, n, q, p)
<1>1. /\ \A k \in 1..Len(ms) : o[k] = o[k - 1] + Len(B[k])
      /\ \A k \in 1..Len(ms) : \A d \in 1..Len(B[k]) :
           o[k - 1] + d \in 1..Len(F) /\ F[o[k - 1] + d] = B[k][d]
  BY DEF Placed
<1>2. Len(B[i]) = q + 1 /\ B[i][1] = ms[i]
  BY DEF BlockOf
<1>3. o[i - 1] \in Nat /\ o[i] = p + q
  <2>1. i - 1 \in 0..Len(ms)
    OBVIOUS
  <2>2. o[i - 1] \in Nat
    BY <2>1
  <2>3. o[i] = o[i - 1] + (q + 1)
    BY <1>1, <1>2
  <2>4. \A x \in Nat : p = x + 1 => x + (q + 1) = p + q
    OBVIOUS
  <2>. QED
    BY <2>2, <2>3, <2>4
<1>4. F[p] = ms[i] /\ p + q <= Len(F)
  <2>1. 1 \in 1..Len(B[i]) /\ q + 1 \in 1..Len(B[i])
    BY <1>2
  <2>2. F[o[i - 1] + 1] = B[i][1] /\ o[i - 1] + (q + 1) \in 1..Len(F)
    BY <1>1, <2>1
  <2>3. \A x, y \in Nat : p = x + 1 /\ x + (q + 1) <= y => p + q <= y
    OBVIOUS
  <2>4. Len(F) \in Nat /\ o[i - 1] + (q + 1) <= Len(F)
    BY <2>2
  <2>. QED
    BY <1>2, <1>3, <2>2, <2>3, <2>4
<1>5. \A d \in 1..q : F[p + d] = B[i][d + 1]
  <2>1. ASSUME NEW d \in 1..q PROVE F[p + d] = B[i][d + 1]
    <3>1. d + 1 \in 1..(q + 1) /\ p + d = o[i - 1] + (d + 1)
      BY <1>3
    <3>2. d + 1 \in 1..Len(B[i])
      BY <1>2, <3>1
    <3>. QED
      BY <1>1, <3>1, <3>2
  <2>. QED
    BY <2>1
<1>6. \A e \in 1..n : i + e \in 1..Len(ms) /\ Len(B[i + e]) = 1 /\ B[i + e][1] = ms[i + e]
  <2>1. ASSUME NEW e \in 1..n PROVE i + e \in 1..Len(ms) /\ Len(B[i + e]) = 1 /\ B[i + e][1] = ms[i + e]
    <3>1. i + e \in 1..Len(ms) /\ ms[i + e].kind = "result"
      <4>1. Len(ms) \in Nat /\ i \in Nat
        OBVIOUS
      <4>2. i + e <= i + n /\ i + e \in Nat /\ 1 <= i + e
        BY <4>1
      <4>3. PICK l \in Nat : l = Len(ms) /\ i + n <= l
        BY <4>1
      <4>4. i + e \in 1..l
        BY <4>1, <4>2, <4>3
      <4>5. ms[i + e].kind = "result"
        OBVIOUS
      <4>. QED
        BY <4>3, <4>4, <4>5
    <3>2. ms[i + e] \in Msgs(N)
      BY <3>1
    <3>3. ms[i + e].calls = {}
      BY <3>1, <3>2 DEF Msgs
    <3>4. PICK l \in Nat : BlockOf(Block(ms, i + e), ms, i + e, l)
      BY <3>1, BlockShape
    <3>5. l = 0
      BY <3>3, <3>4 DEF BlockOf
    <3>. QED
      BY <3>1, <3>4, <3>5 DEF BlockOf
  <2>. QED
    BY <2>1
<1> DEFINE T == {e \in 0..n : o[i + e] = p + q + e}
<1>7. \A e \in 0..n : e \in T
  <2>1. 0 \in T
    <3>1. i + 0 = i /\ p + q + 0 = p + q /\ 0 \in 0..n
      OBVIOUS
    <3>. QED
      BY <1>3, <3>1
  <2>2. ASSUME NEW e \in 1..n, e - 1 \in T PROVE e \in T
    <3>1. o[i + (e - 1)] = p + q + (e - 1)
      BY <2>2
    <3>2. i + e \in 1..Len(ms) /\ Len(B[i + e]) = 1 /\ (i + e) - 1 = i + (e - 1)
      <4>1. (i + e) - 1 = i + (e - 1)
        OBVIOUS
      <4>. QED
        BY <1>6, <4>1
    <3>3. o[i + e] = o[(i + e) - 1] + Len(B[i + e])
      BY <1>1, <3>2
    <3>4. o[i + e] = p + q + (e - 1) + 1
      BY <3>1, <3>2, <3>3
    <3>5. p + q + (e - 1) + 1 = p + q + e /\ e \in 0..n
      OBVIOUS
    <3>. QED
      BY <3>4, <3>5
  <2> HIDE DEF T
  <2>. QED
    BY <2>1, <2>2, CountsUp
<1>8. ASSUME NEW e \in 1..n PROVE F[p + q + e] = ms[i + e] /\ p + q + e <= Len(F)
  <2>1. e - 1 \in 0..n
    OBVIOUS
  <2>2. o[i + (e - 1)] = p + q + (e - 1)
    BY <1>7, <2>1
  <2>3. i + e \in 1..Len(ms) /\ 1 \in 1..Len(B[i + e]) /\ (i + e) - 1 = i + (e - 1)
    <3>1. (i + e) - 1 = i + (e - 1) /\ 1 \in 1..1
      OBVIOUS
    <3>. QED
      BY <1>6, <3>1
  <2>4. o[(i + e) - 1] + 1 \in 1..Len(F) /\ F[o[(i + e) - 1] + 1] = B[i + e][1]
    BY <1>1, <2>3
  <2>5. o[(i + e) - 1] + 1 = p + q + e
    BY <2>2, <2>3
  <2>6. B[i + e][1] = ms[i + e]
    BY <1>6
  <2>7. p + q + e \in 1..Len(F) /\ F[p + q + e] = ms[i + e]
    BY <2>4, <2>5, <2>6
  <2>. QED
    BY <2>7
<1>9. p + q + n <= Len(F)
  <2>1. CASE n = 0
    BY <1>4, <2>1
  <2>2. CASE n # 0
    <3>1. n \in 1..n
      BY <2>2
    <3>. QED
      BY <1>8, <3>1
  <2>. QED
    BY <2>1, <2>2
<1>. QED
  BY <1>4, <1>5, <1>8, <1>9 DEF ChainAt

\* A repaired window is one of messages; where the results there are stand behind their calls,
\* every call then has its own.
LEMMA RepairIsFull ==
  ASSUME NEW N \in Nat, NEW ms \in Seq(Msgs(N))
  PROVE  Repair(ms) \in Seq(Msgs(N)) /\ (Part(ms) => Full(Repair(ms)))
<1>1. PICK B : B = [i \in 1..Len(ms) |-> Block(ms, i)]
  OBVIOUS
<1>2. B \in [1..Len(ms) -> Seq(Msgs(N))]
  <2>1. \A i \in 1..Len(ms) : Block(ms, i) \in Seq(Msgs(N))
    BY BlockShape
  <2>. QED
    BY <1>1, <2>1
<1>3. Len(ms) \in Nat /\ DOMAIN ms = 1..Len(ms)
  OBVIOUS
<1>4. PICK F : F = FlattenSeq(B)
  OBVIOUS
<1>5. F \in Seq(Msgs(N)) /\ \E o \in [0..Len(ms) -> Nat] : Placed(B, Len(ms), F, o)
  BY <1>2, <1>3, <1>4, FlattenPlaces
<1>6. PICK o \in [0..Len(ms) -> Nat] : Placed(B, Len(ms), F, o)
  BY <1>5
<1>7. Repair(ms) = F
  BY <1>1, <1>3, <1>4 DEF Repair, Block, Missing
<1>8. ASSUME Part(ms), NEW p \in 1..Len(F), F[p].kind = "calls"
      PROVE  \E l \in Nat : Chained(F, p, l) /\ \A c \in F[p].calls : Has(F, p, l, c)
  <2>1. PICK i \in 1..Len(ms) : \E d \in 1..Len(B[i]) : p = o[i - 1] + d
    BY <1>6 DEF Placed
  <2>2. PICK d \in 1..Len(B[i]) : p = o[i - 1] + d
    BY <2>1
  <2>3. F[p] = B[i][d]
    BY <1>6, <2>2 DEF Placed
  <2>4. PICK q \in Nat : BlockOf(B[i], ms, i, q)
    BY <1>1, BlockShape
  <2>5. d = 1
    <3>1. SUFFICES ASSUME d # 1 PROVE FALSE
      OBVIOUS
    <3>2. Len(B[i]) = q + 1
      BY <2>4 DEF BlockOf
    <3>3. d - 1 \in 1..q /\ (d - 1) + 1 = d
      BY <3>1, <3>2
    <3>4. B[i][(d - 1) + 1].kind = "result"
      BY <2>4, <3>3 DEF BlockOf
    <3>. QED
      BY <1>8, <2>3, <3>3, <3>4
  <2>6. F[p] = ms[i]
    BY <2>3, <2>4, <2>5 DEF BlockOf
  <2>7. PICK n \in Nat : Chained(ms, i, n)
                         /\ \A c \in ms[i].calls : Has(ms, i, n, c) \/ c \notin Answered(ms)
    BY <1>8, <2>6 DEF Part
  <2>8. p \in Nat /\ p = o[i - 1] + 1
    BY <2>2, <2>5
  <2>9. ChainAt(F, B, ms, i, n, q, p)
    <3>1. i + n <= Len(ms) /\ \A e \in 1..n : ms[i + e].kind = "result"
      BY <2>7 DEF Chained
    <3>2. F \in Seq(Msgs(N))
      BY <1>5
    <3>3. \A k \in 1..Len(ms) : B[k] = Block(ms, k)
      BY <1>1
    <3>. QED
      BY <1>6, <2>4, <2>8, <3>1, <3>2, <3>3, ChainPlaced, Zenon
  <2>10. /\ p + q + n <= Len(F)
         /\ \A e \in 1..q : F[p + e] = B[i][e + 1]
         /\ \A e \in 1..n : F[p + q + e] = ms[i + e]
    BY <2>9 DEF ChainAt
  <2>11. PICK l \in Nat : l = q + n
    OBVIOUS
  <2>12. ASSUME NEW e \in 1..q
         PROVE  F[p + e].kind = "result" /\ F[p + e].of \in ms[i].calls \ Answered(ms)
    <3>1. F[p + e] = B[i][e + 1]
      BY <2>10
    <3>2. B[i][e + 1].kind = "result" /\ B[i][e + 1].of \in ms[i].calls \ Answered(ms)
      BY <2>4 DEF BlockOf
    <3>. QED
      BY <3>1, <3>2, Zenon
  <2>13. ASSUME NEW e \in 1..l, ~(e \in 1..q)
         PROVE  e - q \in 1..n /\ F[p + e] = ms[i + (e - q)] /\ F[p + e].kind = "result"
                /\ F[p + e].of \in ms[i].calls /\ F[p + e].of \in Answered(ms)
    <3>1. e - q \in 1..n /\ p + q + (e - q) = p + e
      BY <2>8, <2>11, <2>13
    <3>2. F[p + e] = ms[i + (e - q)]
      BY <2>10, <3>1
    <3>3. ms[i + (e - q)].kind = "result" /\ ms[i + (e - q)].of \in ms[i].calls /\ i + n <= Len(ms)
      BY <2>7, <3>1 DEF Chained
    <3>4. i + (e - q) \in 1..Len(ms) /\ DOMAIN ms = 1..Len(ms)
      <4>1. e - q \in 1..n /\ i + n <= Len(ms) /\ i \in 1..Len(ms) /\ Len(ms) \in Nat
        BY <3>1, <3>3
      <4>2. \A k \in 1..n : i + k \in 1..Len(ms)
        BY <4>1
      <4>. QED
        BY <4>1, <4>2
    <3>5. ms[i + (e - q)].of \in Answered(ms)
      BY <3>3, <3>4 DEF Answered
    <3>. QED
      BY <3>1, <3>2, <3>3, <3>5
  <2>14. ASSUME NEW e \in 1..l
         PROVE  /\ F[p + e].kind = "result" /\ F[p + e].of \in F[p].calls
                /\ \A k \in 1..(e - 1) : F[p + k].of # F[p + e].of
    <3>1. F[p + e].kind = "result" /\ F[p + e].of \in F[p].calls
      BY <2>6, <2>12, <2>13
    <3>2. ASSUME NEW k \in 1..(e - 1) PROVE F[p + k].of # F[p + e].of
      <4>1. k \in 1..l /\ k < e
        OBVIOUS
      <4>2. CASE e \in 1..q
        <5>1. k \in 1..q /\ k # e
          BY <4>2, <4>1
        <5>2. B[i][k + 1].of # B[i][e + 1].of
          BY <2>4, <4>2, <5>1 DEF BlockOf
        <5>. QED
          BY <2>10, <4>2, <5>1, <5>2
      <4>3. CASE ~(e \in 1..q) /\ k \in 1..q
        BY <2>12, <2>13, <4>3
      <4>4. CASE ~(e \in 1..q) /\ ~(k \in 1..q)
        <5>1. /\ e - q \in 1..n /\ F[p + e] = ms[i + (e - q)]
              /\ k - q \in 1..n /\ F[p + k] = ms[i + (k - q)]
          BY <2>13, <4>1, <4>4
        <5>2. k - q \in 1..((e - q) - 1)
          BY <5>1, <4>1
        <5>3. ms[i + (k - q)].of # ms[i + (e - q)].of
          BY <2>7, <5>1, <5>2 DEF Chained
        <5>. QED
          BY <5>1, <5>3
      <4>. QED
        BY <4>2, <4>3, <4>4
    <3>. QED
      BY <3>1, <3>2
  <2>15. Chained(F, p, l)
    <3>1. p + l <= Len(F)
      BY <2>8, <2>10, <2>11
    <3>. QED
      BY <2>14, <3>1 DEF Chained
  <2>16. ASSUME NEW c \in F[p].calls PROVE Has(F, p, l, c)
    <3>1. CASE c \notin Answered(ms)
      <4>1. PICK e \in 1..q : B[i][e + 1].of = c
        BY <2>4, <2>6, <3>1 DEF BlockOf
      <4>2. e \in 1..l
        BY <2>11
      <4>. QED
        BY <2>10, <4>1, <4>2 DEF Has
    <3>2. CASE Has(ms, i, n, c)
      <4>1. PICK e \in 1..n : ms[i + e].of = c
        BY <3>2 DEF Has
      <4>2. q + e \in 1..l /\ p + (q + e) = p + q + e
        BY <2>8, <2>11
      <4>3. F[p + (q + e)].of = c
        BY <2>10, <4>1, <4>2
      <4>. QED
        BY <4>2, <4>3 DEF Has
    <3>. QED
      BY <2>6, <2>7, <3>1, <3>2
  <2>. QED
    BY <2>15, <2>16
<1>9. Part(ms) => Full(F)
  BY <1>8 DEF Full
<1>. QED
  BY <1>5, <1>7, <1>9

-----------------------------------------------------------------------------
(* The requests: each way of making one.                                   *)

\* The greatest of some numbers is one of them.
LEMMA GreatestNumber ==
  ASSUME NEW n \in Nat, NEW T \in SUBSET (1..n), T # {}
  PROVE  Max(T) \in T
<1>1. PICK U : U = {n - x : x \in T}
  OBVIOUS
<1>2. U \in SUBSET Nat /\ U # {}
  <2>1. \A x \in T : n - x \in Nat
    OBVIOUS
  <2>2. \E x \in T : n - x \in U
    BY <1>1
  <2>. QED
    BY <1>1, <2>1, <2>2
<1>3. PICK u \in U : \A y \in U : u <= y
  BY <1>2, LeastNumber
<1>4. PICK x \in T : u = n - x
  BY <1>1, <1>3
<1>5. ASSUME NEW y \in T PROVE x >= y
  <2>1. n - y \in U
    BY <1>1
  <2>2. n - x <= n - y /\ x \in 1..n /\ y \in 1..n
    BY <1>3, <1>4, <2>1
  <2>. QED
    BY <2>2
<1>6. \E z \in T : \A y \in T : z >= y
  BY <1>5
<1>. QED
  BY <1>6 DEF Max

\* The end of a sequence.
LEMMA SuffixIs ==
  ASSUME NEW S, NEW ms \in Seq(S), NEW k \in 1..Len(ms)
  PROVE  /\ From(ms, k) \in Seq(S) /\ Len(From(ms, k)) = Len(ms) - k + 1
         /\ \A p \in 1..Len(ms) - k + 1 : From(ms, k)[p] = ms[k + p - 1]
<1>1. PICK m \in Nat : m = Len(ms)
  OBVIOUS
<1>2. \A x \in k..m : x \in 1..Len(ms)
  BY <1>1
<1>3. SubSeq(ms, k, m) \in Seq(S)
  BY <1>1, <1>2
<1>4. /\ Len(SubSeq(ms, k, m)) = m - k + 1
      /\ \A p \in 1..m - k + 1 : SubSeq(ms, k, m)[p] = ms[k + p - 1]
  BY <1>1
<1>. QED
  BY <1>1, <1>3, <1>4 DEF From

\* The end of a full window is full: a chain that starts in it lies in it.
LEMMA SuffixIsFull ==
  ASSUME NEW S, NEW ms \in Seq(S), NEW k \in 1..Len(ms), Full(ms)
  PROVE  Full(From(ms, k))
<1>1. PICK s, m : s = From(ms, k) /\ m = Len(ms)
  OBVIOUS
<1>2. m \in Nat /\ k \in 1..m /\ Len(s) = m - k + 1 /\ \A p \in 1..m - k + 1 : s[p] = ms[k + p - 1]
  BY <1>1, SuffixIs
<1>3. ASSUME NEW i \in 1..Len(s), s[i].kind = "calls"
      PROVE  \E n \in Nat : Chained(s, i, n) /\ \A c \in s[i].calls : Has(s, i, n, c)
  <2>1. PICK j : j = k + i - 1
    OBVIOUS
  <2>2. j \in 1..m /\ s[i] = ms[j]
    BY <1>2, <2>1
  <2>3. PICK n \in Nat : Chained(ms, j, n) /\ \A c \in ms[j].calls : Has(ms, j, n, c)
    BY <1>1, <1>3, <2>2 DEF Full
  <2>4. j + n <= m
    BY <1>1, <2>3 DEF Chained
  <2>5. \A d \in 1..n : s[i + d] = ms[j + d]
    <3>1. ASSUME NEW d \in 1..n PROVE s[i + d] = ms[j + d]
      <4>1. i + d \in 1..m - k + 1 /\ k + (i + d) - 1 = j + d
        BY <1>2, <2>1, <2>4
      <4>. QED
        BY <1>2, <4>1
    <3>. QED
      BY <3>1
  <2>6. Chained(s, i, n)
    <3>1. i + n <= Len(s)
      BY <1>2, <2>1, <2>4
    <3>2. \A d \in 1..n : \A e \in 1..(d - 1) : e \in 1..n
      OBVIOUS
    <3>. QED
      BY <2>2, <2>3, <2>5, <3>1, <3>2 DEF Chained
  <2>7. \A c \in s[i].calls : Has(s, i, n, c)
    BY <2>2, <2>3, <2>5 DEF Has
  <2>. QED
    BY <2>6, <2>7
<1>. QED
  BY <1>1, <1>3 DEF Full

\* The last answer and the last message of a user have no calls.
LEMMA LastOneIs ==
  ASSUME NEW N \in Nat, NEW ms \in Seq(Msgs(N)), NEW T \in SUBSET (1..Len(ms)),
         NEW x, x = IF T # {} THEN Max(T) ELSE 0, \A i \in T : ms[i].kind \notin {"calls", "result"},
         NEW s, s = IF x = 0 THEN <<>> ELSE <<ms[x]>>
  PROVE  s \in Seq(Msgs(N)) /\ Full(s)
<1>1. CASE T = {}
  <2>1. s = <<>>
    BY <1>1
  <2>2. <<>> \in Seq(Msgs(N)) /\ \A i \in 1..Len(<<>>) : FALSE
    OBVIOUS
  <2>. QED
    BY <2>1, <2>2 DEF Full
<1>2. CASE T # {}
  <2>1. Len(ms) \in Nat
    OBVIOUS
  <2>2. Max(T) \in T
    BY <1>2, <2>1, GreatestNumber
  <2>5. x = Max(T)
    BY <1>2, Zenon
  <2>6. x \in T
    BY <2>2, <2>5, Zenon
  <2>3. x \in T /\ x \in 1..Len(ms) /\ x # 0
    BY <2>1, <2>6
  <2>4. s = <<ms[x]>> /\ ms[x] \in Msgs(N) /\ ms[x].kind # "calls"
    BY <2>3
  <2>. QED
    BY <2>4, Alone1
<1>. QED
  BY <1>1, <1>2

\* What emergency_compress keeps first is full: it has no calls.
LEMMA LastOnesFull ==
  ASSUME NEW N \in Nat, NEW ms \in Seq(Msgs(N))
  PROVE  LastOnes(ms) \in Seq(Msgs(N)) /\ Full(LastOnes(ms))
<1>1. PICK A : A = {i \in 1..Len(ms) : ms[i].kind = "text"}
  OBVIOUS
<1>2. PICK H : H = {i \in 1..Len(ms) : IsHuman(ms[i])}
  OBVIOUS
<1>3. PICK a : a = IF A # {} THEN Max(A) ELSE 0
  OBVIOUS
<1>4. PICK h : h = IF H # {} THEN Max(H) ELSE 0
  OBVIOUS
<1>5. PICK s, t : s = (IF a = 0 THEN <<>> ELSE <<ms[a]>>) /\ t = (IF h = 0 THEN <<>> ELSE <<ms[h]>>)
  OBVIOUS
<1>6. LastOnes(ms) = s \o t
  BY <1>1, <1>2, <1>3, <1>4, <1>5 DEF LastOnes, LastWhere, SelectLastInSeq
<1>7. s \in Seq(Msgs(N)) /\ Full(s)
  <2>1. A \in SUBSET (1..Len(ms)) /\ \A i \in A : ms[i].kind \notin {"calls", "result"}
    BY <1>1
  <2>. QED
    BY <1>3, <1>5, <2>1, LastOneIs
<1>8. t \in Seq(Msgs(N)) /\ Full(t)
  <2>1. H \in SUBSET (1..Len(ms)) /\ \A i \in H : ms[i].kind \notin {"calls", "result"}
    BY <1>2 DEF IsHuman
  <2>. QED
    BY <1>4, <1>5, <2>1, LastOneIs
<1>9. Full(s \o t)
  BY <1>7, <1>8, FullJoined
<1>10. s \o t \in Seq(Msgs(N))
  BY <1>7, <1>8
<1>. QED
  BY <1>6, <1>9, <1>10

\* What it falls back to is full: an end of a full window.
LEMMA LastThreeFull ==
  ASSUME NEW N \in Nat, NEW ms \in Seq(Msgs(N)), NEW k \in 1..Len(ms)
  PROVE  LastThree(ms, k) \in Seq(Msgs(N)) /\ (Full(ms) => Full(LastThree(ms, k)))
<1>1. PICK t : t = From(ms, k)
  OBVIOUS
<1>2. t \in Seq(Msgs(N)) /\ Len(t) = Len(ms) - k + 1 /\ (Full(ms) => Full(t))
  BY <1>1, SuffixIs, SuffixIsFull
<1>3. PICK a : a = IF Len(t) > 3 THEN Len(t) - 2 ELSE 1
  OBVIOUS
<1>4. Len(ms) \in Nat /\ Len(t) \in Nat \ {0}
  BY <1>2
<1>5. a \in 1..Len(t)
  BY <1>3, <1>4
<1>6. LastThree(ms, k) = From(t, a)
  BY <1>1, <1>3 DEF LastThree, From
<1>. QED
  BY <1>2, <1>5, <1>6, SuffixIs, SuffixIsFull

\* A window as the steps keep it, and a request made from it.
RequestFrom(b, ms, N) == b \in Seq(Msgs(N)) /\ Follows(b) /\ (Part(ms) => Full(b))

\* Every request is sanitized last, which keeps a full one full.
LEMMA SanitizedRequest ==
  ASSUME NEW N \in Nat, NEW ms, NEW t \in Seq(Msgs(N)), Part(ms) => Full(t)
  PROVE  RequestFrom(Sanitize(t), ms, N)
<1>1. Sanitize(t) \in Seq(Msgs(N)) /\ Follows(Sanitize(t)) /\ (Full(t) => Full(Sanitize(t)))
  BY SanitizedIsSound
<1>. QED
  BY <1>1 DEF RequestFrom

\* Each of the ways the steps make a request, from a window repaired first.
LEMMA Requests ==
  ASSUME NEW N \in Nat, NEW ms \in Seq(Msgs(N))
  PROVE  /\ RequestFrom(Sanitize(Repair(ms)), ms, N)
         /\ RequestFrom(Sanitize(LastOnes(Repair(ms))), ms, N)
         /\ \A k \in DOMAIN Repair(ms) : /\ RequestFrom(Sanitize(From(Repair(ms), k)), ms, N)
                                         /\ RequestFrom(Sanitize(LastThree(Repair(ms), k)), ms, N)
<1>1. PICK r : r = Repair(ms)
  OBVIOUS
<1>2. r \in Seq(Msgs(N)) /\ (Part(ms) => Full(r))
  BY <1>1, RepairIsFull
<1>3. RequestFrom(Sanitize(r), ms, N)
  BY <1>2, SanitizedRequest
<1>4. RequestFrom(Sanitize(LastOnes(r)), ms, N)
  BY <1>2, LastOnesFull, SanitizedRequest
<1>5. ASSUME NEW k \in DOMAIN r
      PROVE  RequestFrom(Sanitize(From(r, k)), ms, N) /\ RequestFrom(Sanitize(LastThree(r, k)), ms, N)
  <2>1. k \in 1..Len(r)
    BY <1>2
  <2>2. From(r, k) \in Seq(Msgs(N)) /\ (Part(ms) => Full(From(r, k)))
    BY <1>2, <2>1, SuffixIs, SuffixIsFull
  <2>3. LastThree(r, k) \in Seq(Msgs(N)) /\ (Part(ms) => Full(LastThree(r, k)))
    BY <1>2, <2>1, LastThreeFull
  <2>. QED
    BY <2>2, <2>3, SanitizedRequest
<1>. QED
  BY <1>1, <1>3, <1>4, <1>5

\* What this says of a request that was sent.
LEMMA SaysOfRequest ==
  ASSUME NEW N \in Nat, sent.body \in Seq(Msgs(N)), Follows(sent.body)
  PROVE  ResultsFollowCalls /\ (Full(sent.body) => RequestsWellFormed)
<1>1. PICK b : b = sent.body
  OBVIOUS
<1>2. b \in Seq(Msgs(N)) /\ Follows(b) /\ DOMAIN b = 1..Len(b) /\ Len(b) \in Nat
  BY <1>1
<1>3. ResultsFollowCalls
  BY <1>1, <1>2 DEF ResultsFollowCalls, Follows
<1>4. ASSUME Full(b), NEW i \in 1..Len(b)
      PROVE  b[i].calls \subseteq {b[j].of : j \in i + 1..RunEnd(b, i) - 1}
  <2>1. b[i] \in Msgs(N)
    BY <1>2
  <2>2. CASE b[i].kind # "calls"
    BY <2>1, <2>2 DEF Msgs
  <2>3. CASE b[i].kind = "calls"
    <3>1. PICK n \in Nat : Chained(b, i, n) /\ \A c \in b[i].calls : Has(b, i, n, c)
      BY <1>4, <2>3 DEF Full
    <3>2. PICK e : e = RunEnd(b, i)
      OBVIOUS
    <3>3. e \in i + 1..Len(b) + 1 /\ (e <= Len(b) => b[e].kind # "result")
      BY <1>2, <3>2, RunEnds
    <3>4. e > i + n
      <4>1. SUFFICES ASSUME ~(e > i + n) PROVE FALSE
        OBVIOUS
      <4>2. i + n <= Len(b) /\ \A d \in 1..n : b[i + d].kind = "result"
        BY <3>1 DEF Chained
      <4>3. e - i \in 1..n /\ i + (e - i) = e /\ e <= Len(b)
        BY <1>2, <3>3, <4>1, <4>2
      <4>. QED
        BY <3>3, <4>2, <4>3
    <3>5. ASSUME NEW c \in b[i].calls PROVE c \in {b[j].of : j \in i + 1..e - 1}
      <4>1. PICK d \in 1..n : b[i + d].of = c
        BY <3>1 DEF Has
      <4>2. i + d \in i + 1..e - 1
        BY <3>3, <3>4
      <4>. QED
        BY <4>1, <4>2
    <3>. QED
      BY <3>2, <3>5
  <2>. QED
    BY <2>2, <2>3
<1>5. Full(b) => RequestsWellFormed
  BY <1>1, <1>2, <1>4 DEF RequestsWellFormed
<1>. QED
  BY <1>1, <1>3, <1>5

-----------------------------------------------------------------------------
(* The window grows.                                                       *)

\* The calls two sequences answer together.
LEMMA AnsweredJoined ==
  ASSUME NEW S, NEW a \in Seq(S), NEW b \in Seq(S)
  PROVE  Answered(a \o b) = Answered(a) \cup Answered(b)
<1>1. PICK g : g = a \o b
  OBVIOUS
<1>2. PICK m, n : m = Len(a) /\ n = Len(b)
  OBVIOUS
<1>3. /\ Len(g) = m + n /\ m \in Nat /\ n \in Nat
      /\ \A p \in 1..m : g[p] = a[p]
      /\ \A d \in 1..n : g[m + d] = b[d]
      /\ \A p \in 1..Len(g) : p \in 1..m \/ p - m \in 1..n
  BY <1>1, <1>2, Joined
<1>4. DOMAIN g = 1..(m + n) /\ DOMAIN a = 1..m /\ DOMAIN b = 1..n
  <2>1. g \in Seq(S)
    BY <1>1
  <2>. QED
    BY <1>2, <1>3, <2>1
<1>5. ASSUME NEW c \in Answered(g) PROVE c \in Answered(a) \cup Answered(b)
  <2>1. PICK j \in 1..(m + n) : g[j].kind = "result" /\ g[j].of = c
    BY <1>4 DEF Answered
  <2>2. CASE j \in 1..m
    BY <1>3, <1>4, <2>1, <2>2 DEF Answered
  <2>3. CASE j - m \in 1..n
    <3>1. m + (j - m) = j
      BY <1>3
    <3>2. g[j] = b[j - m]
      BY <1>3, <2>3, <3>1
    <3>. QED
      BY <1>4, <2>1, <2>3, <3>2 DEF Answered
  <2>. QED
    BY <1>3, <2>1, <2>2, <2>3
<1>6. ASSUME NEW c \in Answered(a) PROVE c \in Answered(g)
  <2>1. PICK j \in 1..m : a[j].kind = "result" /\ a[j].of = c
    BY <1>4 DEF Answered
  <2>2. j \in 1..(m + n) /\ g[j] = a[j]
    BY <1>3
  <2>. QED
    BY <1>4, <2>1, <2>2 DEF Answered
<1>7. ASSUME NEW c \in Answered(b) PROVE c \in Answered(g)
  <2>1. PICK j \in 1..n : b[j].kind = "result" /\ b[j].of = c
    BY <1>4 DEF Answered
  <2>2. m + j \in 1..(m + n) /\ g[m + j] = b[j]
    BY <1>3
  <2>. QED
    BY <1>4, <2>1, <2>2 DEF Answered
<1>. QED
  BY <1>1, <1>5, <1>6, <1>7

\* The answers of one message.
LEMMA AnsweredByOne ==
  ASSUME NEW m
  PROVE  /\ m.kind # "result" => Answered(<<m>>) = {}
         /\ m.kind = "result" => Answered(<<m>>) = {m.of}
<1>1. PICK s : s = <<m>>
  OBVIOUS
<1>2. DOMAIN s = {1} /\ s[1] = m
  BY <1>1
<1>3. m.kind # "result" => Answered(s) = {}
  BY <1>2 DEF Answered
<1>4. m.kind = "result" => Answered(s) = {m.of}
  BY <1>2 DEF Answered
<1>. QED
  BY <1>1, <1>3, <1>4

\* A chain is still one in a longer sequence.
LEMMA ChainStays ==
  ASSUME NEW m \in Nat, NEW n \in Nat, NEW a, NEW g, Len(a) = m, Len(g) = m + n,
         \A p \in 1..m : g[p] = a[p], NEW i \in 1..m, NEW l \in Nat, Chained(a, i, l)
  PROVE  Chained(g, i, l) /\ \A c \in g[i].calls : Has(a, i, l, c) => Has(g, i, l, c)
<1>1. i + l <= m
  BY DEF Chained
<1>2. g[i] = a[i] /\ \A d \in 1..l : g[i + d] = a[i + d]
  <2>1. \A d \in 1..l : i + d \in 1..m
    BY <1>1
  <2>. QED
    BY <2>1
<1>3. \A d \in 1..l : \A e \in 1..(d - 1) : e \in 1..l
  OBVIOUS
<1>4. i + l <= Len(g)
  BY <1>1
<1>5. Chained(g, i, l)
  BY <1>2, <1>3, <1>4 DEF Chained
<1>6. \A c \in g[i].calls : Has(a, i, l, c) => Has(g, i, l, c)
  BY <1>2 DEF Has
<1>. QED
  BY <1>5, <1>6

\* Results of whatever calls, behind a window that has all of its own.
LEMMA FullThenResults ==
  ASSUME NEW S, NEW a \in Seq(S), NEW b \in Seq(S), Full(a), \A d \in 1..Len(b) : b[d].kind = "result"
  PROVE  Part(a \o b)
<1>1. PICK g : g = a \o b
  OBVIOUS
<1>2. PICK m, n : m = Len(a) /\ n = Len(b)
  OBVIOUS
<1>3. /\ Len(g) = m + n /\ m \in Nat /\ n \in Nat
      /\ \A p \in 1..m : g[p] = a[p]
      /\ \A d \in 1..n : g[m + d] = b[d]
      /\ \A p \in 1..Len(g) : p \in 1..m \/ p - m \in 1..n
  BY <1>1, <1>2, Joined
<1>4. ASSUME NEW i \in 1..Len(g), g[i].kind = "calls"
      PROVE  \E l \in Nat : Chained(g, i, l) /\ \A c \in g[i].calls : Has(g, i, l, c) \/ c \notin Answered(g)
  <2>1. i \in 1..m
    <3>1. SUFFICES ASSUME i - m \in 1..n PROVE FALSE
      BY <1>3
    <3>2. m + (i - m) = i
      BY <1>3
    <3>3. g[i] = b[i - m]
      BY <1>3, <3>1, <3>2
    <3>. QED
      BY <1>2, <1>4, <3>1, <3>3
  <2>2. a[i].kind = "calls" /\ g[i] = a[i]
    BY <1>3, <1>4, <2>1
  <2>3. PICK l \in Nat : Chained(a, i, l) /\ \A c \in a[i].calls : Has(a, i, l, c)
    BY <1>2, <2>1, <2>2 DEF Full
  <2>4. Chained(g, i, l) /\ \A c \in g[i].calls : Has(a, i, l, c) => Has(g, i, l, c)
    BY <1>2, <1>3, <2>1, <2>3, ChainStays
  <2>. QED
    BY <2>2, <2>3, <2>4
<1>. QED
  BY <1>1, <1>4 DEF Part

\* One message more, whose calls have no results yet.
LEMMA PartOneMore ==
  ASSUME NEW S, NEW w \in Seq(S), NEW x \in S, Part(w), x.kind # "result",
         \A c \in x.calls : c \notin Answered(w)
  PROVE  Part(w \o <<x>>)
<1>1. PICK b : b = <<x>>
  OBVIOUS
<1>2. b \in Seq(S) /\ Len(b) = 1 /\ b[1] = x /\ Answered(b) = {}
  BY <1>1, AnsweredByOne
<1>3. PICK g : g = w \o b
  OBVIOUS
<1>4. PICK m : m = Len(w)
  OBVIOUS
<1>5. /\ Len(g) = m + 1 /\ m \in Nat
      /\ \A p \in 1..m : g[p] = w[p]
      /\ g[m + 1] = x
  <2>1. /\ g \in Seq(S) /\ Len(g) = Len(w) + Len(b) /\ Len(w) \in Nat /\ Len(b) \in Nat
        /\ \A p \in 1..Len(w) : g[p] = w[p]
        /\ \A d \in 1..Len(b) : g[Len(w) + d] = b[d]
        /\ \A p \in 1..Len(g) : p \in 1..Len(w) \/ p - Len(w) \in 1..Len(b)
    <3>1. b \in Seq(S)
      BY <1>2
    <3>. QED
      BY <1>3, <3>1, Joined
  <2>2. 1 \in 1..1
    OBVIOUS
  <2>. QED
    BY <1>2, <1>4, <2>1, <2>2
<1>6. Answered(g) = Answered(w)
  <2>1. b \in Seq(S)
    BY <1>2
  <2>2. Answered(g) = Answered(w) \cup Answered(b)
    BY <1>3, <2>1, AnsweredJoined, Zenon
  <2>. QED
    BY <1>2, <2>2
<1>7. ASSUME NEW i \in 1..Len(g), g[i].kind = "calls"
      PROVE  \E l \in Nat : Chained(g, i, l) /\ \A c \in g[i].calls : Has(g, i, l, c) \/ c \notin Answered(g)
  <2>1. CASE i \in 1..m
    <3>1. w[i].kind = "calls" /\ g[i] = w[i]
      BY <1>5, <1>7, <2>1
    <3>2. PICK l \in Nat : Chained(w, i, l) /\ \A c \in w[i].calls : Has(w, i, l, c) \/ c \notin Answered(w)
      BY <1>4, <2>1, <3>1 DEF Part
    <3>3. Chained(g, i, l) /\ \A c \in g[i].calls : Has(w, i, l, c) => Has(g, i, l, c)
      BY <1>4, <1>5, <2>1, <3>2, ChainStays
    <3>. QED
      BY <1>6, <3>1, <3>2, <3>3
  <2>2. CASE i = m + 1
    <3>1. Chained(g, i, 0)
      <4>1. i + 0 <= Len(g) /\ \A d \in 1..0 : FALSE
        BY <1>5, <2>2
      <4>. QED
        BY <4>1 DEF Chained
    <3>2. \A c \in g[i].calls : c \notin Answered(g)
      BY <1>5, <1>6, <2>2
    <3>. QED
      BY <3>1, <3>2
  <2>. QED
    BY <1>5, <2>1, <2>2
<1>. QED
  BY <1>1, <1>3, <1>7 DEF Part

\* The last message is one with calls that are no other's.
Alone(w) ==
  /\ w # <<>> /\ w[Len(w)].kind = "calls"
  /\ \A i \in 1..(Len(w) - 1) : w[i].calls \cap w[Len(w)].calls = {}

\* Its results, of some of its calls, each once.
LEMMA PartExtended ==
  ASSUME NEW S, NEW w \in Seq(S), NEW b \in Seq(S), Part(w), Alone(w),
         \A d \in 1..Len(b) : /\ b[d].kind = "result" /\ b[d].of \in w[Len(w)].calls
                              /\ \A e \in 1..(d - 1) : b[e].of # b[d].of
  PROVE  Part(w \o b)
<1>1. PICK g : g = w \o b
  OBVIOUS
<1>2. PICK m, n : m = Len(w) /\ n = Len(b)
  OBVIOUS
<1>3. /\ Len(g) = m + n /\ m \in Nat /\ n \in Nat
      /\ \A p \in 1..m : g[p] = w[p]
      /\ \A d \in 1..n : g[m + d] = b[d]
      /\ \A p \in 1..Len(g) : p \in 1..m \/ p - m \in 1..n
  BY <1>1, <1>2, Joined
<1>4. m \in 1..m /\ w[m].kind = "calls" /\ \A i \in 1..(m - 1) : w[i].calls \cap w[m].calls = {}
  <2>1. m # 0
    BY <1>2 DEF Alone
  <2>. QED
    BY <1>2, <1>3, <2>1 DEF Alone
<1>5. Answered(g) = Answered(w) \cup Answered(b) /\ DOMAIN b = 1..n
  BY <1>1, <1>2, AnsweredJoined
<1>6. Answered(b) \subseteq w[m].calls
  BY <1>2, <1>5 DEF Answered
<1>7. ASSUME NEW i \in 1..Len(g), g[i].kind = "calls"
      PROVE  \E l \in Nat : Chained(g, i, l) /\ \A c \in g[i].calls : Has(g, i, l, c) \/ c \notin Answered(g)
  <2>1. i \in 1..m
    <3>1. SUFFICES ASSUME i - m \in 1..n PROVE FALSE
      BY <1>3
    <3>2. m + (i - m) = i
      BY <1>3
    <3>3. g[i] = b[i - m]
      BY <1>3, <3>1, <3>2
    <3>. QED
      BY <1>2, <1>7, <3>1, <3>3
  <2>2. w[i].kind = "calls" /\ g[i] = w[i]
    BY <1>3, <1>7, <2>1
  <2>3. PICK l \in Nat : Chained(w, i, l) /\ \A c \in w[i].calls : Has(w, i, l, c) \/ c \notin Answered(w)
    BY <1>2, <2>1, <2>2 DEF Part
  <2>4. CASE i \in 1..(m - 1)
    <3>1. Chained(g, i, l) /\ \A c \in g[i].calls : Has(w, i, l, c) => Has(g, i, l, c)
      BY <1>2, <1>3, <2>1, <2>3, ChainStays
    <3>2. \A c \in g[i].calls : c \notin Answered(b)
      BY <1>4, <1>6, <2>2, <2>4
    <3>. QED
      BY <1>5, <2>2, <2>3, <3>1, <3>2
  <2>5. CASE i = m
    <3>1. l = 0
      BY <1>2, <1>3, <2>3, <2>5 DEF Chained
    <3>2. \A c \in w[m].calls : c \notin Answered(w)
      BY <2>3, <2>5, <3>1 DEF Has
    <3>3. Chained(g, m, n)
      <4>1. m + n <= Len(g) /\ \A d \in 1..n : \A e \in 1..(d - 1) : e \in 1..n
        BY <1>3
      <4>2. ASSUME NEW d \in 1..n
            PROVE  /\ g[m + d].kind = "result" /\ g[m + d].of \in g[m].calls
                   /\ \A e \in 1..(d - 1) : g[m + e].of # g[m + d].of
        <5>1. /\ b[d].kind = "result" /\ b[d].of \in w[m].calls
              /\ \A e \in 1..(d - 1) : b[e].of # b[d].of
          BY <1>2
        <5>2. g[m + d] = b[d] /\ g[m] = w[m] /\ \A e \in 1..(d - 1) : g[m + e] = b[e]
          BY <1>3, <1>4, <4>1
        <5>. QED
          BY <5>1, <5>2
      <4>. QED
        BY <4>1, <4>2 DEF Chained
    <3>4. ASSUME NEW c \in g[m].calls PROVE Has(g, m, n, c) \/ c \notin Answered(g)
      <4>1. SUFFICES ASSUME c \in Answered(b) PROVE Has(g, m, n, c)
        BY <1>3, <1>4, <1>5, <3>2
      <4>2. PICK d \in 1..n : b[d].of = c
        BY <1>5, <4>1 DEF Answered
      <4>. QED
        BY <1>3, <4>2 DEF Has
    <3>. QED
      BY <1>3, <2>5, <3>3, <3>4
  <2>6. i \in 1..(m - 1) \/ i = m
    BY <1>3, <2>1
  <2>. QED
    BY <2>4, <2>5, <2>6
<1>. QED
  BY <1>1, <1>7 DEF Part

-----------------------------------------------------------------------------
(* The rows of the ledger.                                                 *)

\* LedgerInOrder of any rows.
InOrder(s) ==
  \A i, j \in DOMAIN s : s[j].of \in s[i].calls => \A k \in i + 1..j - 1 : s[k].kind = "result"

\* A result has its calls at an earlier row, a call has the number of its row, and no call has
\* two results.
Rows(s) ==
  /\ \A j \in 1..Len(s) : s[j].kind = "result" => \E i \in 1..(j - 1) : s[j].of \in s[i].calls
  /\ \A i \in 1..Len(s) : \A c \in s[i].calls : c[1] = i
  /\ \A j, k \in 1..Len(s) :
       s[j].kind = "result" /\ s[k].kind = "result" /\ s[j].of = s[k].of => j = k

\* The start of rows in order is in order.
LEMMA OrderedBefore ==
  ASSUME NEW S, NEW a \in Seq(S), NEW b \in Seq(S), InOrder(a \o b)
  PROVE  InOrder(a)
<1>1. PICK g : g = a \o b
  OBVIOUS
<1>2. PICK m, n : m = Len(a) /\ n = Len(b)
  OBVIOUS
<1>3. /\ g \in Seq(S) /\ Len(g) = m + n /\ m \in Nat /\ n \in Nat
      /\ \A p \in 1..m : g[p] = a[p]
  BY <1>1, <1>2, Joined
<1>4. DOMAIN g = 1..(m + n) /\ DOMAIN a = 1..m
  BY <1>2, <1>3
<1>5. ASSUME NEW i \in 1..m, NEW j \in 1..m, a[j].of \in a[i].calls, NEW k \in i + 1..j - 1
      PROVE  a[k].kind = "result"
  <2>1. i \in 1..(m + n) /\ j \in 1..(m + n) /\ k \in 1..m
    BY <1>3
  <2>2. g[j].of \in g[i].calls
    BY <1>3, <1>5
  <2>3. g[k].kind = "result"
    BY <1>1, <1>4, <2>1, <2>2 DEF InOrder
  <2>. QED
    BY <1>3, <2>1, <2>3
<1>. QED
  BY <1>4, <1>5 DEF InOrder

\* Rows in order are a window whose calls have their results behind them.
LEMMA PartOfRows ==
  ASSUME NEW N \in Nat, NEW s \in Seq(Msgs(N)), Rows(s), InOrder(s)
  PROVE  Part(s)
<1>1. DOMAIN s = 1..Len(s) /\ Len(s) \in Nat
  OBVIOUS
<1>2. ASSUME NEW p \in 1..Len(s), s[p].kind = "result" PROVE s[p].calls = {}
  <2>1. s[p] \in Msgs(N)
    OBVIOUS
  <2>. QED
    BY <1>2, <2>1 DEF Msgs
<1>3. ASSUME NEW i \in 1..Len(s), s[i].kind = "calls"
      PROVE  \E n \in Nat : Chained(s, i, n) /\ \A c \in s[i].calls : Has(s, i, n, c) \/ c \notin Answered(s)
  <2>1. PICK e : e = RunEnd(s, i)
    OBVIOUS
  <2>2. /\ e \in i + 1..Len(s) + 1
        /\ \A k \in i + 1..e - 1 : s[k].kind = "result"
        /\ e <= Len(s) => s[e].kind # "result"
    BY <2>1, RunEnds
  <2>3. PICK n : n = e - i - 1
    OBVIOUS
  <2>4. n \in Nat /\ i + n = e - 1 /\ i + n <= Len(s)
    BY <1>1, <2>2, <2>3
  <2>5. ASSUME NEW d \in 1..n
        PROVE  i + d \in i + 1..e - 1 /\ i + d \in 1..Len(s) /\ s[i + d].kind = "result"
    <3>1. i + d \in i + 1..e - 1 /\ i + d \in 1..Len(s)
      BY <2>4
    <3>. QED
      BY <2>2, <3>1
  <2>6. ASSUME NEW d \in 1..n PROVE s[i + d].of \in s[i].calls
    <3>1. PICK j : j = i + d
      OBVIOUS
    <3>2. j \in i + 1..e - 1 /\ j \in 1..Len(s) /\ s[j].kind = "result"
      BY <2>5, <3>1
    <3>3. PICK h \in 1..(j - 1) : s[j].of \in s[h].calls
      BY <3>2 DEF Rows
    <3>4. h \in 1..Len(s)
      BY <3>2
    <3>5. ~(h < i)
      <4>1. SUFFICES ASSUME h < i PROVE FALSE
        OBVIOUS
      <4>2. i \in h + 1..j - 1
        BY <3>2, <3>4, <4>1
      <4>3. s[i].kind = "result"
        BY <1>1, <3>2, <3>3, <3>4, <4>2 DEF InOrder
      <4>. QED
        BY <1>3, <4>3
    <3>6. ~(h > i)
      <4>1. SUFFICES ASSUME h > i PROVE FALSE
        OBVIOUS
      <4>2. e \in Int /\ j <= e - 1 /\ h <= j - 1
        BY <1>1, <2>2, <3>2
      <4>3. h \in i + 1..e - 1
        BY <3>2, <3>4, <4>2, <4>1
      <4>4. s[h].calls = {}
        BY <1>2, <2>2, <3>4, <4>3
      <4>. QED
        BY <3>3, <4>4
    <3>7. h = i
      BY <3>4, <3>5, <3>6
    <3>. QED
      BY <3>1, <3>3, <3>7
  <2>7. ASSUME NEW d \in 1..n, NEW k \in 1..(d - 1) PROVE s[i + k].of # s[i + d].of
    <3>1. k \in 1..n /\ i + k # i + d
      BY <2>4
    <3>2. /\ s[i + d].kind = "result" /\ i + d \in 1..Len(s)
          /\ s[i + k].kind = "result" /\ i + k \in 1..Len(s)
      BY <2>5, <3>1
    <3>. QED
      BY <3>1, <3>2 DEF Rows
  <2>8. Chained(s, i, n)
    BY <2>4, <2>5, <2>6, <2>7 DEF Chained
  <2>9. ASSUME NEW c \in s[i].calls, c \in Answered(s) PROVE Has(s, i, n, c)
    <3>1. PICK j \in 1..Len(s) : s[j].kind = "result" /\ s[j].of = c
      BY <1>1, <2>9 DEF Answered
    <3>2. PICK h \in 1..(j - 1) : c \in s[h].calls
      BY <3>1 DEF Rows
    <3>3. h \in 1..Len(s)
      BY <1>1
    <3>4. c[1] = h /\ c[1] = i
      BY <2>9, <3>2, <3>3 DEF Rows
    <3>5. h = i
      BY <3>4
    <3>6. \A k \in i + 1..j - 1 : s[k].kind = "result"
      BY <1>1, <2>9, <3>1 DEF InOrder
    <3>7. j < e
      <4>1. SUFFICES ASSUME ~(j < e) PROVE FALSE
        OBVIOUS
      <4>2. e <= Len(s) /\ e \in i + 1..Len(s)
        BY <1>1, <2>2, <4>1
      <4>3. e = j \/ e \in i + 1..j - 1
        BY <4>1, <4>2
      <4>. QED
        BY <2>2, <3>1, <3>6, <4>2, <4>3
    <3>8. j - i \in 1..n /\ i + (j - i) = j
      BY <2>2, <2>4, <3>5, <3>7
    <3>. QED
      BY <3>1, <3>8 DEF Has
  <2>. QED
    BY <2>4, <2>8, <2>9
<1>. QED
  BY <1>3 DEF Part

\* A row more that is no result.
LEMMA RowsMore ==
  ASSUME NEW S, NEW s \in Seq(S), NEW x \in S, Rows(s), x.kind # "result",
         \A c \in x.calls : c[1] = Len(s) + 1
  PROVE  Rows(s \o <<x>>)
<1>1. PICK g, n : g = s \o <<x>> /\ n = Len(s)
  OBVIOUS
<1>2. /\ n \in Nat /\ Len(g) = n + 1
      /\ \A p \in 1..n : g[p] = s[p]
      /\ g[n + 1] = x
  BY <1>1
<1>3. \A p \in 1..Len(g) : p \in 1..n \/ p = n + 1
  BY <1>2
<1>4. ASSUME NEW j \in 1..Len(g), g[j].kind = "result"
      PROVE  j \in 1..n /\ s[j].kind = "result" /\ g[j] = s[j]
  BY <1>2, <1>3, <1>4
<1>5. ASSUME NEW j \in 1..Len(g), g[j].kind = "result" PROVE \E i \in 1..(j - 1) : g[j].of \in g[i].calls
  <2>1. j \in 1..n /\ s[j].kind = "result" /\ g[j] = s[j]
    BY <1>4, <1>5
  <2>2. PICK i \in 1..(j - 1) : s[j].of \in s[i].calls
    BY <1>1, <2>1 DEF Rows
  <2>3. i \in 1..n
    BY <1>2, <2>1
  <2>. QED
    BY <1>2, <2>1, <2>2, <2>3
<1>6. ASSUME NEW i \in 1..Len(g), NEW c \in g[i].calls PROVE c[1] = i
  <2>1. CASE i \in 1..n
    BY <1>1, <1>2, <1>6, <2>1 DEF Rows
  <2>2. CASE i = n + 1
    BY <1>1, <1>2, <1>6, <2>2
  <2>. QED
    BY <1>3, <2>1, <2>2
<1>7. ASSUME NEW j \in 1..Len(g), NEW k \in 1..Len(g), g[j].kind = "result", g[k].kind = "result",
             g[j].of = g[k].of
      PROVE  j = k
  <2>1. /\ j \in 1..n /\ s[j].kind = "result" /\ g[j] = s[j]
        /\ k \in 1..n /\ s[k].kind = "result" /\ g[k] = s[k]
    BY <1>4, <1>7
  <2>. QED
    BY <1>1, <1>7, <2>1 DEF Rows
<1>. QED
  BY <1>1, <1>5, <1>6, <1>7 DEF Rows

\* Results more, of calls that had none.
OpenResults(b, s) ==
  \A d \in 1..Len(b) : /\ b[d].kind = "result" /\ b[d].calls = {}
                       /\ b[d].of \notin Answered(s)
                       /\ \E i \in 1..Len(s) : b[d].of \in s[i].calls
                       /\ \A e \in 1..(d - 1) : b[e].of # b[d].of

\* Such results are rows the ledger can have.
LEMMA RowsAnswered ==
  ASSUME NEW S, NEW s \in Seq(S), NEW b \in Seq(S), Rows(s), OpenResults(b, s)
  PROVE  Rows(s \o b)
<1>1. \A d \in 1..Len(b) : /\ b[d].kind = "result" /\ b[d].calls = {}
                           /\ b[d].of \notin Answered(s)
                           /\ \E i \in 1..Len(s) : b[d].of \in s[i].calls
                           /\ \A e \in 1..(d - 1) : b[e].of # b[d].of
  BY DEF OpenResults
<1>2. PICK g : g = s \o b
  OBVIOUS
<1>3. PICK m, n : m = Len(s) /\ n = Len(b)
  OBVIOUS
<1>4. /\ Len(g) = m + n /\ m \in Nat /\ n \in Nat
      /\ \A p \in 1..m : g[p] = s[p]
      /\ \A d \in 1..n : g[m + d] = b[d]
      /\ \A p \in 1..Len(g) : p \in 1..m \/ p - m \in 1..n
  BY <1>2, <1>3, Joined
<1>5. \A p \in 1..Len(g) : p \in 1..m \/ (p - m \in 1..n /\ g[p] = b[p - m])
  <2>1. ASSUME NEW p \in 1..Len(g), p - m \in 1..n PROVE g[p] = b[p - m]
    <3>1. m + (p - m) = p
      BY <1>4
    <3>. QED
      BY <1>4, <2>1, <3>1
  <2>. QED
    BY <1>4, <2>1
<1>6. ASSUME NEW j \in 1..Len(g), g[j].kind = "result" PROVE \E i \in 1..(j - 1) : g[j].of \in g[i].calls
  <2>1. CASE j \in 1..m
    <3>1. PICK i \in 1..(j - 1) : s[j].of \in s[i].calls
      BY <1>3, <1>4, <1>6, <2>1 DEF Rows
    <3>2. i \in 1..m
      BY <1>4, <2>1
    <3>. QED
      BY <1>4, <2>1, <3>1, <3>2
  <2>2. CASE j - m \in 1..n /\ g[j] = b[j - m]
    <3>1. PICK i \in 1..m : b[j - m].of \in s[i].calls
      BY <1>1, <1>3, <2>2
    <3>2. i \in 1..(j - 1)
      BY <1>4, <2>2
    <3>. QED
      BY <1>4, <2>2, <3>1, <3>2
  <2>. QED
    BY <1>5, <2>1, <2>2
<1>7. ASSUME NEW i \in 1..Len(g), NEW c \in g[i].calls PROVE c[1] = i
  <2>1. CASE i \in 1..m
    BY <1>3, <1>4, <1>7, <2>1 DEF Rows
  <2>2. CASE i - m \in 1..n /\ g[i] = b[i - m]
    BY <1>1, <1>3, <1>7, <2>2
  <2>. QED
    BY <1>5, <2>1, <2>2
<1>8. \A j \in 1..m : s[j].kind = "result" => s[j].of \in Answered(s)
  <2>1. DOMAIN s = 1..m
    BY <1>3
  <2>. QED
    BY <2>1 DEF Answered
<1>9. ASSUME NEW d \in 1..n, NEW e \in 1..n, d # e PROVE b[d].of # b[e].of
  <2>1. e \in 1..(d - 1) \/ d \in 1..(e - 1)
    BY <1>9
  <2>. QED
    BY <1>1, <1>3, <2>1
<1>10. ASSUME NEW j \in 1..Len(g), NEW k \in 1..Len(g), g[j].kind = "result", g[k].kind = "result",
             g[j].of = g[k].of
      PROVE  j = k
  <2>1. CASE j \in 1..m /\ k \in 1..m
    BY <1>3, <1>4, <1>10, <2>1 DEF Rows
  <2>2. CASE j \in 1..m /\ k - m \in 1..n /\ g[k] = b[k - m]
    <3>1. s[j].of \in Answered(s) /\ g[j] = s[j]
      BY <1>4, <1>8, <1>10, <2>2
    <3>2. b[k - m].of \notin Answered(s)
      BY <1>1, <1>3, <2>2
    <3>. QED
      BY <1>10, <2>2, <3>1, <3>2
  <2>3. CASE k \in 1..m /\ j - m \in 1..n /\ g[j] = b[j - m]
    <3>1. s[k].of \in Answered(s) /\ g[k] = s[k]
      BY <1>4, <1>8, <1>10, <2>3
    <3>2. b[j - m].of \notin Answered(s)
      BY <1>1, <1>3, <2>3
    <3>. QED
      BY <1>10, <2>3, <3>1, <3>2
  <2>4. CASE j - m \in 1..n /\ g[j] = b[j - m] /\ k - m \in 1..n /\ g[k] = b[k - m]
    <3>1. j - m = k - m
      BY <1>9, <1>10, <2>4
    <3>. QED
      BY <1>4, <3>1
  <2>. QED
    BY <1>5, <2>1, <2>2, <2>3, <2>4
<1>. QED
  BY <1>2, <1>6, <1>7, <1>10 DEF Rows

\* The rows behind a checkpoint are results of the last calls of the window, if there are any.
LEMMA LateOnes ==
  ASSUME NEW N \in Nat, NEW s \in Seq(Msgs(N)), Rows(s), InOrder(s), NEW w,
         NEW k \in 0..Len(s), \A j \in k + 1..Len(s) : s[j].kind = "result",
         \/ k = 0
         \/ s[k].kind \in {"text", "reply"}
         \/ Alone(w) /\ s[k] = w[Len(w)],
         NEW j \in k + 1..Len(s)
  PROVE  Alone(w) /\ s[j].of \in w[Len(w)].calls
<1>1. DOMAIN s = 1..Len(s) /\ Len(s) \in Nat /\ j \in 1..Len(s)
  OBVIOUS
<1>2. ASSUME NEW p \in 1..Len(s), s[p].calls # {} PROVE s[p].kind = "calls"
  <2>1. s[p] \in Msgs(N)
    OBVIOUS
  <2>. QED
    BY <1>2, <2>1 DEF Msgs
<1>3. PICK i \in 1..(j - 1) : s[j].of \in s[i].calls
  BY <1>1 DEF Rows
<1>4. i \in 1..Len(s) /\ s[i].kind = "calls"
  BY <1>1, <1>2, <1>3
<1>5. i \notin k + 1..Len(s)
  BY <1>4
<1>6. i <= k /\ k \in 1..Len(s)
  BY <1>1, <1>4, <1>5
<1>7. ~(i < k)
  <2>1. SUFFICES ASSUME i < k PROVE FALSE
    OBVIOUS
  <2>2. k \in i + 1..j - 1
    BY <1>6, <2>1
  <2>3. s[k].kind = "result"
    BY <1>1, <1>3, <1>4, <2>2 DEF InOrder
  <2>4. Alone(w) /\ s[k] = w[Len(w)]
    BY <1>6, <2>3
  <2>. QED
    BY <2>3, <2>4 DEF Alone
<1>8. i = k
  BY <1>4, <1>6, <1>7
<1>. QED
  BY <1>3, <1>4, <1>6, <1>8

-----------------------------------------------------------------------------
(* Ledger, window and checkpoint, and what each step makes of them.        *)

WindowTypes(s, w, k) == s \in Seq(Msgs(Len(s))) /\ w \in Seq(Msgs(Len(s))) /\ k \in 0..Len(s)

\* Behind the checkpoint there are only results, and a call that still has a worker has none.
RowsBehind(s, k, late) ==
  /\ Rows(s)
  /\ \A j \in k + 1..Len(s) : s[j].kind = "result"
  /\ \A c \in late : c \notin Answered(s) /\ \E i \in 1..Len(s) : c \in s[i].calls

\* At the tools the window ends with their calls, which are a row; between turns the checkpoint
\* ends with a text or a reply, or with the calls the window ends with.
EndOf(s, w, k, late, at) ==
  /\ at = "tools" =>
       /\ Alone(w) /\ \E q \in 1..Len(s) : s[q] = w[Len(w)]
       /\ w[Len(w)].calls \cap (Answered(s) \cup late) = {}
       /\ k \in 1..Len(s) /\ (s[k] = w[Len(w)] \/ s[k].kind = "reply")
  /\ at = "idle" =>
       \/ k = 0
       \/ s[k].kind \in {"text", "reply"}
       \/ Alone(w) /\ s[k] = w[Len(w)]

Good(s, w, k, late, at) ==
  /\ WindowTypes(s, w, k)
  /\ RowsBehind(s, k, late)
  /\ EndOf(s, w, k, late, at)
  /\ InOrder(s) => Part(w)

\* A window about n rows is one about more.
LEMMA SeqMsgsGrow ==
  ASSUME NEW n \in Nat, NEW k \in Nat, n <= k, NEW w \in Seq(Msgs(n))
  PROVE  w \in Seq(Msgs(k))
<1>1. Msgs(n) \subseteq Msgs(k)
  BY MsgsGrow
<1>2. \A i \in 1..Len(w) : w[i] \in Msgs(k)
  BY <1>1
<1>. QED
  BY <1>2

\* The calls of a message about n rows have numbers up to n, and so has the one a result is of.
LEMMA CallNumbers ==
  ASSUME NEW n \in Nat, NEW m \in Msgs(n)
  PROVE  /\ \A c \in m.calls : c[1] \in 1..n
         /\ m.kind = "result" => m.of[1] \in 1..n
<1>1. m.calls \subseteq (1..n) \X Nat /\ (m.kind = "result" => m.of \in (1..n) \X Nat)
  BY DEF Msgs
<1>2. \A c \in (1..n) \X Nat : c[1] \in 1..n
  OBVIOUS
<1>. QED
  BY <1>1, <1>2

\* So has an answered call.
LEMMA AnsweredNumbers ==
  ASSUME NEW n \in Nat, NEW s \in Seq(Msgs(n)), NEW c \in Answered(s)
  PROVE  c[1] \in 1..n
<1>1. PICK j \in DOMAIN s : s[j].kind = "result" /\ s[j].of = c
  BY DEF Answered
<1>2. s[j] \in Msgs(n)
  OBVIOUS
<1>. QED
  BY <1>1, <1>2, CallNumbers

\* One row more that is no result, with calls of its own.
RowAdded(g, s, n, x, late) ==
  /\ g \in Seq(Msgs(n + 1)) /\ Len(g) = n + 1 /\ g[n + 1] = x
  /\ \A p \in 1..n : g[p] = s[p]
  /\ RowsBehind(g, n + 1, late) /\ Answered(g) = Answered(s)
  /\ InOrder(g) => InOrder(s)

\* Such a row is one the ledger can have, and leaves no result behind the checkpoint.
LEMMA RowMore ==
  ASSUME NEW s, NEW n \in Nat, n = Len(s), s \in Seq(Msgs(n)), NEW x \in Msgs(n + 1), x.kind # "result",
         \A c \in x.calls : c[1] = n + 1,
         NEW k, NEW late, RowsBehind(s, k, late), NEW late2 \in SUBSET late, NEW g, g = s \o <<x>>
  PROVE  RowAdded(g, s, n, x, late2)
<1>1. g = s \o <<x>>
  OBVIOUS
<1>2. s \in Seq(Msgs(n + 1)) /\ <<x>> \in Seq(Msgs(n + 1))
  BY SeqMsgsGrow
<1>3. /\ g \in Seq(Msgs(n + 1)) /\ Len(g) = n + 1 /\ g[n + 1] = x
      /\ \A p \in 1..n : g[p] = s[p]
  BY <1>1, <1>2
<1>4. Answered(g) = Answered(s)
  <2>1. Answered(<<x>>) = {}
    BY AnsweredByOne
  <2>2. Answered(s \o <<x>>) = Answered(s) \cup Answered(<<x>>)
    <3>1. PICK S, y : S = Msgs(n + 1) /\ y = <<x>>
      OBVIOUS
    <3>2. s \in Seq(S) /\ y \in Seq(S)
      BY <1>2, <3>1
    <3>3. Answered(s \o y) = Answered(s) \cup Answered(y)
      BY <3>2, AnsweredJoined
    <3>. QED
      BY <3>1, <3>3
  <2>. QED
    BY <1>1, <2>1, <2>2
<1>5. InOrder(g) => InOrder(s)
  BY <1>1, <1>2, OrderedBefore
<1>6. Rows(g)
  BY <1>1, <1>2, RowsMore DEF RowsBehind
<1>7. \A j \in (n + 1) + 1..Len(g) : g[j].kind = "result"
  BY <1>3
<1>8. ASSUME NEW c \in late2 PROVE c \notin Answered(g) /\ \E i \in 1..Len(g) : c \in g[i].calls
  <2>1. PICK i \in 1..Len(s) : c \in s[i].calls
    BY DEF RowsBehind
  <2>2. i \in 1..n /\ i \in 1..Len(g)
    BY <1>3, <2>1
  <2>3. c \notin Answered(s)
    BY DEF RowsBehind
  <2>. QED
    BY <1>3, <1>4, <2>1, <2>2, <2>3
<1>9. RowsBehind(g, n + 1, late2)
  BY <1>6, <1>7, <1>8 DEF RowsBehind
<1>. QED
  BY <1>3, <1>4, <1>5, <1>9 DEF RowAdded

\* A question and a reply are messages without calls.
LEMMA UserIs ==
  ASSUME NEW n \in Nat \ {0}
  PROVE  /\ User(n) \in Msgs(n) /\ User(n).kind = "user" /\ User(n).calls = {}
         /\ UserReply(n) \in Msgs(n) /\ UserReply(n).kind = "reply" /\ UserReply(n).calls = {}
<1>1. IsFiniteSet({}) /\ n \in 1..n
  BY FS_EmptySet
<1>2. /\ User(n) \in [kind : Kinds, calls : SUBSET ((1..n) \X Nat), of : ((1..n) \X Nat) \cup {<<>>},
                      about : SUBSET (1..n)]
      /\ User(n).kind = "user" /\ User(n).calls = {}
  BY <1>1 DEF User, Kinds
<1>3. /\ UserReply(n) \in [kind : Kinds, calls : SUBSET ((1..n) \X Nat), of : ((1..n) \X Nat) \cup {<<>>},
                       about : SUBSET (1..n)]
      /\ UserReply(n).kind = "reply" /\ UserReply(n).calls = {}
  BY <1>1 DEF UserReply, Kinds
<1>. QED
  BY <1>1, <1>2, <1>3 DEF Msgs

\* Ask.
LEMMA GoodAsk ==
  ASSUME NEW s, NEW w, NEW k, NEW late, Good(s, w, k, late, "idle"), NEW n, n = Len(s)
  PROVE  Good(s \o <<User(n + 1)>>, w \o From(s, k + 1) \o <<User(n + 1)>>, n + 1, late, "agent")
<1>1. n \in Nat /\ s \in Seq(Msgs(n)) /\ w \in Seq(Msgs(n)) /\ k \in 0..n /\ RowsBehind(s, k, late)
  BY DEF Good, WindowTypes
<1>2. PICK x : x = User(n + 1)
  OBVIOUS
<1>3. x \in Msgs(n + 1) /\ x.kind # "result" /\ x.calls = {}
  BY <1>1, <1>2, UserIs
<1>4. PICK g : g = s \o <<x>>
  OBVIOUS
<1>5. /\ g \in Seq(Msgs(n + 1)) /\ Len(g) = n + 1
      /\ RowsBehind(g, n + 1, late) /\ (InOrder(g) => InOrder(s))
  <2>1. RowAdded(g, s, n, x, late)
    BY <1>1, <1>3, <1>4, RowMore
  <2>. QED
    BY <2>1 DEF RowAdded
<1>6. PICK b : b = From(s, k + 1)
  OBVIOUS
<1>7. /\ b \in Seq(Msgs(n)) /\ (k = n => b = <<>>)
      /\ \A d \in 1..Len(b) : k + d \in k + 1..n /\ b[d] = s[k + d]
  <2>1. CASE k = n
    <3>1. b = <<>>
      BY <1>1, <1>6, <2>1 DEF From
    <3>. QED
      BY <3>1
  <2>2. CASE k # n
    <3>1. k + 1 \in 1..Len(s)
      BY <1>1, <2>2
    <3>2. /\ b \in Seq(Msgs(n)) /\ Len(b) = n - (k + 1) + 1
          /\ \A p \in 1..n - (k + 1) + 1 : b[p] = s[k + 1 + p - 1]
      BY <1>1, <1>6, <3>1, SuffixIs
    <3>3. ASSUME NEW d \in 1..Len(b) PROVE k + d \in k + 1..n /\ b[d] = s[k + d]
      <4>1. d \in 1..n - (k + 1) + 1 /\ k + 1 + d - 1 = k + d /\ k + d \in k + 1..n
        BY <1>1, <3>2
      <4>. QED
        BY <3>2, <4>1
    <3>. QED
      BY <2>2, <3>2, <3>3
  <2>. QED
    BY <2>1, <2>2
<1>8. w \o b \in Seq(Msgs(n))
  BY <1>1, <1>7
<1>9. InOrder(s) => Part(w \o b)
  <2>1. SUFFICES ASSUME InOrder(s) PROVE Part(w \o b)
    OBVIOUS
  <2>2. Part(w)
    BY <2>1 DEF Good
  <2>3. CASE b = <<>>
    <3>1. w \o b = w
      BY <1>1, <2>3
    <3>. QED
      BY <2>2, <3>1
  <2>4. CASE b # <<>>
    <3>1. \A j \in k + 1..Len(s) : s[j].kind = "result"
      BY DEF Good, RowsBehind
    <3>2. Rows(s)
      BY DEF Good, RowsBehind
    <3>3. \/ k = 0 \/ s[k].kind \in {"text", "reply"}
          \/ Alone(w) /\ s[k] = w[Len(w)]
      BY DEF Good, EndOf
    <3>4. ASSUME NEW j \in k + 1..n PROVE Alone(w) /\ s[j].of \in w[Len(w)].calls
      BY <1>1, <2>1, <3>1, <3>2, <3>3, LateOnes
    <3>5. ASSUME NEW d \in 1..Len(b)
          PROVE  /\ b[d].kind = "result" /\ b[d].of \in w[Len(w)].calls
                 /\ \A e \in 1..(d - 1) : b[e].of # b[d].of
      <4>1. k + d \in k + 1..n /\ b[d] = s[k + d]
        BY <1>7
      <4>2. ASSUME NEW e \in 1..(d - 1) PROVE b[e].of # b[d].of
        <5>1. e \in 1..Len(b)
          OBVIOUS
        <5>2. k + e \in k + 1..n /\ b[e] = s[k + e]
          BY <1>7, <5>1
        <5>3. k + e # k + d /\ k + e \in 1..Len(s) /\ k + d \in 1..Len(s)
          BY <1>1, <4>1, <5>2
        <5>4. s[k + e].kind = "result" /\ s[k + d].kind = "result"
          BY <3>1, <4>1, <5>2
        <5>. QED
          BY <3>2, <4>1, <5>2, <5>3, <5>4 DEF Rows
      <4>. QED
        BY <3>1, <3>4, <4>1, <4>2
    <3>6. 1 \in 1..Len(b)
      BY <1>7, <2>4
    <3>7. Alone(w)
      BY <1>7, <3>4, <3>6
    <3>. QED
      BY <1>1, <1>7, <2>2, <3>5, <3>7, PartExtended
  <2>. QED
    BY <2>3, <2>4
<1>10. PICK v : v = w \o b \o <<x>>
  OBVIOUS
<1>11. v \in Seq(Msgs(n + 1))
  <2>1. w \o b \in Seq(Msgs(n + 1))
    BY <1>1, <1>8, SeqMsgsGrow
  <2>. QED
    BY <1>3, <1>10, <2>1
<1>12. InOrder(g) => Part(v)
  <2>1. w \o b \in Seq(Msgs(n + 1))
    BY <1>1, <1>8, SeqMsgsGrow
  <2>. QED
    BY <1>3, <1>5, <1>9, <1>10, <2>1, PartOneMore
<1>13. EndOf(g, v, n + 1, late, "agent")
  BY DEF EndOf
<1>14. WindowTypes(g, v, n + 1)
  BY <1>1, <1>5, <1>11 DEF WindowTypes
<1>15. Good(g, v, n + 1, late, "agent")
  BY <1>5, <1>12, <1>13, <1>14 DEF Good
<1>. QED
  BY <1>2, <1>4, <1>6, <1>10, <1>15

\* AskRebuilt and AskForked.
LEMMA GoodRebuilt ==
  ASSUME NEW s, NEW w, NEW k, NEW late, NEW at, Good(s, w, k, late, at), NEW n, n = Len(s),
         NEW late2 \in SUBSET late
  PROVE  Good(s \o <<User(n + 1)>>, s \o <<User(n + 1)>>, n + 1, late2, "agent")
<1>1. n \in Nat /\ s \in Seq(Msgs(n)) /\ RowsBehind(s, k, late) /\ Rows(s)
  BY DEF Good, WindowTypes, RowsBehind
<1>2. PICK x : x = User(n + 1)
  OBVIOUS
<1>3. x \in Msgs(n + 1) /\ x.kind # "result" /\ x.calls = {}
  BY <1>1, <1>2, UserIs
<1>4. PICK g : g = s \o <<x>>
  OBVIOUS
<1>5. /\ g \in Seq(Msgs(n + 1)) /\ Len(g) = n + 1
      /\ RowsBehind(g, n + 1, late2) /\ (InOrder(g) => InOrder(s))
  <2>1. RowAdded(g, s, n, x, late2)
    BY <1>1, <1>3, <1>4, RowMore
  <2>. QED
    BY <2>1 DEF RowAdded
<1>6. InOrder(g) => Part(g)
  <2>1. InOrder(s) => Part(s)
    BY <1>1, PartOfRows
  <2>2. s \in Seq(Msgs(n + 1))
    BY <1>1, SeqMsgsGrow
  <2>. QED
    BY <1>3, <1>4, <1>5, <2>1, <2>2, PartOneMore
<1>7. EndOf(g, g, n + 1, late2, "agent")
  BY DEF EndOf
<1>8. WindowTypes(g, g, n + 1)
  BY <1>1, <1>5 DEF WindowTypes
<1>9. Good(g, g, n + 1, late2, "agent")
  BY <1>5, <1>6, <1>7, <1>8 DEF Good
<1>. QED
  BY <1>2, <1>4, <1>9

\* The answer to a request, behind it and the results put back.
LEMMA GoodAnswer ==
  ASSUME NEW s, NEW w, NEW k, NEW late, NEW at, Good(s, w, k, late, at), NEW n, n = Len(s),
         NEW body \in Seq(Msgs(n)), InOrder(s) => Full(body),
         NEW r \in Seq(Msgs(n)), \A d \in 1..Len(r) : r[d].kind = "result",
         NEW x \in Msgs(n + 1), x.kind \in {"text", "calls"}, \A c \in x.calls : c[1] = n + 1,
         NEW at2, at2 = IF x.kind = "text" THEN "idle" ELSE "tools"
  PROVE  Good(s \o <<x>>, body \o r \o <<x>>, n + 1, late, at2)
<1>1. n \in Nat /\ s \in Seq(Msgs(n)) /\ RowsBehind(s, k, late) /\ Rows(s)
  BY DEF Good, WindowTypes, RowsBehind
<1>2. PICK g, v : g = s \o <<x>> /\ v = body \o r
  OBVIOUS
<1>3. /\ g \in Seq(Msgs(n + 1)) /\ Len(g) = n + 1 /\ g[n + 1] = x
      /\ \A p \in 1..n : g[p] = s[p]
      /\ RowsBehind(g, n + 1, late) /\ Answered(g) = Answered(s)
      /\ InOrder(g) => InOrder(s)
  <2>1. late \in SUBSET late /\ x.kind # "result" /\ g = s \o <<x>>
    BY <1>2
  <2>2. RowAdded(g, s, n, x, late)
    BY <1>1, <2>1, RowMore
  <2>. QED
    BY <2>2 DEF RowAdded
<1>4. v \in Seq(Msgs(n)) /\ v \in Seq(Msgs(n + 1)) /\ Len(v) \in Nat
  <2>1. v \in Seq(Msgs(n)) /\ Len(v) \in Nat
    BY <1>2
  <2>2. n + 1 \in Nat /\ n <= n + 1
    BY <1>1
  <2>3. v \in Seq(Msgs(n + 1))
    BY <1>1, <2>1, <2>2, SeqMsgsGrow, Zenon
  <2>. QED
    BY <2>1, <2>3, Zenon
<1>5. PICK m, u : m = Len(v) /\ u = v \o <<x>>
  OBVIOUS
<1>6. /\ m \in Nat /\ u \in Seq(Msgs(n + 1)) /\ Len(u) = m + 1 /\ u[m + 1] = x
      /\ \A p \in 1..m : u[p] = v[p]
  BY <1>4, <1>5
<1>7. ASSUME NEW c, c[1] = n + 1 PROVE c \notin Answered(v) /\ c \notin Answered(s)
  <2>1. ~(n + 1 \in 1..n)
    BY <1>1
  <2>. QED
    BY <1>1, <1>4, <1>7, <2>1, AnsweredNumbers
<1>8. InOrder(g) => Part(u)
  <2>1. InOrder(s) => Part(v)
    BY <1>2, FullThenResults
  <2>2. \A c \in x.calls : c \notin Answered(v)
    BY <1>7
  <2>3. x.kind # "result"
    OBVIOUS
  <2>. QED
    BY <1>3, <1>4, <1>5, <2>1, <2>2, <2>3, PartOneMore
<1>9. ASSUME x.kind = "calls" PROVE Alone(u)
  <2>1. u # <<>> /\ u[Len(u)].kind = "calls"
    BY <1>6, <1>9
  <2>2. ASSUME NEW i \in 1..(Len(u) - 1) PROVE u[i].calls \cap u[Len(u)].calls = {}
    <3>1. i \in 1..m /\ u[i] = v[i] /\ u[Len(u)] = x
      BY <1>6
    <3>2. v[i] \in Msgs(n)
      BY <1>4, <1>5, <3>1
    <3>3. \A c \in v[i].calls : c[1] \in 1..n
      BY <1>1, <3>2, CallNumbers
    <3>4. ~(n + 1 \in 1..n)
      BY <1>1
    <3>. QED
      BY <3>1, <3>3, <3>4
  <2>. QED
    BY <2>1, <2>2 DEF Alone
<1>10. \A c \in late : c[1] # n + 1
  <2>1. ASSUME NEW c \in late PROVE c[1] # n + 1
    <3>1. PICK i \in 1..Len(s) : c \in s[i].calls
      BY <1>1 DEF RowsBehind
    <3>2. c[1] = i
      BY <1>1, <3>1 DEF Rows
    <3>. QED
      BY <1>1, <3>1, <3>2
  <2>. QED
    BY <2>1
<1>11. EndOf(g, u, n + 1, late, at2)
  <2>1. CASE x.kind = "text"
    <3>1. at2 = "idle" /\ g[n + 1].kind \in {"text", "reply"}
      BY <1>3, <2>1
    <3>. QED
      BY <3>1 DEF EndOf
  <2>2. CASE x.kind = "calls"
    <3>1. at2 = "tools" /\ u[Len(u)] = x /\ n + 1 \in 1..Len(g) /\ g[n + 1] = x
      BY <1>1, <1>3, <1>6, <2>2
    <3>2. x.calls \cap (Answered(g) \cup late) = {}
      BY <1>3, <1>7, <1>10
    <3>. QED
      BY <1>9, <2>2, <3>1, <3>2 DEF EndOf
  <2>. QED
    BY <2>1, <2>2
<1>12. WindowTypes(g, u, n + 1)
  BY <1>1, <1>3, <1>6 DEF WindowTypes
<1>13. Good(g, u, n + 1, late, at2)
  BY <1>3, <1>8, <1>11, <1>12 DEF Good
<1>. QED
  BY <1>2, <1>5, <1>13

\* Decide.
LEMMA GoodDecide ==
  ASSUME NEW s, NEW w, NEW k, NEW late, Good(s, w, k, late, "tools"), NEW n, n = Len(s)
  PROVE  Good(s \o <<UserReply(n + 1)>>, w, n + 1, late, "tools")
<1>1. n \in Nat /\ s \in Seq(Msgs(n)) /\ w \in Seq(Msgs(n)) /\ RowsBehind(s, k, late)
  BY DEF Good, WindowTypes
<1>2. PICK x : x = UserReply(n + 1)
  OBVIOUS
<1>3. x \in Msgs(n + 1) /\ x.kind = "reply" /\ x.calls = {}
  BY <1>1, <1>2, UserIs
<1>4. PICK g : g = s \o <<x>>
  OBVIOUS
<1>5. /\ g \in Seq(Msgs(n + 1)) /\ Len(g) = n + 1 /\ g[n + 1] = x
      /\ \A p \in 1..n : g[p] = s[p]
      /\ RowsBehind(g, n + 1, late) /\ Answered(g) = Answered(s)
      /\ InOrder(g) => InOrder(s)
  <2>1. late \in SUBSET late /\ x.kind # "result"
    BY <1>3
  <2>2. \A c \in x.calls : c[1] = n + 1
    BY <1>3
  <2>3. RowAdded(g, s, n, x, late)
    BY <1>1, <1>3, <1>4, <2>1, <2>2, RowMore
  <2>. QED
    BY <2>3 DEF RowAdded
<1>6. EndOf(g, w, n + 1, late, "tools")
  <2>1. Alone(w) /\ w[Len(w)].calls \cap (Answered(s) \cup late) = {}
    BY DEF Good, EndOf
  <2>2. PICK q \in 1..n : s[q] = w[Len(w)]
    BY DEF Good, EndOf
  <2>3. q \in 1..Len(g) /\ g[q] = w[Len(w)] /\ n + 1 \in 1..Len(g) /\ g[n + 1].kind = "reply"
    BY <1>1, <1>3, <1>5, <2>2
  <2>. QED
    BY <1>5, <2>1, <2>3 DEF EndOf
<1>7. WindowTypes(g, w, n + 1)
  <2>1. w \in Seq(Msgs(n + 1))
    BY <1>1, SeqMsgsGrow
  <2>. QED
    BY <1>1, <1>5, <2>1 DEF WindowTypes
<1>8. InOrder(g) => Part(w)
  BY <1>5 DEF Good
<1>9. Good(g, w, n + 1, late, "tools")
  BY <1>5, <1>6, <1>7, <1>8 DEF Good
<1>. QED
  BY <1>2, <1>4, <1>9

\* Results of open calls are put at the end of the ledger.
ResultsAdded(g, s, n, b, q) ==
  /\ g \in Seq(Msgs(n + q)) /\ Len(g) = n + q
  /\ \A p \in 1..n : g[p] = s[p]
  /\ \A d \in 1..q : g[n + d] = b[d]
  /\ Rows(g) /\ Answered(g) = Answered(s) \cup {b[d].of : d \in 1..q}
  /\ InOrder(g) => InOrder(s)

\* The ledger with them has the rows a ledger can have.
LEMMA ResultsMore ==
  ASSUME NEW s, NEW n \in Nat, n = Len(s), s \in Seq(Msgs(n)), NEW k, NEW late, RowsBehind(s, k, late),
         NEW b, NEW q \in Nat, q = Len(b), b \in Seq(Msgs(n + q)),
         \A d \in 1..q : /\ b[d].kind = "result" /\ b[d].of \notin Answered(s)
                         /\ \E i \in 1..n : b[d].of \in s[i].calls
                         /\ \A e \in 1..(d - 1) : b[e].of # b[d].of,
         NEW g, g = s \o b
  PROVE  ResultsAdded(g, s, n, b, q)
<1>1. s \in Seq(Msgs(n + q))
  <2>1. n + q \in Nat /\ n <= n + q
    OBVIOUS
  <2>. QED
    BY <2>1, SeqMsgsGrow
<1>2. g = s \o b
  OBVIOUS
<1>3. /\ g \in Seq(Msgs(n + q)) /\ Len(g) = n + q
      /\ \A p \in 1..n : g[p] = s[p]
      /\ \A d \in 1..q : g[n + d] = b[d]
  BY <1>1, <1>2, Joined
<1>4. Answered(b) = {b[d].of : d \in 1..q}
  <2>1. DOMAIN b = 1..q /\ \A d \in 1..q : b[d].kind = "result"
    OBVIOUS
  <2>2. {j \in DOMAIN b : b[j].kind = "result"} = 1..q
    BY <2>1
  <2>. QED
    BY <2>2 DEF Answered
<1>5. Answered(g) = Answered(s) \cup {b[d].of : d \in 1..q}
  <2>1. Answered(s \o b) = Answered(s) \cup Answered(b)
    <3>1. PICK S : S = Msgs(n + q)
      OBVIOUS
    <3>2. s \in Seq(S) /\ b \in Seq(S)
      BY <1>1, <3>1
    <3>. QED
      BY <3>2, AnsweredJoined
  <2>. QED
    BY <1>2, <1>4, <2>1
<1>6. InOrder(g) => InOrder(s)
  BY <1>1, <1>2, OrderedBefore
<1>7. \A d \in 1..q : b[d].calls = {}
  <2>1. ASSUME NEW d \in 1..q PROVE b[d].calls = {}
    <3>1. b[d] \in Msgs(n + q) /\ b[d].kind = "result"
      OBVIOUS
    <3>. QED
      BY <3>1 DEF Msgs
  <2>. QED
    BY <2>1
<1>8. Rows(g)
  <2>1. PICK S : S = Msgs(n + q)
    OBVIOUS
  <2>2. s \in Seq(S) /\ b \in Seq(S) /\ Rows(s)
    BY <1>1, <2>1 DEF RowsBehind
  <2>3. OpenResults(b, s)
    BY <1>7 DEF OpenResults
  <2>. QED
    BY <1>2, <2>2, <2>3, RowsAnswered
<1>. QED
  BY <1>3, <1>5, <1>6, <1>8 DEF ResultsAdded

\* ToolsStep.
LEMMA GoodTools ==
  ASSUME NEW s, NEW w, NEW k, NEW late, Good(s, w, k, late, "tools"), NEW n, n = Len(s),
         NEW b, NEW q \in Nat, q = Len(b), b \in Seq(Msgs(n + q)),
         \A d \in 1..q : /\ b[d].kind = "result" /\ b[d].of \in w[Len(w)].calls
                         /\ \A e \in 1..(d - 1) : b[e].of # b[d].of
  PROVE  Good(s \o b, w \o b, n + q, late, "agent")
<1>1. n \in Nat /\ s \in Seq(Msgs(n)) /\ w \in Seq(Msgs(n)) /\ RowsBehind(s, k, late)
  BY DEF Good, WindowTypes
<1>2. Alone(w) /\ w[Len(w)].calls \cap (Answered(s) \cup late) = {}
  BY DEF Good, EndOf
<1>3. PICK h \in 1..n : s[h] = w[Len(w)]
  BY DEF Good, EndOf
<1>4. PICK g : g = s \o b
  OBVIOUS
<1>5. \A d \in 1..q : b[d].of \notin Answered(s) /\ b[d].of \notin late /\ \E i \in 1..n : b[d].of \in s[i].calls
  BY <1>2, <1>3
<1>6. /\ g \in Seq(Msgs(n + q)) /\ Len(g) = n + q
      /\ \A p \in 1..n : g[p] = s[p]
      /\ Rows(g) /\ Answered(g) = Answered(s) \cup {b[d].of : d \in 1..q}
      /\ InOrder(g) => InOrder(s)
  <2>1. ResultsAdded(g, s, n, b, q)
    BY <1>1, <1>4, <1>5, ResultsMore
  <2>. QED
    BY <2>1 DEF ResultsAdded
<1>7. w \in Seq(Msgs(n + q))
  <2>1. n + q \in Nat /\ n <= n + q
    BY <1>1
  <2>. QED
    BY <1>1, <2>1, SeqMsgsGrow
<1>8. InOrder(g) => Part(w \o b)
  <2>1. InOrder(s) => Part(w)
    BY DEF Good
  <2>. QED
    BY <1>2, <1>6, <1>7, <2>1, PartExtended
<1>9. RowsBehind(g, n + q, late)
  <2>1. \A j \in (n + q) + 1..Len(g) : g[j].kind = "result"
    BY <1>1, <1>6
  <2>2. ASSUME NEW c \in late PROVE c \notin Answered(g) /\ \E i \in 1..Len(g) : c \in g[i].calls
    <3>1. c \notin Answered(s) /\ \E i \in 1..n : c \in s[i].calls
      BY <1>1 DEF RowsBehind
    <3>2. \A i \in 1..n : i \in 1..Len(g)
      BY <1>1, <1>6
    <3>. QED
      BY <1>5, <1>6, <3>1, <3>2
  <2>. QED
    BY <1>6, <2>1, <2>2 DEF RowsBehind
<1>10. EndOf(g, w \o b, n + q, late, "agent")
  BY DEF EndOf
<1>11. WindowTypes(g, w \o b, n + q)
  <2>1. w \o b \in Seq(Msgs(n + q))
    BY <1>7
  <2>2. n + q \in 0..Len(g)
    BY <1>1, <1>6
  <2>. QED
    BY <1>6, <2>1, <2>2 DEF WindowTypes
<1>12. Good(g, w \o b, n + q, late, "agent")
  BY <1>8, <1>9, <1>10, <1>11 DEF Good
<1>. QED
  BY <1>4, <1>12

\* Abandon.
LEMMA GoodAbandon ==
  ASSUME NEW s, NEW w, NEW k, NEW late, Good(s, w, k, late, "tools")
  PROVE  Good(s, w, k, late \cup w[Len(w)].calls, "idle")
<1>1. /\ Alone(w) /\ w[Len(w)].calls \cap (Answered(s) \cup late) = {}
      /\ k \in 1..Len(s) /\ (s[k] = w[Len(w)] \/ s[k].kind = "reply")
  BY DEF Good, EndOf
<1>2. PICK q \in 1..Len(s) : s[q] = w[Len(w)]
  BY DEF Good, EndOf
<1>3. EndOf(s, w, k, late \cup w[Len(w)].calls, "idle")
  BY <1>1 DEF EndOf
<1>4. RowsBehind(s, k, late \cup w[Len(w)].calls)
  BY <1>1, <1>2 DEF Good, RowsBehind
<1>. QED
  BY <1>3, <1>4 DEF Good

\* LateResult.
LEMMA GoodLate ==
  ASSUME NEW s, NEW w, NEW k, NEW late, NEW at, Good(s, w, k, late, at), NEW n, n = Len(s),
         NEW c \in late
  PROVE  Good(s \o <<Result(c, {n + 1})>>, w, k, late \ {c}, at)
<1>1. n \in Nat /\ s \in Seq(Msgs(n)) /\ w \in Seq(Msgs(n)) /\ k \in 0..n /\ RowsBehind(s, k, late)
  BY DEF Good, WindowTypes
<1>2. PICK i \in 1..n : c \in s[i].calls
  BY <1>1 DEF RowsBehind
<1>3. PICK x, b : x = Result(c, {n + 1}) /\ b = <<x>>
  OBVIOUS
<1>4. x \in Msgs(n + 1) /\ x.kind = "result" /\ x.of = c
  <2>1. s[i] \in Msgs(n)
    BY <1>1, <1>2
  <2>2. c \in (1..n) \X Nat
    BY <1>2, <2>1 DEF Msgs
  <2>3. PICK y \in 1..n, z \in Nat : c = <<y, z>>
    BY <2>2
  <2>4. c \in (1..(n + 1)) \X Nat
    BY <1>1, <2>3
  <2>5. c # <<>>
    <3>1. Len(<<y, z>>) = 2 /\ Len(<<>>) = 0
      OBVIOUS
    <3>. QED
      BY <2>3, <3>1
  <2>6. {n + 1} \in SUBSET (1..(n + 1)) /\ IsFiniteSet({})
    BY <1>1, FS_EmptySet
  <2>7. /\ x.of = c /\ x.kind = "result" /\ x.calls = {}
        /\ x \in [kind : Kinds, calls : SUBSET ((1..(n + 1)) \X Nat),
                  of : ((1..(n + 1)) \X Nat) \cup {<<>>}, about : SUBSET (1..(n + 1))]
    BY <1>3, <2>4, <2>6 DEF Result, Kinds
  <2>. QED
    BY <2>5, <2>6, <2>7 DEF Msgs
<1>5. b \in Seq(Msgs(n + 1)) /\ Len(b) = 1 /\ b[1] = x
  BY <1>3, <1>4
<1>6. c \notin Answered(s)
  BY <1>1 DEF RowsBehind
<1>7. PICK g : g = s \o b
  OBVIOUS
<1>8. /\ g \in Seq(Msgs(n + 1)) /\ Len(g) = n + 1
      /\ \A p \in 1..n : g[p] = s[p]
      /\ \A d \in 1..1 : g[n + d] = b[d]
      /\ Rows(g) /\ Answered(g) = Answered(s) \cup {b[d].of : d \in 1..1}
      /\ InOrder(g) => InOrder(s)
  <2>1. \A d \in 1..1 : /\ b[d].kind = "result" /\ b[d].of \notin Answered(s)
                        /\ \E h \in 1..n : b[d].of \in s[h].calls
                        /\ \A e \in 1..(d - 1) : b[e].of # b[d].of
    <3>1. \A d \in 1..1 : d = 1 /\ b[d] = x /\ \A e \in 1..(d - 1) : FALSE
      BY <1>5
    <3>. QED
      BY <1>2, <1>4, <1>6, <3>1
  <2>2. ResultsAdded(g, s, n, b, 1)
    BY <1>1, <1>5, <1>7, <2>1, ResultsMore
  <2>. QED
    BY <2>2 DEF ResultsAdded
<1>9. g[n + 1] = x /\ Answered(g) = Answered(s) \cup {c}
  <2>1. 1 \in 1..1 /\ \A d \in 1..1 : d = 1
    OBVIOUS
  <2>2. {b[d].of : d \in 1..1} = {c}
    BY <1>4, <1>5, <2>1
  <2>. QED
    BY <1>5, <1>8, <2>1, <2>2
<1>10. RowsBehind(g, k, late \ {c})
  <2>1. ASSUME NEW j \in k + 1..Len(g) PROVE g[j].kind = "result"
    <3>1. j = n + 1 \/ (j \in k + 1..n /\ j \in 1..n)
      BY <1>1, <1>8
    <3>. QED
      BY <1>1, <1>4, <1>8, <1>9, <3>1 DEF RowsBehind
  <2>2. ASSUME NEW f \in late \ {c} PROVE f \notin Answered(g) /\ \E h \in 1..Len(g) : f \in g[h].calls
    <3>1. f \notin Answered(s) /\ \E h \in 1..n : f \in s[h].calls
      BY <1>1 DEF RowsBehind
    <3>2. \A h \in 1..n : h \in 1..Len(g)
      BY <1>1, <1>8
    <3>. QED
      BY <1>8, <1>9, <3>1, <3>2
  <2>. QED
    BY <1>8, <2>1, <2>2 DEF RowsBehind
<1>11. EndOf(g, w, k, late \ {c}, at)
  <2>1. CASE at = "tools"
    <3>1. Alone(w) /\ w[Len(w)].calls \cap (Answered(s) \cup late) = {}
          /\ k \in 1..n /\ (s[k] = w[Len(w)] \/ s[k].kind = "reply")
      BY <2>1 DEF Good, EndOf
    <3>2. PICK q \in 1..n : s[q] = w[Len(w)]
      BY <2>1 DEF Good, EndOf
    <3>3. q \in 1..Len(g) /\ k \in 1..Len(g) /\ g[q] = s[q] /\ g[k] = s[k]
      BY <1>1, <1>8, <3>1, <3>2
    <3>4. w[Len(w)].calls \cap (Answered(g) \cup (late \ {c})) = {}
      BY <1>9, <3>1
    <3>. QED
      BY <2>1, <3>1, <3>2, <3>3, <3>4 DEF EndOf
  <2>2. CASE at = "idle"
    <3>1. k = 0 \/ (k \in 1..n /\ g[k] = s[k])
      BY <1>1, <1>8
    <3>2. \/ k = 0 \/ s[k].kind \in {"text", "reply"}
          \/ Alone(w) /\ s[k] = w[Len(w)]
      BY <2>2 DEF Good, EndOf
    <3>. QED
      BY <2>2, <3>1, <3>2 DEF EndOf
  <2>3. CASE at # "tools" /\ at # "idle"
    BY <2>3 DEF EndOf
  <2>. QED
    BY <2>1, <2>2, <2>3
<1>12. WindowTypes(g, w, k)
  <2>1. w \in Seq(Msgs(n + 1))
    BY <1>1, SeqMsgsGrow
  <2>. QED
    BY <1>1, <1>8, <2>1 DEF WindowTypes
<1>13. InOrder(g) => Part(w)
  BY <1>8 DEF Good
<1>14. Good(g, w, k, late \ {c}, at)
  BY <1>10, <1>11, <1>12, <1>13 DEF Good
<1>. QED
  BY <1>3, <1>7, <1>14

-----------------------------------------------------------------------------
(* The invariant, and the steps of the specification.                      *)

\* The turn is a record of these fields.
TurnIs(t) == t = [no |-> t.no, at |-> t.at, step |-> t.step, known |-> t.known, late |-> t.late,
                  cut |-> t.cut]

\* A request has its results behind their calls, and while the ledger is in order every call in it
\* has its own.
Requested(b, s) == b \in Seq(Msgs(Len(s))) /\ Follows(b) /\ (InOrder(s) => Full(b))

\* The invariant of RequestsArePaired.
WinInv ==
  /\ TurnIs(turn)
  /\ Good(said, window, turn.known, turn.late, turn.at)
  /\ Requested(sent.body, said)

\* The last request keeps what it has when rows are added: their order was one before.
LEMMA RequestedStays ==
  ASSUME NEW b, NEW s, NEW n \in Nat, n = Len(s), s \in Seq(Msgs(n)), Requested(b, s),
         NEW x, NEW q \in Nat, q = Len(x), x \in Seq(Msgs(n + q))
  PROVE  Requested(b, s \o x)
<1>1. b \in Seq(Msgs(n)) /\ Follows(b) /\ (InOrder(s) => Full(b))
  BY DEF Requested
<1>2. n + q \in Nat /\ n <= n + q
  OBVIOUS
<1>3. s \in Seq(Msgs(n + q)) /\ b \in Seq(Msgs(n + q))
  BY <1>1, <1>2, SeqMsgsGrow
<1>4. PICK S : S = Msgs(n + q)
  OBVIOUS
<1>5. s \in Seq(S) /\ x \in Seq(S)
  BY <1>3, <1>4
<1>6. InOrder(s \o x) => InOrder(s)
  BY <1>5, OrderedBefore
<1>7. Len(s \o x) = n + q
  BY <1>5
<1>. QED
  BY <1>1, <1>3, <1>6, <1>7 DEF Requested

\* The same of one row, in the form of the actions.
LEMMA RowAppended ==
  ASSUME NEW s, NEW n \in Nat, n = Len(s), s \in Seq(Msgs(n)), NEW x \in Msgs(n + 1), NEW b,
         Requested(b, s)
  PROVE  Append(s, x) = s \o <<x>> /\ Requested(b, s \o <<x>>)
<1>1. n + 1 \in Nat /\ n <= n + 1
  OBVIOUS
<1>2. s \in Seq(Msgs(n + 1))
  BY <1>1, SeqMsgsGrow
<1>3. PICK S, y : S = Msgs(n + 1) /\ y = <<x>>
  OBVIOUS
<1>4. Append(s, x) = s \o <<x>>
  <2>1. s \in Seq(S) /\ x \in S
    BY <1>2, <1>3
  <2>. QED
    BY <2>1, AppendIsConcat
<1>5. y \in Seq(Msgs(n + 1)) /\ Len(y) = 1 /\ 1 \in Nat
  BY <1>3
<1>6. Requested(b, s \o y)
  BY <1>5, RequestedStays
<1>. QED
  BY <1>3, <1>4, <1>6

\* The turn, and what of it the invariant is about.
TurnTo(u, at, k, late, cut) == TurnIs(u) /\ u.at = at /\ u.known = k /\ u.late = late /\ u.cut = cut

\* The turn after a question ...
LEMMA TurnAsked ==
  ASSUME NEW t, TurnIs(t), NEW a, NEW k, NEW u,
         u = [t EXCEPT !.no = a, !.at = "agent", !.step = 0, !.known = k]
  PROVE  TurnTo(u, "agent", k, t.late, t.cut)
<1>. QED
  BY DEF TurnIs, TurnTo

\* ... after one with the window made anew ...
LEMMA TurnAskedAnew ==
  ASSUME NEW t, TurnIs(t), NEW a, NEW k, NEW u,
         u = [t EXCEPT !.no = a, !.at = "agent", !.step = 0, !.known = k, !.cut = FALSE]
  PROVE  TurnTo(u, "agent", k, t.late, FALSE)
<1>. QED
  BY DEF TurnIs, TurnTo

\* ... after an answer ...
LEMMA TurnStepped ==
  ASSUME NEW t, TurnIs(t), NEW at, NEW a, NEW k, NEW f, NEW u,
         u = [t EXCEPT !.at = at, !.step = a, !.known = k, !.cut = f]
  PROVE  TurnTo(u, at, k, t.late, f)
<1>. QED
  BY DEF TurnIs, TurnTo

\* ... after a reply ...
LEMMA TurnKnows ==
  ASSUME NEW t, TurnIs(t), NEW k, NEW u, u = [t EXCEPT !.known = k]
  PROVE  TurnTo(u, t.at, k, t.late, t.cut)
<1>. QED
  BY DEF TurnIs, TurnTo

\* ... after the tools ...
LEMMA TurnMoved ==
  ASSUME NEW t, TurnIs(t), NEW at, NEW k, NEW u, u = [t EXCEPT !.at = at, !.known = k]
  PROVE  TurnTo(u, at, k, t.late, t.cut)
<1>. QED
  BY DEF TurnIs, TurnTo

\* ... when it is abandoned ...
LEMMA TurnLeft ==
  ASSUME NEW t, TurnIs(t), NEW at, NEW S, NEW u, u = [t EXCEPT !.at = at, !.late = S]
  PROVE  TurnTo(u, at, t.known, S, t.cut)
<1>. QED
  BY DEF TurnIs, TurnTo

\* ... and when a worker settles its call late.
LEMMA TurnLate ==
  ASSUME NEW t, TurnIs(t), NEW S, NEW u, u = [t EXCEPT !.late = S]
  PROVE  TurnTo(u, t.at, t.known, S, t.cut)
<1>. QED
  BY DEF TurnIs, TurnTo

\* A question.
LEMMA AskKeeps ==
  ASSUME WinInv, AskQuestion
  PROVE  WinInv'
<1>1. PICK n : n = Len(said)
  OBVIOUS
<1>2. /\ n \in Nat /\ said \in Seq(Msgs(n)) /\ TurnIs(turn) /\ Requested(sent.body, said)
      /\ Good(said, window, turn.known, turn.late, "idle") /\ NextRow = n + 1
  BY <1>1 DEF WinInv, Good, WindowTypes, AskQuestion, NextRow
<1>3. User(n + 1) \in Msgs(n + 1)
  <2>1. n + 1 \in Nat \ {0}
    BY <1>2
  <2>. QED
    BY <2>1, UserIs
<1>4. /\ said' = said \o <<User(n + 1)>>
      /\ Requested(sent.body, said \o <<User(n + 1)>>)
  <2>1. said' = Append(said, User(n + 1))
    BY <1>2 DEF AskQuestion
  <2>. QED
    BY <1>1, <1>2, <1>3, <2>1, RowAppended
<1>5. window' = window \o From(said, turn.known + 1) \o <<User(n + 1)>> /\ sent' = sent
  BY <1>2 DEF AskQuestion
<1>6. TurnIs(turn') /\ turn'.at = "agent" /\ turn'.known = n + 1 /\ turn'.late = turn.late
  <2>1. turn' = [turn EXCEPT !.no = turn.no + 1, !.at = "agent", !.step = 0, !.known = n + 1]
    BY <1>2 DEF AskQuestion
  <2>2. TurnTo(turn', "agent", n + 1, turn.late, turn.cut)
    BY <1>2, <2>1, TurnAsked, Zenon
  <2>. QED
    BY <2>2 DEF TurnTo
<1>7. Good(said', window', n + 1, turn.late, "agent")
  BY <1>1, <1>2, <1>4, <1>5, GoodAsk
<1>. QED
  BY <1>4, <1>5, <1>6, <1>7 DEF WinInv

\* A question with the window made from all rows, or on a new branch.
LEMMA RebuiltKeeps ==
  ASSUME WinInv, AskRebuilt \/ AskForked
  PROVE  WinInv'
<1>1. PICK n : n = Len(said)
  OBVIOUS
<1>2. /\ n \in Nat /\ said \in Seq(Msgs(n)) /\ TurnIs(turn) /\ Requested(sent.body, said)
      /\ Good(said, window, turn.known, turn.late, turn.at) /\ NextRow = n + 1
  BY <1>1 DEF WinInv, Good, WindowTypes, NextRow
<1>3. User(n + 1) \in Msgs(n + 1)
  <2>1. n + 1 \in Nat \ {0}
    BY <1>2
  <2>. QED
    BY <2>1, UserIs
<1>4. /\ said' = said \o <<User(n + 1)>>
      /\ Requested(sent.body, said \o <<User(n + 1)>>)
  <2>1. said' = Append(said, User(n + 1))
    BY <1>2 DEF AskRebuilt, AskForked
  <2>. QED
    BY <1>1, <1>2, <1>3, <2>1, RowAppended
<1>5. window' = said' /\ sent' = sent
  BY DEF AskRebuilt, AskForked
<1>6. PICK late2 : late2 = turn'.late
  OBVIOUS
<1>7. TurnIs(turn') /\ turn'.at = "agent" /\ turn'.known = n + 1 /\ late2 \in SUBSET turn.late
  <2>1. CASE AskRebuilt
    <3>1. turn' = [turn EXCEPT !.no = turn.no + 1, !.at = "agent", !.step = 0, !.known = n + 1, !.cut = FALSE]
      BY <1>2, <2>1 DEF AskRebuilt
    <3>2. TurnTo(turn', "agent", n + 1, turn.late, FALSE)
      BY <1>2, <3>1, TurnAskedAnew, Zenon
    <3>. QED
      BY <1>6, <3>2 DEF TurnTo
  <2>2. CASE AskForked
    <3>1. turn' = [no |-> turn.no + 1, at |-> "agent", step |-> 0, known |-> n + 1, late |-> {},
                   cut |-> FALSE]
      BY <1>2, <2>2 DEF AskForked
    <3>. QED
      BY <1>6, <3>1 DEF TurnIs
  <2>. QED
    BY <2>1, <2>2
<1>8. Good(said', window', n + 1, late2, "agent")
  BY <1>1, <1>2, <1>4, <1>5, <1>7, GoodRebuilt
<1>. QED
  BY <1>4, <1>5, <1>6, <1>7, <1>8 DEF WinInv

\* A record is in the set of records its fields say.
LEMMA RecordIn ==
  ASSUME NEW K, NEW P, NEW O, NEW A, NEW k \in K, NEW c \in P, NEW o \in O, NEW a \in A
  PROVE  [kind |-> k, calls |-> c, of |-> o, about |-> a] \in [kind : K, calls : P, of : O, about : A]
<1>. QED
  OBVIOUS

\* What the model answers is a message, with calls that have the number of its row.
LEMMA AnswerIs ==
  ASSUME NEW N \in Nat, NEW n \in 0..2, NEW x, x = IF n = 0 THEN Text({N + 1}) ELSE Calls(N + 1, n)
  PROVE  /\ x \in Msgs(N + 1) /\ x.kind = (IF n = 0 THEN "text" ELSE "calls")
         /\ \A c \in x.calls : c[1] = N + 1
<1>1. {N + 1} \in SUBSET (1..(N + 1)) /\ N + 1 \in Nat /\ N + 1 \in 1..(N + 1)
  OBVIOUS
<1>2. CASE n = 0
  <2>1. x = Text({N + 1})
    BY <1>2
  <2>2. Text({N + 1}) \in Msgs(N + 1) /\ Text({N + 1}).kind = "text" /\ Text({N + 1}).calls = {}
    BY <1>1, TextIsMsg
  <2>. QED
    BY <1>2, <2>1, <2>2
<1>3. CASE n # 0
  <2>1. x = Calls(N + 1, n)
    BY <1>3
  <2>2. PICK C : C = {<<N + 1, k>> : k \in 1..n}
    OBVIOUS
  <2>3. C \subseteq (1..(N + 1)) \X Nat /\ \A c \in C : c[1] = N + 1
    BY <1>1, <2>2
  <2>4. IsFiniteSet(C)
    <3>1. PICK f : f = [k \in 1..n |-> <<N + 1, k>>]
      OBVIOUS
    <3>2. f \in Surjection(1..n, C)
      BY <2>2, <3>1 DEF Surjection
    <3>3. IsFiniteSet(1..n)
      BY FS_Interval
    <3>. QED
      BY <3>2, <3>3, FS_Surjection
  <2>5. /\ x.calls = C /\ x.kind = "calls"
        /\ x \in [kind : Kinds, calls : SUBSET ((1..(N + 1)) \X Nat),
                  of : ((1..(N + 1)) \X Nat) \cup {<<>>}, about : SUBSET (1..(N + 1))]
    <3>1. x = [kind |-> "calls", calls |-> C, of |-> <<>>, about |-> {N + 1}]
      BY <2>1, <2>2 DEF Calls
    <3>2. C \in SUBSET ((1..(N + 1)) \X Nat) /\ <<>> \in ((1..(N + 1)) \X Nat) \cup {<<>>}
          /\ "calls" \in Kinds
      BY <2>3 DEF Kinds
    <3>3. x \in [kind : Kinds, calls : SUBSET ((1..(N + 1)) \X Nat),
                 of : ((1..(N + 1)) \X Nat) \cup {<<>>}, about : SUBSET (1..(N + 1))]
      <4>1. PICK P, O, A, e, a : /\ P = SUBSET ((1..(N + 1)) \X Nat) /\ O = ((1..(N + 1)) \X Nat) \cup {<<>>}
                                 /\ A = SUBSET (1..(N + 1)) /\ e = <<>> /\ a = {N + 1}
        OBVIOUS
      <4>2. C \in P /\ e \in O /\ a \in A /\ "calls" \in Kinds
        BY <1>1, <3>2, <4>1
      <4>3. [kind |-> "calls", calls |-> C, of |-> e, about |-> a] \in [kind : Kinds, calls : P, of : O, about : A]
        BY <4>2, RecordIn, Zenon
      <4>4. x = [kind |-> "calls", calls |-> C, of |-> e, about |-> a]
        BY <3>1, <4>1
      <4>. QED
        BY <4>1, <4>3, <4>4, Zenon
    <3>4. x.calls = C /\ x.kind = "calls"
      BY <3>1
    <3>. QED
      BY <3>3, <3>4
  <2>. QED
    BY <1>3, <2>3, <2>4, <2>5 DEF Msgs
<1>. QED
  BY <1>2, <1>3

\* Results, and nothing else.
OnlyResults(r, n) == r \in Seq(Msgs(n)) /\ \A d \in 1..Len(r) : r[d].kind = "result"

\* What is put back from the cache are results of the window.
LEMMA CachedOnes ==
  ASSUME NEW n \in Nat, NEW w \in Seq(Msgs(n)), NEW cached, cached \subseteq Cacheable(w), NEW body,
         NEW r, r = SetToSeq(cached \ Range(body))
  PROVE  OnlyResults(r, n)
<1>1. PICK C : C = cached \ Range(body)
  OBVIOUS
<1>2. C \subseteq Range(w) /\ \A y \in C : y.kind = "result"
  BY <1>1 DEF Cacheable
<1>3. IsFiniteSet(C) /\ C \subseteq Msgs(n)
  <2>1. PICK R : R = Range(w)
    OBVIOUS
  <2>2. w \in Surjection(1..Len(w), R)
    BY <2>1 DEF Surjection, Range
  <2>3. IsFiniteSet(1..Len(w))
    <3>1. Len(w) \in Nat
      OBVIOUS
    <3>. QED
      BY <3>1, FS_Interval
  <2>4. IsFiniteSet(R)
    BY <2>2, <2>3, FS_Surjection
  <2>5. R \subseteq Msgs(n)
    BY <2>1 DEF Range
  <2>. QED
    BY <1>2, <2>1, <2>4, <2>5, FS_Subset
<1>4. r \in Seq(C)
  BY <1>1, <1>3, SetInOrder
<1>5. \A d \in 1..Len(r) : r[d] \in C
  BY <1>4
<1>6. r \in Seq(Msgs(n))
  BY <1>3, <1>4, <1>5
<1>. QED
  BY <1>2, <1>5, <1>6 DEF OnlyResults

\* Whatever the request was made from, as long as it was made from the window.
LEMMA AnswerKeeps ==
  ASSUME WinInv, NEW body, RequestFrom(body, window, Len(said)), NEW how, NEW cached,
         cached \subseteq Cacheable(window), Respond(body, how, cached)
  PROVE  WinInv'
<1>1. PICK n : n = Len(said)
  OBVIOUS
<1>2. /\ n \in Nat /\ said \in Seq(Msgs(n)) /\ window \in Seq(Msgs(n)) /\ TurnIs(turn)
      /\ Good(said, window, turn.known, turn.late, turn.at) /\ NextRow = n + 1
      /\ InOrder(said) => Part(window)
  BY <1>1 DEF WinInv, Good, WindowTypes, NextRow
<1>3. body \in Seq(Msgs(n)) /\ Follows(body) /\ (InOrder(said) => Full(body))
  BY <1>1, <1>2 DEF RequestFrom
<1>4. PICK m \in 0..2 :
        LET x == IF m = 0 THEN Text({n + 1}) ELSE Calls(n + 1, m)
        IN /\ said' = Append(said, x)
           /\ window' = Append(WithCached(body, cached), x)
           /\ sent' = [how |-> how, body |-> body]
           /\ turn' = [turn EXCEPT !.at = IF m = 0 THEN "idle" ELSE "tools", !.step = turn.step + 1,
                                   !.known = n + 1, !.cut = turn.cut \/ how # "plain"]
  BY <1>2 DEF Respond
<1>5. PICK x : x = IF m = 0 THEN Text({n + 1}) ELSE Calls(n + 1, m)
  OBVIOUS
<1>6. /\ said' = Append(said, x) /\ window' = Append(WithCached(body, cached), x) /\ sent'.body = body
  BY <1>4, <1>5
<1>7. PICK at2 : at2 = IF m = 0 THEN "idle" ELSE "tools"
  OBVIOUS
<1>8. TurnIs(turn') /\ turn'.at = at2 /\ turn'.known = n + 1 /\ turn'.late = turn.late
  <2>1. PICK f : f = (turn.cut \/ how # "plain")
    OBVIOUS
  <2>2. turn' = [turn EXCEPT !.at = at2, !.step = turn.step + 1, !.known = n + 1, !.cut = f]
    BY <1>4, <1>7, <2>1
  <2>3. TurnTo(turn', at2, n + 1, turn.late, f)
    BY <1>2, <2>2, TurnStepped, Zenon
  <2>. QED
    BY <2>3 DEF TurnTo
<1>9. x \in Msgs(n + 1) /\ x.kind = (IF m = 0 THEN "text" ELSE "calls") /\ \A c \in x.calls : c[1] = n + 1
  BY <1>2, <1>5, AnswerIs
<1>10. PICK r : r = SetToSeq(cached \ Range(body))
  OBVIOUS
<1>11. r \in Seq(Msgs(n)) /\ \A d \in 1..Len(r) : r[d].kind = "result"
  <2>1. n \in Nat /\ window \in Seq(Msgs(n)) /\ cached \subseteq Cacheable(window)
    BY <1>2
  <2>2. OnlyResults(r, n)
    BY <1>10, <2>1, CachedOnes, Zenon
  <2>. QED
    BY <2>2 DEF OnlyResults
<1>12. body \o r \in Seq(Msgs(n)) /\ WithCached(body, cached) = body \o r
  BY <1>3, <1>10, <1>11 DEF WithCached
<1>13. n + 1 \in Nat /\ n <= n + 1
  BY <1>2
<1>14. body \in Seq(Msgs(n + 1)) /\ body \o r \in Seq(Msgs(n + 1)) /\ said \in Seq(Msgs(n + 1))
  BY <1>2, <1>3, <1>12, <1>13, SeqMsgsGrow
<1>15. said' = said \o <<x>> /\ window' = body \o r \o <<x>>
  <2>1. Append(said, x) = said \o <<x>>
    BY <1>9, <1>14, AppendIsConcat
  <2>2. Append(body \o r, x) = body \o r \o <<x>>
    BY <1>9, <1>14, AppendIsConcat
  <2>. QED
    BY <1>6, <1>12, <2>1, <2>2
<1>16. Good(said', window', n + 1, turn.late, at2)
  <2>1. at2 = (IF x.kind = "text" THEN "idle" ELSE "tools") /\ x.kind \in {"text", "calls"}
    BY <1>7, <1>9
  <2>2. Good(said \o <<x>>, body \o r \o <<x>>, n + 1, turn.late, at2)
    BY <1>1, <1>2, <1>3, <1>9, <1>11, <2>1, GoodAnswer
  <2>. QED
    BY <1>15, <2>2
<1>17. Requested(body, said')
  <2>1. Requested(body, said)
    BY <1>1, <1>3 DEF Requested
  <2>2. Requested(body, said \o <<x>>)
    BY <1>1, <1>2, <1>9, <2>1, RowAppended
  <2>. QED
    BY <1>15, <2>2
<1>. QED
  BY <1>6, <1>8, <1>16, <1>17 DEF WinInv

\* A step that sends a request.
LEMMA StepKeeps ==
  ASSUME WinInv, StepPlain \/ StepCompressed \/ StepEmergency
  PROVE  WinInv'
<1>1. PICK n : n = Len(said)
  OBVIOUS
<1>2. n \in Nat /\ window \in Seq(Msgs(n))
  BY <1>1 DEF WinInv, Good, WindowTypes
<1>3. /\ RequestFrom(Sanitize(Repair(window)), window, n)
      /\ RequestFrom(Sanitize(LastOnes(Repair(window))), window, n)
      /\ \A k \in DOMAIN Repair(window) :
           /\ RequestFrom(Sanitize(From(Repair(window), k)), window, n)
           /\ RequestFrom(Sanitize(LastThree(Repair(window), k)), window, n)
  BY <1>2, Requests
<1>4. CASE StepPlain
  <2>1. PICK S \in SUBSET Cacheable(window) : Respond(Sanitize(Repair(window)), "plain", S)
    BY <1>4 DEF StepPlain
  <2>. QED
    BY <1>1, <1>3, <2>1, AnswerKeeps, Zenon
<1>5. ASSUME NEW body, RequestFrom(body, window, n), NEW how, Respond(body, how, {}) PROVE WinInv'
  <2>1. PICK Z : Z = {}
    OBVIOUS
  <2>2. Respond(body, how, Z) /\ Z \subseteq Cacheable(window)
    BY <1>5, <2>1
  <2>3. RequestFrom(body, window, Len(said))
    BY <1>1, <1>5
  <2>. QED
    BY <2>2, <2>3, AnswerKeeps, Zenon
<1>6. CASE StepCompressed
  <2>1. PICK k \in DOMAIN Repair(window) : Respond(Sanitize(From(Repair(window), k)), "compressed", {})
    BY <1>6 DEF StepCompressed
  <2>2. RequestFrom(Sanitize(From(Repair(window), k)), window, n)
    BY <1>3
  <2>. QED
    BY <1>5, <2>1, <2>2, Zenon
<1>7. CASE StepEmergency
  <2>1. CASE Respond(Sanitize(LastOnes(Repair(window))), "emergency", {})
    BY <1>3, <1>5, <2>1, Zenon
  <2>2. CASE \E k \in DOMAIN Repair(window) : Respond(Sanitize(LastThree(Repair(window), k)), "emergency", {})
    <3>1. PICK k \in DOMAIN Repair(window) : Respond(Sanitize(LastThree(Repair(window), k)), "emergency", {})
      BY <2>2
    <3>2. RequestFrom(Sanitize(LastThree(Repair(window), k)), window, n)
      BY <1>3
    <3>. QED
      BY <1>5, <3>1, <3>2, Zenon
  <2>. QED
    BY <1>7, <2>1, <2>2 DEF StepEmergency
<1>. QED
  BY <1>4, <1>6, <1>7

\* A step that rejects.
LEMMA RejectedKeeps ==
  ASSUME WinInv, StepRejected
  PROVE  WinInv'
<1>1. PICK n : n = Len(said)
  OBVIOUS
<1>2. /\ n \in Nat /\ said \in Seq(Msgs(n)) /\ TurnIs(turn)
      /\ Good(said, window, turn.known, turn.late, turn.at) /\ NextRow = n + 1
  BY <1>1 DEF WinInv, Good, WindowTypes, NextRow
<1>3. PICK x : x = Text({n + 1})
  OBVIOUS
<1>4. x \in Msgs(n + 1) /\ x.kind = "text" /\ x.calls = {}
  <2>1. n + 1 \in Nat /\ {n + 1} \in SUBSET (1..(n + 1))
    BY <1>2
  <2>. QED
    BY <1>3, <2>1, TextIsMsg
<1>5. PICK e : e = <<>>
  OBVIOUS
<1>6. e \in Seq(Msgs(n)) /\ Len(e) = 0 /\ \A i \in 1..Len(e) : FALSE
  BY <1>5
<1>7. Full(e) /\ Follows(e)
  BY <1>6 DEF Full, Follows
<1>8. said' = Append(said, x) /\ window' = <<x>> /\ sent'.body = e
  BY <1>2, <1>3, <1>5 DEF StepRejected
<1>9. Requested(e, said)
  BY <1>1, <1>6, <1>7 DEF Requested
<1>10. Append(said, x) = said \o <<x>> /\ Requested(e, said \o <<x>>)
  BY <1>1, <1>2, <1>4, <1>9, RowAppended
<1>11. e \o e \o <<x>> = <<x>>
  <2>1. <<x>> \in Seq(Msgs(n + 1)) /\ e = <<>>
    BY <1>4, <1>5
  <2>2. e \o e = <<>>
    BY <2>1
  <2>. QED
    BY <2>1, <2>2
<1>12. Good(said \o <<x>>, e \o e \o <<x>>, n + 1, turn.late, "idle")
  <2>1. /\ InOrder(said) => Full(e)
        /\ \A d \in 1..Len(e) : e[d].kind = "result"
        /\ x.kind \in {"text", "calls"} /\ (\A c \in x.calls : c[1] = n + 1)
        /\ "idle" = IF x.kind = "text" THEN "idle" ELSE "tools"
    BY <1>4, <1>6, <1>7
  <2>. QED
    BY <1>1, <1>2, <1>4, <1>6, <2>1, GoodAnswer
<1>13. TurnTo(turn', "idle", n + 1, turn.late, TRUE)
  <2>1. turn' = [turn EXCEPT !.at = "idle", !.step = turn.step + 1, !.known = n + 1, !.cut = TRUE]
    BY <1>2 DEF StepRejected
  <2>. QED
    BY <1>2, <2>1, TurnStepped, Zenon
<1>. QED
  BY <1>8, <1>10, <1>11, <1>12, <1>13 DEF WinInv, TurnTo

\* A reply of the user.
LEMMA DecideKeeps ==
  ASSUME WinInv, Decide
  PROVE  WinInv'
<1>1. PICK n : n = Len(said)
  OBVIOUS
<1>2. /\ n \in Nat /\ said \in Seq(Msgs(n)) /\ TurnIs(turn) /\ Requested(sent.body, said)
      /\ Good(said, window, turn.known, turn.late, "tools") /\ NextRow = n + 1 /\ turn.at = "tools"
  BY <1>1 DEF WinInv, Good, WindowTypes, NextRow, Decide
<1>3. UserReply(n + 1) \in Msgs(n + 1)
  <2>1. n + 1 \in Nat \ {0}
    BY <1>2
  <2>. QED
    BY <2>1, UserIs
<1>4. said' = said \o <<UserReply(n + 1)>> /\ Requested(sent.body, said \o <<UserReply(n + 1)>>)
  <2>1. said' = Append(said, UserReply(n + 1))
    BY <1>2 DEF Decide
  <2>. QED
    BY <1>1, <1>2, <1>3, <2>1, RowAppended
<1>5. window' = window /\ sent' = sent
  BY DEF Decide
<1>6. TurnTo(turn', "tools", n + 1, turn.late, turn.cut)
  <2>1. turn' = [turn EXCEPT !.known = n + 1]
    BY <1>2 DEF Decide
  <2>2. TurnTo(turn', turn.at, n + 1, turn.late, turn.cut)
    BY <1>2, <2>1, TurnKnows, Zenon
  <2>. QED
    BY <1>2, <2>2
<1>7. Good(said', window', n + 1, turn.late, "tools")
  BY <1>1, <1>2, <1>4, <1>5, GoodDecide
<1>. QED
  BY <1>4, <1>5, <1>6, <1>7 DEF WinInv, TurnTo

\* A turn given up while its workers run.
LEMMA AbandonKeeps ==
  ASSUME WinInv, Abandon
  PROVE  WinInv'
<1>1. /\ TurnIs(turn) /\ Requested(sent.body, said)
      /\ Good(said, window, turn.known, turn.late, "tools")
  BY DEF WinInv, Abandon
<1>2. said' = said /\ window' = window /\ sent' = sent
  BY DEF Abandon
<1>3. PICK S : S = turn.late \cup window[Len(window)].calls
  OBVIOUS
<1>4. TurnTo(turn', "idle", turn.known, S, turn.cut)
  <2>1. turn' = [turn EXCEPT !.at = "idle", !.late = S]
    BY <1>3 DEF Abandon, Open, Last
  <2>. QED
    BY <1>1, <2>1, TurnLeft, Zenon
<1>5. Good(said, window, turn.known, S, "idle")
  BY <1>1, <1>3, GoodAbandon
<1>. QED
  BY <1>1, <1>2, <1>4, <1>5 DEF WinInv, TurnTo

\* A result is a message.
LEMMA ResultIsMsg ==
  ASSUME NEW N \in Nat, NEW c \in (1..N) \X Nat, NEW X \in SUBSET (1..N)
  PROVE  Result(c, X) \in Msgs(N) /\ Result(c, X).kind = "result" /\ Result(c, X).of = c
<1>1. PICK x : x = Result(c, X)
  OBVIOUS
<1>2. c # <<>>
  <2>1. PICK y \in 1..N, z \in Nat : c = <<y, z>>
    OBVIOUS
  <2>2. Len(<<y, z>>) = 2 /\ Len(<<>>) = 0
    OBVIOUS
  <2>. QED
    BY <2>1, <2>2
<1>3. IsFiniteSet({})
  BY FS_EmptySet
<1>4. /\ x.of = c /\ x.kind = "result" /\ x.calls = {}
      /\ x \in [kind : Kinds, calls : SUBSET ((1..N) \X Nat), of : ((1..N) \X Nat) \cup {<<>>},
                about : SUBSET (1..N)]
  BY <1>1 DEF Result, Kinds
<1>. QED
  BY <1>1, <1>2, <1>3, <1>4 DEF Msgs

\* A worker that settles its call itself.
LEMMA LateKeeps ==
  ASSUME WinInv, LateResult
  PROVE  WinInv'
<1>1. PICK n : n = Len(said)
  OBVIOUS
<1>2. /\ n \in Nat /\ said \in Seq(Msgs(n)) /\ TurnIs(turn) /\ Requested(sent.body, said)
      /\ Good(said, window, turn.known, turn.late, turn.at) /\ NextRow = n + 1
  BY <1>1 DEF WinInv, Good, WindowTypes, NextRow
<1>3. PICK c \in turn.late : /\ said' = Append(said, Result(c, {n + 1}))
                             /\ turn' = [turn EXCEPT !.late = turn.late \ {c}]
                             /\ window' = window /\ sent' = sent
  BY <1>2 DEF LateResult
<1>4. Result(c, {n + 1}) \in Msgs(n + 1)
  <2>1. PICK i \in 1..n : c \in said[i].calls
    BY <1>1, <1>2 DEF Good, RowsBehind
  <2>2. said[i] \in Msgs(n)
    BY <1>1, <1>2, <2>1
  <2>3. PICK y \in 1..n, z \in Nat : c = <<y, z>>
    BY <2>1, <2>2 DEF Msgs
  <2>4. c \in (1..(n + 1)) \X Nat /\ {n + 1} \in SUBSET (1..(n + 1)) /\ n + 1 \in Nat
    BY <1>2, <2>3
  <2>. QED
    BY <2>4, ResultIsMsg
<1>5. said' = said \o <<Result(c, {n + 1})>> /\ Requested(sent.body, said \o <<Result(c, {n + 1})>>)
  BY <1>1, <1>2, <1>3, <1>4, RowAppended
<1>6. TurnTo(turn', turn.at, turn.known, turn.late \ {c}, turn.cut)
  BY <1>2, <1>3, TurnLate, Zenon
<1>7. Good(said', window', turn.known, turn.late \ {c}, turn.at)
  <2>1. Good(said \o <<Result(c, {n + 1})>>, window, turn.known, turn.late \ {c}, turn.at)
    BY <1>1, <1>2, GoodLate
  <2>. QED
    BY <1>3, <1>5, <2>1
<1>. QED
  BY <1>3, <1>5, <1>6, <1>7 DEF WinInv, TurnTo

\* What the tools node adds: a result of each open call, in their order.
OpenAnswered(b, q) ==
  /\ q \in Nat /\ b \in Seq(Msgs(Len(said) + q)) /\ Len(b) = q
  /\ said' = said \o b /\ window' = window \o b /\ sent' = sent
  /\ turn' = [turn EXCEPT !.at = "agent", !.known = Len(said) + q]
  /\ \A d \in 1..q : /\ b[d].kind = "result" /\ b[d].calls = {} /\ b[d].about = {Len(said) + d}
                     /\ b[d].of \in window[Len(window)].calls
                     /\ \A e \in 1..(d - 1) : b[e].of # b[d].of

\* The open calls are those of the last message.
LEMMA OpenAreAnswered ==
  ASSUME NEW n, n = Len(said), ToolsStep, window \in Seq(Msgs(n)),
         Good(said, window, turn.known, turn.late, "tools")
  PROVE  \E b, q : OpenAnswered(b, q)
<1>2. n \in Nat /\ said \in Seq(Msgs(n))
  BY DEF Good, WindowTypes
<1>3. PICK C, q, o : C = Open /\ q = Cardinality(C) /\ o = SetToSeq(C)
  OBVIOUS
<1>4. C = window[Len(window)].calls /\ IsFiniteSet(C) /\ C \subseteq (1..n) \X Nat
  <2>1. Alone(window)
    BY <1>2 DEF Good, EndOf
  <2>2. Len(window) \in 1..Len(window)
    <3>1. Len(window) \in Nat /\ Len(window) # 0
      BY <1>2, <2>1 DEF Alone
    <3>. QED
      BY <3>1
  <2>3. window[Len(window)] \in Msgs(n)
    BY <1>2, <2>2
  <2>4. C = window[Len(window)].calls
    BY <1>3 DEF Open, Last
  <2>. QED
    BY <2>3, <2>4 DEF Msgs
<1>5. /\ o \in Seq(C) /\ Len(o) = q /\ q \in Nat
      /\ \A i, j \in 1..q : i # j => o[i] # o[j]
  BY <1>3, <1>4, SetInOrder
<1>6. PICK b : b = [k \in 1..q |-> Result(o[k], {n + k})]
  OBVIOUS
<1>7. ASSUME NEW k \in 1..q
      PROVE  /\ b[k] \in Msgs(n + q) /\ b[k].kind = "result" /\ b[k].of = o[k] /\ o[k] \in C
             /\ b[k].calls = {} /\ b[k].about = {n + k}
  <2>1. o[k] \in C
    BY <1>5
  <2>2. PICK y \in 1..n, z \in Nat : o[k] = <<y, z>>
    BY <1>4, <2>1
  <2>3. n + q \in Nat /\ y \in 1..(n + q) /\ n + k \in 1..(n + q)
    BY <1>2, <1>5
  <2>4. o[k] \in (1..(n + q)) \X Nat /\ {n + k} \in SUBSET (1..(n + q))
    BY <2>2, <2>3
  <2>5. b[k] = Result(o[k], {n + k})
    BY <1>6
  <2>6. b[k].calls = {} /\ b[k].about = {n + k}
    BY <2>5 DEF Result
  <2>7. b[k] \in Msgs(n + q) /\ b[k].kind = "result" /\ b[k].of = o[k]
    BY <2>3, <2>4, <2>5, ResultIsMsg
  <2>. QED
    BY <2>1, <2>6, <2>7
<1>8. b \in Seq(Msgs(n + q)) /\ Len(b) = q
  <2>1. b \in [1..q -> Msgs(n + q)]
    BY <1>6, <1>7
  <2>. QED
    BY <1>5, <2>1
<1>9. said' = said \o b /\ window' = window \o b /\ sent' = sent
  BY <1>3, <1>6 DEF ToolsStep
<1>10. turn' = [turn EXCEPT !.at = "agent", !.known = n + q]
  <2>1. turn' = [turn EXCEPT !.at = "agent", !.known = n + Len(b)]
    BY <1>3, <1>6 DEF ToolsStep
  <2>. QED
    BY <1>8, <2>1
<1>11. ASSUME NEW d \in 1..q
       PROVE  /\ b[d].kind = "result" /\ b[d].calls = {} /\ b[d].about = {n + d}
              /\ b[d].of \in window[Len(window)].calls
              /\ \A e \in 1..(d - 1) : b[e].of # b[d].of
  <2>1. /\ b[d].kind = "result" /\ b[d].of = o[d] /\ o[d] \in C
        /\ b[d].calls = {} /\ b[d].about = {n + d}
    BY <1>7
  <2>2. ASSUME NEW e \in 1..(d - 1) PROVE b[e].of # b[d].of
    <3>1. e \in 1..q /\ e # d
      BY <1>5
    <3>. QED
      BY <1>5, <1>7, <2>1, <3>1
  <2>. QED
    BY <1>4, <2>1, <2>2
<1>12. OpenAnswered(b, q)
  BY <1>5, <1>8, <1>9, <1>10, <1>11 DEF OpenAnswered
<1>. QED
  BY <1>12

\* The tools node.
LEMMA ToolsKeeps ==
  ASSUME WinInv, ToolsStep
  PROVE  WinInv'
<1>1. PICK n : n = Len(said)
  OBVIOUS
<1>2. /\ n \in Nat /\ said \in Seq(Msgs(n)) /\ window \in Seq(Msgs(n)) /\ TurnIs(turn)
      /\ Requested(sent.body, said) /\ Good(said, window, turn.known, turn.late, "tools")
  BY <1>1 DEF WinInv, Good, WindowTypes, ToolsStep
<1>3. PICK b, q : OpenAnswered(b, q)
  BY <1>1, <1>2, OpenAreAnswered
<1>4. /\ q \in Nat /\ b \in Seq(Msgs(n + q)) /\ Len(b) = q
      /\ said' = said \o b /\ window' = window \o b /\ sent' = sent
      /\ turn' = [turn EXCEPT !.at = "agent", !.known = n + q]
      /\ \A d \in 1..q : /\ b[d].kind = "result" /\ b[d].of \in window[Len(window)].calls
                         /\ \A e \in 1..(d - 1) : b[e].of # b[d].of
  BY <1>1, <1>3 DEF OpenAnswered
<1>5. TurnTo(turn', "agent", n + q, turn.late, turn.cut)
  BY <1>2, <1>4, TurnMoved, Zenon
<1>6. Good(said \o b, window \o b, n + q, turn.late, "agent")
  BY <1>1, <1>2, <1>4, GoodTools
<1>7. Requested(sent.body, said \o b)
  BY <1>1, <1>2, <1>4, RequestedStays
<1>. QED
  BY <1>4, <1>5, <1>6, <1>7 DEF WinInv, TurnTo

\* The empty window.
LEMMA InitWindow == WindowInit => WinInv
<1> SUFFICES ASSUME WindowInit PROVE WinInv
  OBVIOUS
<1>1. /\ said = <<>> /\ window = <<>> /\ sent.body = <<>>
      /\ turn = [no |-> 0, at |-> "idle", step |-> 0, known |-> 0, late |-> {}, cut |-> FALSE]
  BY DEF WindowInit
<1>2. TurnIs(turn) /\ turn.at = "idle" /\ turn.known = 0 /\ turn.late = {}
  BY <1>1 DEF TurnIs
<1>3. PICK e : e = <<>>
  OBVIOUS
<1>4. Len(e) = 0 /\ e \in Seq(Msgs(0)) /\ \A i \in 1..0 : FALSE
  BY <1>3
<1>5. WindowTypes(e, e, 0)
  BY <1>4 DEF WindowTypes
<1>6. Part(e) /\ Full(e) /\ Follows(e) /\ Rows(e)
  BY <1>4 DEF Part, Full, Follows, Rows
<1>7. RowsBehind(e, 0, {}) /\ EndOf(e, e, 0, {}, "idle")
  <2>1. \A j \in 0 + 1..0 : FALSE
    OBVIOUS
  <2>. QED
    BY <1>4, <1>6, <2>1 DEF RowsBehind, EndOf
<1>8. Good(e, e, 0, {}, "idle")
  BY <1>5, <1>6, <1>7 DEF Good
<1>9. Requested(e, e)
  BY <1>4, <1>6 DEF Requested
<1>. QED
  BY <1>1, <1>2, <1>3, <1>8, <1>9 DEF WinInv

\* One case for each action.
LEMMA WindowStep == WinInv /\ [WindowNext]_wvars => WinInv'
<1> SUFFICES ASSUME WinInv, [WindowNext]_wvars PROVE WinInv'
  OBVIOUS
<1>1. CASE AskQuestion
  BY <1>1, AskKeeps
<1>2. CASE AskRebuilt \/ AskForked
  BY <1>2, RebuiltKeeps
<1>3. CASE StepPlain \/ StepCompressed \/ StepEmergency
  BY <1>3, StepKeeps
<1>4. CASE StepRejected
  BY <1>4, RejectedKeeps
<1>5. CASE Decide
  BY <1>5, DecideKeeps
<1>6. CASE ToolsStep
  BY <1>6, ToolsKeeps
<1>7. CASE Abandon
  BY <1>7, AbandonKeeps
<1>8. CASE LateResult
  BY <1>8, LateKeeps
<1>9. CASE UNCHANGED wvars
  <2>1. said' = said /\ window' = window /\ turn' = turn /\ sent' = sent
    BY <1>9 DEF wvars
  <2>. QED
    BY <2>1 DEF WinInv
<1>. QED
  BY <1>1, <1>2, <1>3, <1>4, <1>5, <1>6, <1>7, <1>8, <1>9 DEF WindowNext

\* What the invariant says of the last request.
LEMMA WindowSays == WinInv => RequestsPaired
<1> SUFFICES ASSUME WinInv PROVE RequestsPaired
  OBVIOUS
<1>1. PICK n : n = Len(said)
  OBVIOUS
<1>2. n \in Nat /\ sent.body \in Seq(Msgs(n)) /\ Follows(sent.body) /\ (InOrder(said) => Full(sent.body))
  BY <1>1 DEF WinInv, Good, WindowTypes, Requested
<1>3. ResultsFollowCalls /\ (Full(sent.body) => RequestsWellFormed)
  BY <1>2, SaysOfRequest
<1>4. LedgerInOrder => InOrder(said)
  BY DEF LedgerInOrder, InOrder
<1>. QED
  BY <1>2, <1>3, <1>4 DEF RequestsPaired

\* Every request of the agent node, whatever repair_orphan_tool_calls and sanitize_working_messages
\* made of the window: a result stands behind its calls with nothing but results between, and
\* while no reply or late result has come between calls and results in the ledger, every call
\* has its result right behind it.
THEOREM RequestsArePaired == WindowSpec => []RequestsPaired
<1>1. WindowInit => WinInv
  BY InitWindow
<1>2. WinInv /\ [WindowNext]_wvars => WinInv'
  BY WindowStep
<1>3. WinInv => RequestsPaired
  BY WindowSays
<1>. QED
  BY <1>1, <1>2, <1>3, PTL DEF WindowSpec

-----------------------------------------------------------------------------
(* What a window shows for good.                                           *)

\* Message a is the last before p that is no result.
Run(h, a, p) == h[a].kind # "result" /\ \A k \in a + 1..p : h[k].kind = "result"

\* The message at p answers a call of a, and no call has two results up to it.
OwnRun(h, a, p) == h[p].of \in h[a].calls /\ \A e, f \in a + 1..p : e < f => h[e].of # h[f].of

\* Sanitizing keeps what the message at p stands for: it is no result, or one of the calls it
\* stands behind, or one behind a message without calls, which becomes a text.
Stays(h, p) ==
  \/ h[p].kind # "result"
  \/ \E a \in 1..p - 1 : Run(h, a, p) /\ (h[a].kind = "calls" => OwnRun(h, a, p))

Safe(h, r) == \E p \in 1..Len(h) : r \in h[p].about /\ Stays(h, p)

\* It is safe in every sequence in which the window is found in one piece.
LEMMA SafeMoved ==
  ASSUME NEW h, NEW g, NEW m \in Nat, NEW n \in Nat, n = Len(h), NEW l \in Nat, l = Len(g), m + n <= l,
         \A p \in 1..n : g[m + p] = h[p], NEW r, Safe(h, r)
  PROVE  Safe(g, r)
<1>1. PICK p \in 1..n : r \in h[p].about /\ Stays(h, p)
  BY DEF Safe
<1>2. m + p \in 1..l /\ g[m + p] = h[p]
  BY <1>1
<1>3. CASE h[p].kind # "result"
  BY <1>1, <1>2, <1>3 DEF Safe, Stays
<1>4. CASE \E a \in 1..p - 1 : Run(h, a, p) /\ (h[a].kind = "calls" => OwnRun(h, a, p))
  <2>1. PICK a \in 1..p - 1 : Run(h, a, p) /\ (h[a].kind = "calls" => OwnRun(h, a, p))
    BY <1>4
  <2>2. m + a \in 1..(m + p) - 1 /\ a \in 1..n /\ g[m + a] = h[a]
    BY <1>1, <2>1
  <2>3. ASSUME NEW k \in (m + a) + 1..m + p PROVE k - m \in a + 1..p /\ g[k] = h[k - m]
    <3>1. k - m \in a + 1..p /\ k - m \in 1..n /\ m + (k - m) = k
      BY <1>1, <2>1
    <3>. QED
      BY <3>1
  <2>4. Run(g, m + a, m + p)
    BY <2>1, <2>2, <2>3 DEF Run
  <2>5. ASSUME OwnRun(h, a, p) PROVE OwnRun(g, m + a, m + p)
    <3>1. ASSUME NEW e \in (m + a) + 1..m + p, NEW f \in (m + a) + 1..m + p, e < f PROVE g[e].of # g[f].of
      <4>1. /\ e - m \in a + 1..p /\ g[e] = h[e - m]
            /\ f - m \in a + 1..p /\ g[f] = h[f - m]
        BY <2>3
      <4>2. e - m < f - m
        BY <3>1
      <4>. QED
        BY <2>5, <4>1, <4>2 DEF OwnRun
    <3>. QED
      BY <1>2, <2>2, <2>5, <3>1 DEF OwnRun
  <2>6. g[m + a].kind = "calls" => OwnRun(g, m + a, m + p)
    BY <2>1, <2>2, <2>5
  <2>. QED
    BY <1>1, <1>2, <2>2, <2>4, <2>6 DEF Safe, Stays
<1>. QED
  BY <1>1, <1>3, <1>4 DEF Stays

\* So it is safe in what a window is part of.
LEMMA SafeJoined ==
  ASSUME NEW S, NEW a \in Seq(S), NEW b \in Seq(S), NEW r, Safe(a, r) \/ Safe(b, r)
  PROVE  Safe(a \o b, r)
<1>1. PICK g, m, n : g = a \o b /\ m = Len(a) /\ n = Len(b)
  OBVIOUS
<1>2. /\ m \in Nat /\ n \in Nat /\ Len(g) = m + n
      /\ \A p \in 1..m : g[p] = a[p]
      /\ \A d \in 1..n : g[m + d] = b[d]
  BY <1>1
<1>3. PICK l \in Nat : l = Len(g) /\ l = m + n
  BY <1>2
<1>4. 0 + m <= l /\ m + n <= l /\ 0 \in Nat
  BY <1>2, <1>3
<1>5. \A p \in 1..m : g[0 + p] = a[p]
  BY <1>2
<1>6. CASE Safe(a, r)
  <2>1. Safe(g, r)
    BY <1>1, <1>2, <1>3, <1>4, <1>5, <1>6, SafeMoved
  <2>. QED
    BY <1>1, <2>1
<1>7. CASE Safe(b, r)
  <2>1. Safe(g, r)
    BY <1>1, <1>2, <1>3, <1>4, <1>7, SafeMoved
  <2>. QED
    BY <1>1, <2>1
<1>. QED
  BY <1>6, <1>7

\* A message that is no result is safe, and so is a text made of it.
LEMMA SafeAlone ==
  ASSUME NEW m, m.kind # "result", NEW r \in m.about
  PROVE  Safe(<<m>>, r)
<1>1. PICK s : s = <<m>>
  OBVIOUS
<1>2. Len(s) = 1 /\ s[1] = m /\ 1 \in 1..1
  BY <1>1
<1>. QED
  BY <1>1, <1>2 DEF Safe, Stays

\* Where the repair puts the messages.
RepairedTo(F, B, o, ms, N) ==
  /\ F \in Seq(Msgs(N))
  /\ \A k \in 1..Len(ms) : B[k] = Block(ms, k)
  /\ o \in [0..Len(ms) -> Nat]
  /\ Placed(B, Len(ms), F, o)

\* Repair lays out a block for every message.
LEMMA RepairPlaces ==
  ASSUME NEW N \in Nat, NEW ms \in Seq(Msgs(N))
  PROVE  \E B, o : RepairedTo(Repair(ms), B, o, ms, N)
<1>1. PICK B : B = [i \in 1..Len(ms) |-> Block(ms, i)]
  OBVIOUS
<1>2. B \in [1..Len(ms) -> Seq(Msgs(N))]
  <2>1. \A i \in 1..Len(ms) : Block(ms, i) \in Seq(Msgs(N))
    BY BlockShape
  <2>. QED
    BY <1>1, <2>1
<1>3. Len(ms) \in Nat /\ DOMAIN ms = 1..Len(ms)
  OBVIOUS
<1>4. PICK F : F = FlattenSeq(B)
  OBVIOUS
<1>5. F \in Seq(Msgs(N)) /\ \E o \in [0..Len(ms) -> Nat] : Placed(B, Len(ms), F, o)
  BY <1>2, <1>3, <1>4, FlattenPlaces
<1>6. PICK o \in [0..Len(ms) -> Nat] : Placed(B, Len(ms), F, o)
  BY <1>5
<1>7. Repair(ms) = F
  BY <1>1, <1>3, <1>4 DEF Repair, Block, Missing
<1>8. \A k \in 1..Len(ms) : B[k] = Block(ms, k)
  BY <1>1
<1>9. RepairedTo(F, B, o, ms, N)
  BY <1>5, <1>6, <1>8 DEF RepairedTo
<1>. QED
  BY <1>7, <1>9

\* The repair puts results only behind their calls and before the ones that are there.
LEMMA RepairKeepsSafe ==
  ASSUME NEW N \in Nat, NEW ms \in Seq(Msgs(N)), NEW r, Safe(ms, r)
  PROVE  Safe(Repair(ms), r)
<1>1. PICK F : F = Repair(ms)
  OBVIOUS
<1>2. PICK B, o : RepairedTo(F, B, o, ms, N)
  BY <1>1, RepairPlaces
<1>3. /\ F \in Seq(Msgs(N)) /\ o \in [0..Len(ms) -> Nat] /\ Placed(B, Len(ms), F, o)
      /\ \A k \in 1..Len(ms) : B[k] = Block(ms, k)
  BY <1>2 DEF RepairedTo
<1>4. PICK p \in 1..Len(ms) : r \in ms[p].about /\ Stays(ms, p)
  BY DEF Safe
<1>5. CASE ms[p].kind # "result"
  <2>1. PICK q \in Nat : BlockOf(B[p], ms, p, q)
    BY <1>3, BlockShape
  <2>2. Len(B[p]) = q + 1 /\ B[p][1] = ms[p]
    BY <2>1 DEF BlockOf
  <2>3. 1 \in 1..Len(B[p])
    BY <2>2
  <2>4. o[p - 1] + 1 \in 1..Len(F) /\ F[o[p - 1] + 1] = ms[p]
    BY <1>3, <2>2, <2>3 DEF Placed
  <2>. QED
    BY <1>1, <1>4, <1>5, <2>4 DEF Safe, Stays
<1>6. CASE \E a \in 1..p - 1 : Run(ms, a, p) /\ (ms[a].kind = "calls" => OwnRun(ms, a, p))
  <2>1. PICK a \in 1..p - 1 : Run(ms, a, p) /\ (ms[a].kind = "calls" => OwnRun(ms, a, p))
    BY <1>6
  <2>2. PICK n : n = p - a
    OBVIOUS
  <2>3. a \in 1..Len(ms) /\ n \in Nat /\ n >= 1 /\ a + n = p /\ a + n <= Len(ms)
    BY <1>4, <2>1, <2>2
  <2>4. \A d \in 1..n : a + d \in a + 1..p /\ ms[a + d].kind = "result"
    <3>1. \A d \in 1..n : a + d \in a + 1..p
      BY <2>3
    <3>. QED
      BY <2>1, <3>1 DEF Run
  <2>5. PICK q \in Nat : BlockOf(B[a], ms, a, q)
    BY <1>3, <2>3, BlockShape
  <2>6. PICK b \in Nat : b = o[a - 1] + 1 /\ b >= 1
    <3>1. a - 1 \in 0..Len(ms)
      BY <2>3
    <3>2. o[a - 1] \in Nat
      BY <1>3, <3>1
    <3>. QED
      BY <3>2
  <2>7. ChainAt(F, B, ms, a, n, q, b)
    <3>1. \A d \in 1..n : ms[a + d].kind = "result"
      BY <2>4
    <3>. QED
      BY <1>3, <2>3, <2>5, <2>6, <3>1, ChainPlaced
  <2>8. /\ b + q + n <= Len(F) /\ F[b] = ms[a]
        /\ \A d \in 1..q : F[b + d] = B[a][d + 1]
        /\ \A e \in 1..n : F[b + q + e] = ms[a + e]
    BY <2>7 DEF ChainAt
  <2>9. PICK x \in Nat : x = b + q + n
    BY <2>3
  <2>10. b \in 1..x - 1 /\ x \in 1..Len(F) /\ F[x] = ms[p]
    <3>1. n \in 1..n /\ b >= 1
      BY <2>3, <2>6
    <3>2. F[b + q + n] = ms[a + n]
      BY <2>8, <3>1
    <3>3. b \in 1..x - 1 /\ x \in 1..Len(F)
      BY <1>3, <2>3, <2>8, <2>9, <3>1
    <3>. QED
      BY <2>3, <2>9, <3>2, <3>3
  <2> DEFINE New(k) == k - b \in 1..q /\ F[k] = B[a][(k - b) + 1]
             Old(k) == k - (b + q) \in 1..n /\ F[k] = ms[a + (k - (b + q))]
  <2>11. ASSUME NEW k \in b + 1..x PROVE New(k) \/ Old(k)
    <3>1. CASE k - b \in 1..q
      <4>1. b + (k - b) = k
        OBVIOUS
      <4>. QED
        BY <2>8, <3>1, <4>1
    <3>2. CASE ~(k - b \in 1..q)
      <4>1. k - (b + q) \in 1..n /\ b + q + (k - (b + q)) = k
        BY <2>3, <2>9, <3>2
      <4>. QED
        BY <2>8, <4>1
    <3>. QED
      BY <3>1, <3>2
  <2>12. ASSUME NEW k, New(k)
         PROVE  F[k].kind = "result" /\ F[k].of \in ms[a].calls \ Answered(ms)
    BY <2>5, <2>12 DEF BlockOf
  <2>13. ASSUME NEW k, Old(k)
         PROVE  F[k].kind = "result" /\ F[k].of \in Answered(ms)
    <3>1. PICK d \in 1..n : F[k] = ms[a + d]
      BY <2>13
    <3>2. ms[a + d].kind = "result" /\ a + d \in 1..Len(ms)
      <4>1. a + d \in 1..Len(ms)
        BY <1>4, <2>3
      <4>. QED
        BY <2>4, <4>1
    <3>3. DOMAIN ms = 1..Len(ms)
      OBVIOUS
    <3>. QED
      BY <3>1, <3>2, <3>3 DEF Answered
  <2>14. Run(F, b, x)
    <3>1. ms[a].kind # "result"
      BY <2>1 DEF Run
    <3>. QED
      BY <2>8, <2>11, <2>12, <2>13, <3>1 DEF Run
  <2>15. ASSUME OwnRun(ms, a, p) PROVE OwnRun(F, b, x)
    <3>1. ASSUME NEW e \in b + 1..x, NEW f \in b + 1..x, e < f PROVE F[e].of # F[f].of
      <4>1. (New(e) \/ Old(e)) /\ (New(f) \/ Old(f))
        BY <2>11
      <4>2. CASE New(e) /\ New(f)
        <5>1. e - b # f - b
          BY <3>1
        <5>. QED
          BY <2>5, <4>2, <5>1 DEF BlockOf
      <4>3. CASE Old(e) /\ Old(f)
        <5>1. PICK d, g : d = e - (b + q) /\ g = f - (b + q)
          OBVIOUS
        <5>2. d \in 1..n /\ g \in 1..n /\ F[e] = ms[a + d] /\ F[f] = ms[a + g]
          BY <4>3, <5>1
        <5>3. d < g
          BY <3>1, <5>1
        <5>4. a + d \in a + 1..p /\ a + g \in a + 1..p
          BY <2>4, <5>2
        <5>5. a + d < a + g
          <6>1. a \in Int /\ d \in Int /\ g \in Int
            BY <2>3, <5>2
          <6>. QED
            BY <5>3, <6>1
        <5>. QED
          BY <2>15, <5>2, <5>4, <5>5 DEF OwnRun
      <4>4. CASE (New(e) /\ Old(f)) \/ (Old(e) /\ New(f))
        BY <2>12, <2>13, <4>4
      <4>. QED
        BY <4>1, <4>2, <4>3, <4>4
    <3>2. F[x].of \in F[b].calls
      BY <2>8, <2>10, <2>15 DEF OwnRun
    <3>. QED
      BY <3>1, <3>2 DEF OwnRun
  <2>16. F[b].kind = "calls" => OwnRun(F, b, x)
    BY <2>1, <2>8, <2>15
  <2>17. Stays(F, x)
    BY <2>10, <2>14, <2>16 DEF Stays
  <2>. QED
    BY <1>1, <1>4, <2>10, <2>17 DEF Safe
<1>. QED
  BY <1>4, <1>5, <1>6 DEF Stays


-----------------------------------------------------------------------------
(* sanitize_working_messages keeps what is safe.                           *)

\* A sequence of results of calls of m, no two of the same call.
Distinct(s, m) ==
  \A e \in 1..Len(s) : /\ s[e].kind = "result" /\ s[e].of \in m.calls
                       /\ \A f \in 1..e - 1 : s[f].of # s[e].of

\* The first messages of s are those of u.
Heads(s, u) == Len(u) <= Len(s) /\ \A e \in 1..Len(u) : s[e] = u[e]

\* The results of the calls of i up to p, when p is one of them.
OwnUpTo(u, ms, i, p) ==
  /\ Distinct(u, ms[i]) /\ Heads(Own(ms, i), u)
  /\ Len(u) >= 1 /\ u[Len(u)] = ms[p]

\* A position is the last one or before it.
LEMMA LastOrBefore == \A l \in Nat : \A d \in 1..l + 1 : d \in 1..l \/ d = l + 1
  OBVIOUS

\* As long as no call has two results, the results collected so far are of different calls.
LEMMA OwnDistinct ==
  ASSUME NEW S, NEW ms \in Seq(S), NEW i \in 1..Len(ms), NEW p \in Nat, i + p <= Len(ms),
         OwnRun(ms, i, i + p), \A k \in i + 1..i + p : ms[k].kind = "result",
         NEW f, f[0] = <<>>, \A k \in 1..p : f[k] = OwnNext(ms, i, i + k, f[k - 1])
  PROVE  \A k \in 0..p : f[k] \in Seq(S) /\ Distinct(f[k], ms[i])
<1> DEFINE Good1(k) == /\ f[k] \in Seq(S) /\ Distinct(f[k], ms[i])
                       /\ \A d \in 1..Len(f[k]) : \E j \in i + 1..i + k : f[k][d] = ms[j]
           T == {k \in 0..p : Good1(k)}
<1>1. 0 \in T
  <2>1. f[0] \in Seq(S) /\ Len(f[0]) = 0 /\ 0 \in 0..p
    OBVIOUS
  <2>2. Good1(0)
    BY <2>1 DEF Distinct
  <2> HIDE DEF Good1
  <2>. QED
    BY <2>1, <2>2
<1>2. ASSUME NEW k \in 1..p, k - 1 \in T PROVE k \in T
  <2>1. PICK v, x : v = f[k - 1] /\ x = ms[i + k]
    OBVIOUS
  <2>2. /\ v \in Seq(S) /\ Distinct(v, ms[i])
        /\ \A d \in 1..Len(v) : \E j \in i + 1..i + (k - 1) : v[d] = ms[j]
    BY <1>2, <2>1
  <2>3. i + k \in 1..Len(ms) /\ i + k \in i + 1..i + k /\ i + 1..i + (k - 1) \subseteq i + 1..i + k /\ k \in 0..p
    OBVIOUS
  <2>4. x \in S /\ x.kind = "result"
    <3>1. i + k \in i + 1..i + p
      OBVIOUS
    <3>. QED
      BY <2>1, <2>3, <3>1
  <2> HIDE DEF T
  <2>5. CASE x.of \in ms[i].calls
    <3>1. PICK u : u = Append(v, x)
      OBVIOUS
    <3>2. f[k] = u
      BY <2>1, <2>5, <3>1 DEF OwnNext
    <3>3. PICK l \in Nat : l = Len(v)
      BY <2>2
    <3>4. u \in Seq(S) /\ Len(u) = l + 1 /\ u[l + 1] = x /\ \A d \in 1..l : u[d] = v[d]
      BY <2>2, <2>4, <3>1, <3>3
    <3>5. ASSUME NEW d \in 1..l PROVE \E j \in i + 1..i + (k - 1) : u[d] = ms[j]
      BY <2>2, <3>3, <3>4
    <3>6. ASSUME NEW d \in 1..l + 1 PROVE \E j \in i + 1..i + k : u[d] = ms[j]
      <4>1. CASE d \in 1..l
        <5>1. PICK j \in i + 1..i + (k - 1) : u[d] = ms[j]
          BY <3>5, <4>1
        <5>. QED
          BY <2>3, <5>1
      <4>2. CASE d = l + 1
        BY <2>1, <2>3, <3>4, <4>2
      <4>. QED
        BY <4>1, <4>2, LastOrBefore, Zenon
    <3>7. ASSUME NEW d \in 1..l PROVE u[d].of # x.of
      <4>1. PICK j \in i + 1..i + (k - 1) : u[d] = ms[j]
        BY <3>5
      <4>2. j \in i + 1..i + p /\ i + k \in i + 1..i + p /\ j < i + k
        OBVIOUS
      <4>3. ms[j].of # ms[i + k].of
        BY <4>2 DEF OwnRun
      <4>. QED
        BY <2>1, <4>1, <4>3
    <3>8. ASSUME NEW e \in 1..l + 1
          PROVE  /\ u[e].kind = "result" /\ u[e].of \in ms[i].calls
                 /\ \A d \in 1..e - 1 : u[d].of # u[e].of
      <4>1. CASE e \in 1..l
        <5>1. u[e] = v[e] /\ \A d \in 1..e - 1 : u[d] = v[d]
          BY <3>4, <4>1
        <5>. QED
          BY <2>2, <3>3, <4>1, <5>1 DEF Distinct
      <4>2. CASE e = l + 1
        <5>1. e - 1 = l
          BY <4>2
        <5>. QED
          BY <2>4, <2>5, <3>4, <3>7, <4>2, <5>1
      <4>3. e \in 1..l \/ e = l + 1
        OBVIOUS
      <4>. QED
        BY <4>1, <4>2, <4>3
    <3>9. Good1(k)
      BY <3>2, <3>4, <3>6, <3>8 DEF Distinct
    <3> HIDE DEF Good1
    <3>. QED
      BY <2>3, <3>9 DEF T
  <2>6. CASE x.of \notin ms[i].calls
    <3>1. f[k] = v
      BY <2>1, <2>6 DEF OwnNext
    <3>2. Good1(k)
      BY <2>2, <2>3, <3>1
    <3> HIDE DEF Good1
    <3>. QED
      BY <2>3, <3>2 DEF T
  <2>. QED
    BY <2>5, <2>6
<1> HIDE DEF T
<1>3. \A k \in 0..p : k \in T
  BY <1>1, <1>2, CountsUp
<1>. QED
  BY <1>3 DEF T

\* What is collected stays at its place.
LEMMA OwnGrows ==
  ASSUME NEW S, NEW ms \in Seq(S), NEW i \in 1..Len(ms), NEW q \in Nat, NEW w \in Nat, q + w <= Len(ms),
         NEW f, f[q] \in Seq(S), \A k \in 1..w : i + (q + k) \in 1..Len(ms) /\ f[q + k] = OwnNext(ms, i, i + (q + k), f[q + (k - 1)])
  PROVE  Heads(f[q + w], f[q])
<1> DEFINE T == {k \in 0..w : f[q + k] \in Seq(S) /\ Heads(f[q + k], f[q])}
<1>1. 0 \in T
  <2>1. q + 0 = q /\ 0 \in 0..w
    OBVIOUS
  <2>2. Heads(f[q], f[q])
    BY DEF Heads
  <2>. QED
    BY <2>1, <2>2
<1>2. ASSUME NEW k \in 1..w, k - 1 \in T PROVE k \in T
  <2>1. PICK v, x, u : v = f[q + (k - 1)] /\ x = ms[i + (q + k)] /\ u = f[q]
    OBVIOUS
  <2>2. v \in Seq(S) /\ Heads(v, u) /\ u \in Seq(S)
    BY <1>2, <2>1
  <2>3. k \in 0..w /\ x \in S
    BY <2>1
  <2>4. f[q + k] = IF x.of \in ms[i].calls THEN Append(v, x) ELSE v
    BY <2>1 DEF OwnNext
  <2>5. PICK y : y = f[q + k]
    OBVIOUS
  <2>6. y \in Seq(S) /\ Len(v) <= Len(y) /\ \A e \in 1..Len(v) : y[e] = v[e]
    <3>1. CASE y = v
      BY <2>2, <3>1
    <3>2. CASE y = Append(v, x)
      BY <2>2, <2>3, <3>2
    <3>. QED
      BY <2>4, <2>5, <3>1, <3>2
  <2>7. Len(v) \in Nat /\ Len(y) \in Nat /\ Len(u) \in Nat
    BY <2>2, <2>6
  <2>8. Heads(y, u)
    BY <2>2, <2>6, <2>7 DEF Heads
  <2>. QED
    BY <2>1, <2>3, <2>5, <2>6, <2>8
<1> HIDE DEF T
<1>3. \A k \in 0..w : k \in T
  BY <1>1, <1>2, CountsUp
<1>4. w \in 0..w
  OBVIOUS
<1>. QED
  BY <1>3, <1>4 DEF T

\* So a result behind its calls, with no call answered twice, is one of those that are kept.
LEMMA OwnHolds ==
  ASSUME NEW S, NEW ms \in Seq(S), NEW i \in 1..Len(ms), NEW p \in i + 1..RunEnd(ms, i) - 1,
         OwnRun(ms, i, p)
  PROVE  \E u \in Seq(S) : OwnUpTo(u, ms, i, p)
<1>1. PICK e, n : e = RunEnd(ms, i) /\ n = Len(ms) /\ n \in Nat
  OBVIOUS
<1>2. e \in i + 1..Len(ms) + 1 /\ \A k \in i + 1..e - 1 : ms[k].kind = "result"
  BY <1>1, RunEnds
<1>3. PICK w \in Nat : w = (e - 1) - i
  BY <1>2
<1>4. \E f : OwnBy(f, ms, i, w)
  BY <1>1, <1>3, OwnSteps
<1>5. PICK f : OwnBy(f, ms, i, w)
  BY <1>4
<1>6. f[0] = <<>> /\ (\A k \in 1..w : f[k] = OwnNext(ms, i, i + k, f[k - 1])) /\ Own(ms, i) = f[w]
  BY <1>5 DEF OwnBy
<1>7. PICK q \in Nat : q = p - i
  BY <1>1
<1>8. q >= 1 /\ q <= w /\ i + q = p /\ i + w = e - 1 /\ i + w <= n
  BY <1>1, <1>2, <1>3, <1>7
<1>9. \A k \in i + 1..i + q : ms[k].kind = "result"
  <2>1. \A k \in i + 1..i + q : k \in i + 1..e - 1
    BY <1>2, <1>8
  <2>. QED
    BY <1>2, <2>1
<1>10. \A k \in 1..q : f[k] = OwnNext(ms, i, i + k, f[k - 1])
  <2>1. \A k \in 1..q : k \in 1..w
    BY <1>8
  <2>. QED
    BY <1>6, <2>1
<1>11. \A k \in 0..q : f[k] \in Seq(S) /\ Distinct(f[k], ms[i])
  <2>1. i + q <= Len(ms) /\ OwnRun(ms, i, i + q)
    BY <1>1, <1>8
  <2>. QED
    BY <1>6, <1>9, <1>10, <2>1, OwnDistinct
<1>12. PICK u : u = f[q]
  OBVIOUS
<1>13. u \in Seq(S) /\ Distinct(u, ms[i])
  <2>1. q \in 0..q
    OBVIOUS
  <2>. QED
    BY <1>11, <1>12, <2>1
<1>14. Len(u) >= 1 /\ u[Len(u)] = ms[p]
  <2>1. PICK v : v = f[q - 1]
    OBVIOUS
  <2>2. v \in Seq(S)
    <3>1. q - 1 \in 0..q
      BY <1>8
    <3>. QED
      BY <1>11, <2>1, <3>1
  <2>3. q \in 1..q
    BY <1>8
  <2>4. u = OwnNext(ms, i, i + q, v)
    BY <1>10, <1>12, <2>1, <2>3
  <2>5. ms[p].of \in ms[i].calls
    BY DEF OwnRun
  <2>6. u = Append(v, ms[p])
    BY <1>8, <2>4, <2>5 DEF OwnNext
  <2>7. Len(v) \in Nat /\ Len(u) = Len(v) + 1 /\ u[Len(v) + 1] = ms[p]
    BY <2>2, <2>6
  <2>. QED
    BY <2>7
<1>15. PICK x \in Nat : x = w - q
  BY <1>8
<1>16. \A k \in 1..x : i + (q + k) \in 1..Len(ms) /\ f[q + k] = OwnNext(ms, i, i + (q + k), f[q + (k - 1)])
  <2>1. ASSUME NEW k \in 1..x PROVE q + k \in 1..w /\ (q + k) - 1 = q + (k - 1) /\ i + (q + k) \in 1..Len(ms)
    BY <1>1, <1>8, <1>15
  <2>. QED
    BY <1>6, <2>1
<1>17. q + x = w /\ q + x <= Len(ms)
  BY <1>1, <1>8, <1>15
<1>18. Heads(f[q + x], f[q])
  BY <1>12, <1>13, <1>16, <1>17, OwnGrows
<1>19. Heads(Own(ms, i), u)
  BY <1>6, <1>12, <1>17, <1>18
<1>20. OwnUpTo(u, ms, i, p)
  BY <1>13, <1>14, <1>19 DEF OwnUpTo
<1>. QED
  BY <1>13, <1>20

\* No more results of different calls than calls.
LEMMA DistinctFew ==
  ASSUME NEW S, NEW u \in Seq(S), NEW m, Distinct(u, m), IsFiniteSet(m.calls)
  PROVE  Len(u) <= Cardinality(m.calls)
<1>1. PICK n \in Nat : n = Len(u)
  OBVIOUS
<1>2. PICK C : C = m.calls
  OBVIOUS
<1>3. PICK g : g = [d \in 1..n |-> u[d].of]
  OBVIOUS
<1>4. g \in [1..n -> C]
  BY <1>1, <1>2, <1>3 DEF Distinct
<1>5. ASSUME NEW d \in 1..n, NEW e \in 1..n, d # e PROVE g[d] # g[e]
  <2>1. CASE e < d
    <3>1. e \in 1..d - 1
      BY <2>1
    <3>. QED
      BY <1>1, <1>3, <3>1 DEF Distinct
  <2>2. CASE d < e
    <3>1. d \in 1..e - 1
      BY <2>2
    <3>. QED
      BY <1>1, <1>3, <3>1 DEF Distinct
  <2>3. e < d \/ d < e
    BY <1>5
  <2>. QED
    BY <2>1, <2>2, <2>3
<1>6. g \in Injection(1..n, C)
  BY <1>4, <1>5 DEF Injection, IsInjective
<1>7. Cardinality(1..n) <= Cardinality(C)
  BY <1>2, <1>6, FS_Injection
<1>8. Cardinality(1..n) = n
  <2>1. Cardinality(1..n) = IF 1 > n THEN 0 ELSE n - 1 + 1
    BY FS_Interval
  <2>. QED
    BY <2>1
<1>. QED
  BY <1>1, <1>2, <1>7, <1>8

\* In calls with their results every result is of a call of its own.
LEMMA SafeInChain ==
  ASSUME NEW S, NEW m \in S, m.kind = "calls", NEW own \in Seq(S), NEW q \in Nat, q <= Len(own),
         NEW u \in Seq(S), Distinct(u, m), Heads(own, u), Len(u) >= 1, Len(u) <= q,
         NEW r \in u[Len(u)].about
  PROVE  Safe(<<m>> \o SubSeq(own, 1, q), r)
<1>1. PICK s : s = <<m>> \o SubSeq(own, 1, q)
  OBVIOUS
<1>2. s \in Seq(S) /\ Len(s) = q + 1 /\ s[1] = m /\ \A d \in 1..q : s[1 + d] = own[d]
  BY <1>1, ChainLaid
<1>3. PICK n \in Nat : n = Len(u)
  OBVIOUS
<1>4. n >= 1 /\ n <= q /\ n \in 1..n /\ \A d \in 1..n : d \in 1..q
  BY <1>3
<1>5. \A d \in 1..n : s[1 + d] = u[d]
  BY <1>2, <1>3, <1>4 DEF Heads
<1>6. PICK p \in Nat : p = 1 + n
  OBVIOUS
<1>7. 1 \in 1..p - 1 /\ p \in 1..Len(s)
  BY <1>2, <1>4, <1>6
<1>8. \A k \in 1 + 1..p : k - 1 \in 1..n /\ s[k] = u[k - 1]
  <2>1. ASSUME NEW k \in 1 + 1..p PROVE k - 1 \in 1..n /\ 1 + (k - 1) = k
    BY <1>6
  <2>. QED
    BY <1>5, <2>1
<1>9. Run(s, 1, p)
  <2>1. s[1].kind # "result"
    BY <1>2
  <2>2. \A k \in 1 + 1..p : s[k].kind = "result"
    BY <1>3, <1>8 DEF Distinct
  <2>. QED
    BY <2>1, <2>2 DEF Run
<1>10. s[p] = u[n]
  BY <1>4, <1>5, <1>6
<1>11. OwnRun(s, 1, p)
  <2>1. s[p].of \in s[1].calls
    BY <1>2, <1>3, <1>4, <1>10 DEF Distinct
  <2>2. ASSUME NEW e \in 1 + 1..p, NEW f \in 1 + 1..p, e < f PROVE s[e].of # s[f].of
    <3>1. e - 1 \in 1..(f - 1) - 1
      BY <2>2
    <3>2. f - 1 \in 1..Len(u) /\ s[e] = u[e - 1] /\ s[f] = u[f - 1]
      BY <1>3, <1>8
    <3>. QED
      BY <3>1, <3>2 DEF Distinct
  <2>. QED
    BY <2>1, <2>2 DEF OwnRun
<1>12. Stays(s, p)
  BY <1>7, <1>9, <1>11 DEF Stays
<1>. QED
  BY <1>1, <1>3, <1>7, <1>10, <1>12 DEF Safe

\* What a piece stands for: its first message and the results of its calls.
LEMMA PieceKeepsSafe ==
  ASSUME NEW N \in Nat, NEW ms \in Seq(Msgs(N)), NEW i \in 1..Len(ms), NEW p \in 1..Len(ms),
         \/ p = i
         \/ ms[i].kind = "calls" /\ p \in i + 1..RunEnd(ms, i) - 1 /\ OwnRun(ms, i, p),
         NEW r \in ms[p].about
  PROVE  Safe(Piece(ms, i), r)
<1>1. PICK own, m : own = Own(ms, i) /\ m = ms[i]
  OBVIOUS
<1>2. own \in Seq(Msgs(N)) /\ m \in Msgs(N)
  BY <1>1, OwnResults
<1>3. PICK q : q = Cardinality(m.calls)
  OBVIOUS
<1>4. q \in Nat /\ IsFiniteSet(m.calls)
  <2>1. IsFiniteSet(m.calls)
    BY <1>2 DEF Msgs
  <2>. QED
    BY <1>3, <2>1, FS_CardinalityType
<1>5. ASSUME NEW X, r \in X PROVE Safe(<<Text(X)>>, r)
  <2>1. Text(X).kind # "result" /\ r \in Text(X).about
    BY <1>5 DEF Text
  <2>. QED
    BY <2>1, SafeAlone
<1>6. CASE m.kind # "calls"
  <2>1. p = i
    BY <1>1, <1>6
  <2>2. CASE m.kind = "result"
    <3>1. Piece(ms, i) = <<Text(m.about)>>
      BY <1>1, <2>2 DEF Piece
    <3>. QED
      BY <1>1, <1>5, <2>1, <3>1
  <2>3. CASE m.kind # "result"
    <3>1. Piece(ms, i) = <<m>>
      BY <1>1, <1>6, <2>3 DEF Piece
    <3>. QED
      BY <1>1, <2>1, <2>3, <3>1, SafeAlone
  <2>. QED
    BY <2>2, <2>3
<1>7. CASE m.kind = "calls" /\ p = i
  <2>1. r \in m.about
    BY <1>1, <1>7
  <2>2. Safe(<<m>>, r)
    BY <1>7, <2>1, SafeAlone
  <2>3. CASE Len(own) >= q
    <3>1. Piece(ms, i) = <<m>> \o SubSeq(own, 1, q)
      BY <1>1, <1>3, <1>7, <2>3 DEF Piece, ChainPiece
    <3>2. SubSeq(own, 1, q) \in Seq(Msgs(N)) /\ <<m>> \in Seq(Msgs(N))
      <4>1. \A x \in 1..q : x \in 1..Len(own)
        BY <1>2, <1>4, <2>3
      <4>. QED
        BY <1>2, <1>4, <4>1
    <3>3. PICK a, b : a = <<m>> /\ b = SubSeq(own, 1, q)
      OBVIOUS
    <3>4. a \in Seq(Msgs(N)) /\ b \in Seq(Msgs(N)) /\ (Safe(a, r) \/ Safe(b, r))
      BY <2>2, <3>2, <3>3
    <3>5. Safe(a \o b, r)
      BY <3>4, SafeJoined
    <3>. QED
      BY <3>1, <3>3, <3>5
  <2>4. CASE ~(Len(own) >= q) /\ own # <<>>
    <3>1. Piece(ms, i) = <<Text(m.about \cup About(own))>>
      BY <1>1, <1>3, <1>7, <2>4 DEF Piece, ChainPiece
    <3>. QED
      BY <1>5, <2>1, <3>1
  <2>5. CASE ~(Len(own) >= q) /\ own = <<>>
    <3>1. Piece(ms, i) = <<m>>
      BY <1>1, <1>3, <1>7, <2>5 DEF Piece, ChainPiece
    <3>. QED
      BY <2>2, <3>1
  <2>. QED
    BY <2>3, <2>4, <2>5
<1>8. CASE m.kind = "calls" /\ p # i
  <2>1. p \in i + 1..RunEnd(ms, i) - 1 /\ OwnRun(ms, i, p)
    BY <1>8
  <2>2. PICK u \in Seq(Msgs(N)) : OwnUpTo(u, ms, i, p)
    BY <2>1, OwnHolds
  <2>3. Distinct(u, m) /\ Heads(own, u) /\ Len(u) >= 1 /\ u[Len(u)] = ms[p]
    BY <1>1, <2>2 DEF OwnUpTo
  <2>4. Len(u) <= q
    BY <1>3, <1>4, <2>3, DistinctFew
  <2>5. Len(u) \in Nat /\ Len(own) \in Nat /\ Len(u) <= Len(own) /\ own[Len(u)] = u[Len(u)]
    <3>1. Len(u) \in 1..Len(u)
      BY <2>3
    <3>. QED
      BY <1>2, <2>3, <3>1 DEF Heads
  <2>6. CASE Len(own) >= q
    <3>1. Piece(ms, i) = <<m>> \o SubSeq(own, 1, q)
      BY <1>1, <1>3, <1>8, <2>6 DEF Piece, ChainPiece
    <3>2. r \in u[Len(u)].about /\ q <= Len(own)
      BY <1>4, <2>3, <2>5, <2>6
    <3>3. Safe(<<m>> \o SubSeq(own, 1, q), r)
      BY <1>2, <1>4, <1>8, <2>3, <2>4, <3>2, SafeInChain
    <3>. QED
      BY <3>1, <3>3
  <2>7. CASE ~(Len(own) >= q)
    <3>1. own # <<>> /\ Len(u) \in DOMAIN own
      BY <1>2, <2>3, <2>5
    <3>2. Piece(ms, i) = <<Text(m.about \cup About(own))>>
      BY <1>1, <1>3, <1>8, <2>7, <3>1 DEF Piece, ChainPiece
    <3>3. r \in About(own)
      BY <2>3, <2>5, <3>1 DEF About
    <3>. QED
      BY <1>5, <3>2, <3>3
  <2>. QED
    BY <2>6, <2>7
<1>. QED
  BY <1>6, <1>7, <1>8

\* From message i on, the message at p is kept: no calls before i are in question.
Kept(ms, i, p, r) ==
  /\ p \in i..Len(ms) /\ r \in ms[p].about
  /\ \/ ms[p].kind # "result"
     \/ \E a \in 1..p - 1 : Run(ms, a, p) /\ (ms[a].kind = "calls" => a >= i /\ OwnRun(ms, a, p))

\* A message that is kept is in the piece of message i or kept behind it.
LEMMA KeptHereOrLater ==
  ASSUME NEW N \in Nat, NEW ms \in Seq(Msgs(N)), NEW i \in 1..Len(ms), NEW p, NEW r, Kept(ms, i, p, r)
  PROVE  Safe(Piece(ms, i), r) \/ Kept(ms, NextPiece(ms, i), p, r)
<1>1. PICK x \in Nat : x = NextPiece(ms, i)
  BY NextIsLater
<1>2. x \in i + 1..Len(ms) + 1
  BY <1>1, NextIsLater
<1>3. p \in 1..Len(ms) /\ p >= i /\ r \in ms[p].about /\ i \in Nat /\ p \in Nat
  BY DEF Kept
<1>4. CASE p = i
  BY <1>3, <1>4, PieceKeepsSafe
<1>5. CASE p # i /\ p < x
  <2>1. x # i + 1
    BY <1>2, <1>3, <1>5
  <2>2. ms[i].kind = "calls" /\ x = RunEnd(ms, i)
    BY <1>1, <2>1 DEF NextPiece
  <2>3. p \in i + 1..RunEnd(ms, i) - 1
    BY <1>2, <1>3, <1>5, <2>2
  <2>4. \A k \in i + 1..RunEnd(ms, i) - 1 : ms[k].kind = "result"
    BY RunEnds
  <2>5. PICK a \in 1..p - 1 : Run(ms, a, p) /\ (ms[a].kind = "calls" => a >= i /\ OwnRun(ms, a, p))
    BY <2>3, <2>4 DEF Kept
  <2>6. a = i
    <3>1. CASE a < i
      <4>1. i \in a + 1..p
        BY <1>3, <3>1
      <4>. QED
        BY <2>2, <2>5, <4>1 DEF Run
    <3>2. CASE a > i
      <4>1. a \in i + 1..RunEnd(ms, i) - 1
        BY <1>2, <2>2, <2>3, <3>2
      <4>. QED
        BY <2>4, <2>5, <4>1 DEF Run
    <3>. QED
      BY <3>1, <3>2
  <2>7. OwnRun(ms, i, p)
    BY <2>2, <2>5, <2>6
  <2>. QED
    BY <1>3, <2>2, <2>3, <2>7, PieceKeepsSafe
<1>6. CASE p >= x
  <2>1. p \in x..Len(ms)
    BY <1>2, <1>3, <1>6
  <2>2. CASE ms[p].kind # "result"
    BY <1>1, <1>3, <2>1, <2>2 DEF Kept
  <2>3. CASE \E a \in 1..p - 1 : Run(ms, a, p) /\ (ms[a].kind = "calls" => a >= i /\ OwnRun(ms, a, p))
    <3>1. PICK a \in 1..p - 1 : Run(ms, a, p) /\ (ms[a].kind = "calls" => a >= i /\ OwnRun(ms, a, p))
      BY <2>3
    <3>2. ASSUME ms[a].kind = "calls" PROVE a >= x
      <4>1. SUFFICES ASSUME a < x PROVE FALSE
        BY <1>2
      <4>2. a >= i
        BY <3>1, <3>2
      <4>3. CASE a = i
        <5>1. x = RunEnd(ms, i)
          BY <1>1, <3>2, <4>3 DEF NextPiece
        <5>2. x <= Len(ms) /\ x \in a + 1..p
          BY <1>2, <2>1, <4>3
        <5>3. ms[x].kind # "result"
          BY <5>1, <5>2, RunEnds
        <5>. QED
          BY <3>1, <5>2, <5>3 DEF Run
      <4>4. CASE a # i
        <5>1. x # i + 1
          BY <1>2, <4>1, <4>2, <4>4
        <5>2. x = RunEnd(ms, i)
          BY <1>1, <5>1 DEF NextPiece
        <5>3. a \in i + 1..RunEnd(ms, i) - 1
          BY <1>2, <4>1, <4>2, <4>4, <5>2
        <5>4. ms[a].kind = "result"
          BY <5>3, RunEnds
        <5>. QED
          BY <3>1, <5>4 DEF Run
      <4>. QED
        BY <4>3, <4>4
    <3>. QED
      BY <1>1, <1>3, <2>1, <3>1, <3>2 DEF Kept
  <2>. QED
    BY <2>2, <2>3 DEF Kept
<1>. QED
  BY <1>2, <1>3, <1>4, <1>5, <1>6

\* So what is safe in a window is safe in the sanitized one.
LEMMA SanitizeKeepsSafe ==
  ASSUME NEW N \in Nat, NEW ms \in Seq(Msgs(N)), NEW r, Safe(ms, r)
  PROVE  Safe(Sanitize(ms), r)
<1>1. PICK n \in Nat : n = Len(ms)
  OBVIOUS
<1>2. PICK x, P, next : SanitizedBy(x, P, next, ms)
  BY SanitizedIs
<1>3. /\ \A i \in 1..n : P[i] = Piece(ms, i) /\ next[i] = NextPiece(ms, i)
      /\ RestOf(x, n, P, next) /\ Sanitize(ms) = x[1]
  BY <1>1, <1>2 DEF SanitizedBy
<1>4. \A i \in 1..n : next[i] \in i + 1..n + 1
  BY <1>1, <1>3, NextIsLater
<1>5. \A i \in 1..n : P[i] \in Seq(Msgs(N))
  <2>1. ASSUME NEW i \in 1..n PROVE Piece(ms, i) \in Seq(Msgs(N))
    BY <1>1, PieceIsSound DEF Sound
  <2>. QED
    BY <1>3, <2>1
<1> DEFINE Keeps(i) == x[i] \in Seq(Msgs(N)) /\ \A p : Kept(ms, i, p, r) => Safe(x[i], r)
           T == {k \in 0..n : \A i \in (n + 1) - k..n + 1 : Keeps(i)}
<1>6. 0 \in T
  <2>1. x[n + 1] = <<>>
    BY <1>3 DEF RestOf
  <2>2. x[n + 1] \in Seq(Msgs(N))
    BY <2>1
  <2>3. \A p : ~Kept(ms, n + 1, p, r)
    BY <1>1 DEF Kept
  <2>4. Keeps(n + 1)
    BY <2>2, <2>3
  <2> HIDE DEF Keeps
  <2>5. \A i \in (n + 1) - 0..n + 1 : i = n + 1
    OBVIOUS
  <2>6. 0 \in 0..n
    OBVIOUS
  <2>. QED
    BY <2>4, <2>5, <2>6
<1>7. ASSUME NEW k \in 1..n, k - 1 \in T PROVE k \in T
  <2>1. PICK i \in 1..n : i = (n + 1) - k
    OBVIOUS
  <2>2. PICK y : y = next[i]
    OBVIOUS
  <2>3. y \in (n + 1) - (k - 1)..n + 1 /\ y \in i + 1..n + 1
    BY <1>4, <2>1, <2>2
  <2>4. Keeps(y)
    BY <1>7, <2>3
  <2>5. x[i] = P[i] \o x[y]
    BY <1>3, <2>2 DEF RestOf
  <2>6. P[i] \in Seq(Msgs(N)) /\ x[y] \in Seq(Msgs(N))
    BY <1>5, <2>4
  <2>7. ASSUME NEW p, Kept(ms, i, p, r) PROVE Safe(x[i], r)
    <3>1. Safe(Piece(ms, i), r) \/ Kept(ms, NextPiece(ms, i), p, r)
      BY <1>1, <2>7, KeptHereOrLater
    <3>2. PICK a, b : a = P[i] /\ b = x[y]
      OBVIOUS
    <3>3. Safe(a, r) \/ Safe(b, r)
      BY <1>3, <2>2, <2>4, <3>1, <3>2
    <3>4. Safe(a \o b, r)
      BY <2>6, <3>2, <3>3, SafeJoined
    <3>. QED
      BY <2>5, <3>2, <3>4
  <2>8. Keeps(i)
    BY <2>5, <2>6, <2>7
  <2>9. \A j \in (n + 1) - (k - 1)..n + 1 : Keeps(j)
    BY <1>7
  <2> HIDE DEF Keeps
  <2>10. \A j \in (n + 1) - k..n + 1 : j = i \/ j \in (n + 1) - (k - 1)..n + 1
    BY <2>1
  <2>11. k \in 0..n
    OBVIOUS
  <2>. QED
    BY <2>8, <2>9, <2>10, <2>11
<1> HIDE DEF T
<1>8. \A k \in 0..n : k \in T
  BY <1>6, <1>7, CountsUp
<1>9. n \in 0..n /\ 1 \in (n + 1) - n..n + 1
  OBVIOUS
<1>10. Keeps(1)
  BY <1>8, <1>9 DEF T
<1>11. PICK p \in 1..Len(ms) : r \in ms[p].about /\ Stays(ms, p)
  BY DEF Safe
<1>12. Kept(ms, 1, p, r)
  BY <1>11 DEF Kept, Stays
<1>. QED
  BY <1>3, <1>10, <1>12

-----------------------------------------------------------------------------
(* What the window shows of the ledger.                                    *)

\* A question stands between two rows, or nothing but results and replies.
UserBetween(s, i, j) == \E k \in i + 1..j - 1 : s[k].kind = "user"
Quiet(s, i, j) == \A k \in i + 1..j - 1 : s[k].kind \in {"result", "reply"}

\* A result that came after the next question; what comes in time comes in the turn of its calls.
Came(s, j) == \E i \in 1..j - 1 : s[j].of \in s[i].calls /\ UserBetween(s, i, j)
InTime(s) ==
  \A j \in 1..Len(s) : s[j].kind = "result" =>
    \A i \in 1..j - 1 : s[j].of \in s[i].calls => UserBetween(s, i, j) \/ Quiet(s, i, j)

\* Every row stands for itself.
Selfs(s) == \A i \in 1..Len(s) : s[i].about = {i}

\* c is a call of the last message of the window.
LastCalls(w, c) == w # <<>> /\ w[Len(w)].kind = "calls" /\ c \in w[Len(w)].calls

\* A call a worker still has is one of a turn that is over, or the last thing of the window.
LateAre(s, w, late, at) ==
  \A c \in late : \A i \in 1..Len(s) : c \in s[i].calls =>
    \/ UserBetween(s, i, Len(s) + 1)
    \/ at = "idle" /\ Quiet(s, i, Len(s) + 1) /\ LastCalls(w, c)

\* Behind the calls the tools node works on there are only results and replies.
OpenAre(s, w, at) ==
  at = "tools" =>
    \A c \in w[Len(w)].calls : \A i \in 1..Len(s) : c \in s[i].calls => Quiet(s, i, Len(s) + 1)

\* A row the checkpoint does not cover is a result that came late, or one of the last calls.
BehindAre(s, w, k, at) ==
  \A j \in k + 1..Len(s) : Came(s, j) \/ (at = "idle" /\ LastCalls(w, s[j].of))

\* All that is needed of the ledger to know what a window shows.
Told(s, w, k, late, at) ==
  /\ InTime(s)
  /\ Selfs(s)
  /\ LateAre(s, w, late, at)
  /\ OpenAre(s, w, at)
  /\ BehindAre(s, w, k, at)

\* The window shows every row up to k for good.
ShownRow(s, w, i) == s[i].kind = "reply" \/ Came(s, i) \/ Safe(w, i)
Shown(s, w, k) == \A i \in 1..k : ShownRow(s, w, i)

\* g is s with more rows.
Longer(g, s, n, l) ==
  n \in Nat /\ l \in Nat /\ n = Len(s) /\ l = Len(g) /\ n <= l /\ \A p \in 1..n : g[p] = s[p]

\* What is between two rows stays between them.
LEMMA BetweenStays ==
  ASSUME NEW g, NEW s, NEW n, NEW l, Longer(g, s, n, l), NEW i \in 1..n, NEW j \in 1..n + 1
  PROVE  /\ UserBetween(s, i, j) => \A x \in j..l + 1 : UserBetween(g, i, x)
         /\ Quiet(s, i, j) => Quiet(g, i, j)
<1>1. n \in Nat /\ l \in Nat /\ n <= l /\ \A p \in 1..n : g[p] = s[p]
  BY DEF Longer
<1>2. \A k \in i + 1..j - 1 : g[k] = s[k]
  <2>1. \A k \in i + 1..j - 1 : k \in 1..n
    BY <1>1
  <2>. QED
    BY <1>1, <2>1
<1>3. ASSUME UserBetween(s, i, j), NEW x \in j..l + 1 PROVE UserBetween(g, i, x)
  <2>1. PICK k \in i + 1..j - 1 : s[k].kind = "user"
    BY <1>3 DEF UserBetween
  <2>2. k \in i + 1..x - 1
    BY <1>1, <1>3
  <2>. QED
    BY <1>2, <2>1, <2>2 DEF UserBetween
<1>4. ASSUME Quiet(s, i, j) PROVE Quiet(g, i, j)
  BY <1>2, <1>4 DEF Quiet
<1>. QED
  BY <1>3, <1>4

\* A result that came late did.
LEMMA CameStays ==
  ASSUME NEW g, NEW s, NEW n, NEW l, Longer(g, s, n, l), NEW j \in 1..n, Came(s, j)
  PROVE  Came(g, j)
<1>1. n \in Nat /\ l \in Nat /\ n <= l /\ \A p \in 1..n : g[p] = s[p]
  BY DEF Longer
<1>2. PICK i \in 1..j - 1 : s[j].of \in s[i].calls /\ UserBetween(s, i, j)
  BY DEF Came
<1>3. i \in 1..n /\ j \in 1..n + 1 /\ j \in j..l + 1
  BY <1>1
<1>4. UserBetween(g, i, j)
  BY <1>2, <1>3, BetweenStays
<1>. QED
  BY <1>1, <1>2, <1>3, <1>4 DEF Came

\* The rows that are added.
LEMMA LedgerMore ==
  ASSUME NEW g, NEW s, NEW n, NEW l, Longer(g, s, n, l), InTime(s), Selfs(s),
         \A j \in n + 1..l :
           /\ g[j].about = {j}
           /\ g[j].kind = "result" =>
                \A i \in 1..j - 1 : g[j].of \in g[i].calls => UserBetween(g, i, j) \/ Quiet(g, i, j)
  PROVE  InTime(g) /\ Selfs(g)
<1>1. n \in Nat /\ l \in Nat /\ n <= l /\ n = Len(s) /\ l = Len(g) /\ \A p \in 1..n : g[p] = s[p]
  BY DEF Longer
<1>2. ASSUME NEW j \in 1..l PROVE j \in 1..n \/ j \in n + 1..l
  BY <1>1
<1>3. ASSUME NEW j \in 1..n, g[j].kind = "result", NEW i \in 1..j - 1, g[j].of \in g[i].calls
      PROVE  UserBetween(g, i, j) \/ Quiet(g, i, j)
  <2>1. i \in 1..n /\ j \in 1..n + 1 /\ j \in j..l + 1
    BY <1>1, <1>3
  <2>2. s[j].kind = "result" /\ s[j].of \in s[i].calls
    BY <1>1, <1>3, <2>1
  <2>3. UserBetween(s, i, j) \/ Quiet(s, i, j)
    BY <1>1, <1>3, <2>2 DEF InTime
  <2>. QED
    BY <2>1, <2>3, BetweenStays
<1>4. InTime(g)
  BY <1>1, <1>2, <1>3 DEF InTime
<1>5. Selfs(g)
  <2>1. ASSUME NEW j \in 1..n PROVE g[j].about = {j}
    BY <1>1 DEF Selfs
  <2>. QED
    BY <1>1, <1>2, <2>1 DEF Selfs
<1>. QED
  BY <1>4, <1>5

\* A window that keeps what is safe shows the rows it has shown.
LEMMA ShownMore ==
  ASSUME NEW g, NEW s, NEW n, NEW l, Longer(g, s, n, l), NEW w, NEW v, NEW k \in 0..n, Shown(s, w, k),
         \A r : Safe(w, r) => Safe(v, r), NEW m \in k..l, \A j \in k + 1..m : ShownRow(g, v, j)
  PROVE  Shown(g, v, m)
<1>1. n \in Nat /\ l \in Nat /\ n <= l /\ \A p \in 1..n : g[p] = s[p]
  BY DEF Longer
<1>2. ASSUME NEW i \in 1..k PROVE ShownRow(g, v, i)
  <2>1. i \in 1..n
    BY <1>1
  <2>2. g[i] = s[i] /\ ShownRow(s, w, i)
    BY <1>1, <2>1 DEF Shown
  <2>3. Came(s, i) => Came(g, i)
    BY <2>1, CameStays
  <2>. QED
    BY <2>2, <2>3 DEF ShownRow
<1>3. \A i \in 1..m : i \in 1..k \/ i \in k + 1..m
  BY <1>1
<1>. QED
  BY <1>2, <1>3 DEF Shown

\* Results of different calls behind the calls.
LEMMA SafeBehind ==
  ASSUME NEW S, NEW w \in Seq(S), w # <<>>, w[Len(w)].kind = "calls", NEW b \in Seq(S),
         \A e \in 1..Len(b) : b[e].kind = "result" /\ \A f \in 1..e - 1 : b[f].of # b[e].of,
         NEW d \in 1..Len(b), b[d].of \in w[Len(w)].calls, NEW r \in b[d].about
  PROVE  Safe(w \o b, r)
<1>1. PICK g, m, n : g = w \o b /\ m = Len(w) /\ n = Len(b)
  OBVIOUS
<1>2. /\ g \in Seq(S) /\ Len(g) = m + n /\ m \in Nat /\ n \in Nat
      /\ \A p \in 1..m : g[p] = w[p]
      /\ \A e \in 1..n : g[m + e] = b[e]
  BY <1>1, Joined
<1>3. m \in 1..(m + d) - 1 /\ m \in 1..m /\ m + d \in 1..Len(g)
  <2>1. m # 0
    BY <1>1
  <2>. QED
    BY <1>1, <1>2, <2>1
<1>4. g[m] = w[m] /\ g[m + d] = b[d]
  BY <1>1, <1>2, <1>3
<1>5. ASSUME NEW k \in m + 1..m + d PROVE k - m \in 1..n /\ g[k] = b[k - m]
  <2>1. k - m \in 1..n /\ m + (k - m) = k
    BY <1>1, <1>2
  <2>. QED
    BY <1>2, <2>1
<1>6. Run(g, m, m + d)
  <2>1. g[m].kind # "result"
    BY <1>1, <1>4
  <2>2. \A k \in m + 1..m + d : g[k].kind = "result"
    BY <1>1, <1>5
  <2>. QED
    BY <2>1, <2>2 DEF Run
<1>7. OwnRun(g, m, m + d)
  <2>1. g[m + d].of \in g[m].calls
    BY <1>1, <1>4
  <2>2. ASSUME NEW e \in m + 1..m + d, NEW f \in m + 1..m + d, e < f PROVE g[e].of # g[f].of
    <3>1. e - m \in 1..(f - m) - 1
      BY <1>2, <2>2
    <3>. QED
      BY <1>1, <1>5, <3>1
  <2>. QED
    BY <2>1, <2>2 DEF OwnRun
<1>8. Stays(g, m + d)
  BY <1>3, <1>6, <1>7 DEF Stays
<1>. QED
  BY <1>1, <1>3, <1>4, <1>8 DEF Safe

\* The ledger itself, as a window, shows all its rows.
LEMMA RowsShown ==
  ASSUME NEW N \in Nat, NEW s \in Seq(Msgs(N)), Rows(s), InTime(s), Selfs(s)
  PROVE  Shown(s, s, Len(s))
<1>1. SUFFICES ASSUME NEW j \in 1..Len(s), ~Came(s, j) PROVE Safe(s, j)
  BY DEF Shown, ShownRow
<1>2. j \in s[j].about /\ j \in Nat
  BY DEF Selfs
<1>3. CASE s[j].kind # "result"
  BY <1>2, <1>3 DEF Safe, Stays
<1>4. CASE s[j].kind = "result"
  <2>1. PICK i \in 1..j - 1 : s[j].of \in s[i].calls
    BY <1>4 DEF Rows
  <2>2. Quiet(s, i, j)
    BY <1>1, <1>4, <2>1 DEF Came, InTime
  <2>3. s[i].kind = "calls"
    <3>1. i \in 1..Len(s)
      BY <2>1
    <3>2. s[i] \in Msgs(N)
      BY <3>1
    <3>. QED
      BY <2>1, <3>2 DEF Msgs
  <2>4. PICK U : U = {u \in Nat : \E a \in i..j - 1 : u = j - a /\ s[a].kind # "result"}
    OBVIOUS
  <2>5. j - i \in U
    BY <2>1, <2>3, <2>4
  <2>6. PICK u \in U : \A y \in U : u <= y
    <3>1. U \in SUBSET Nat /\ U # {}
      BY <2>4, <2>5
    <3>. QED
      BY <3>1, LeastNumber
  <2>7. PICK a \in i..j - 1 : u = j - a /\ s[a].kind # "result"
    BY <2>4, <2>6
  <2>8. ASSUME NEW k \in a + 1..j PROVE s[k].kind = "result"
    <3>1. CASE k = j
      BY <1>4, <3>1
    <3>2. CASE k # j
      <4>1. k \in i..j - 1 /\ j - k \in Nat /\ ~(u <= j - k)
        BY <2>7, <3>2
      <4>2. j - k \notin U
        BY <2>6, <4>1
      <4>. QED
        BY <2>4, <4>1, <4>2
    <3>. QED
      BY <3>1, <3>2
  <2>9. Run(s, a, j)
    BY <2>7, <2>8 DEF Run
  <2>10. a \in 1..j - 1
    BY <2>1, <2>7
  <2>11. ASSUME s[a].kind = "calls" PROVE OwnRun(s, a, j)
    <3>1. a = i
      <4>1. SUFFICES ASSUME a # i PROVE FALSE
        OBVIOUS
      <4>2. a \in i + 1..j - 1
        BY <4>1, <2>7
      <4>3. s[a].kind \in {"result", "reply"}
        BY <2>2, <4>2 DEF Quiet
      <4>. QED
        BY <2>11, <4>3
    <3>2. ASSUME NEW e \in a + 1..j, NEW f \in a + 1..j, e < f PROVE s[e].of # s[f].of
      <4>1. s[e].kind = "result" /\ s[f].kind = "result"
        BY <2>8
      <4>2. e \in 1..Len(s) /\ f \in 1..Len(s) /\ e # f
        BY <2>10, <3>2
      <4>. QED
        BY <4>1, <4>2 DEF Rows
    <3>. QED
      BY <2>1, <3>1, <3>2 DEF OwnRun
  <2>12. Stays(s, j)
    BY <2>9, <2>10, <2>11 DEF Stays
  <2>. QED
    BY <1>2, <2>12 DEF Safe
<1>. QED
  BY <1>3, <1>4

-----------------------------------------------------------------------------
(* Each action, and what the ledger tells.                                 *)

\* A row that is no result: its calls have its own number.
RowOf(x, n) ==
  x \in Msgs(n + 1) /\ x.kind # "result" /\ (\A c \in x.calls : c[1] = n + 1) /\ x.about = {n + 1}
RowTold(g, s, n, x) ==
  /\ Longer(g, s, n, n + 1) /\ g[n + 1] = x
  /\ InTime(g) /\ Selfs(g) /\ Rows(g)

\* The ledger with one more such row.
LEMMA ToldRow ==
  ASSUME NEW s, NEW n, n = Len(s), NEW w, NEW k, NEW late, NEW at, Good(s, w, k, late, at),
         InTime(s), Selfs(s), NEW x, RowOf(x, n), NEW g, g = s \o <<x>>
  PROVE  RowTold(g, s, n, x)
<1>1. n \in Nat /\ s \in Seq(Msgs(n)) /\ RowsBehind(s, k, late)
  BY DEF Good, WindowTypes
<1>2. RowAdded(g, s, n, x, late)
  <2>1. x \in Msgs(n + 1) /\ x.kind # "result" /\ (\A c \in x.calls : c[1] = n + 1)
    BY DEF RowOf
  <2>. QED
    BY <1>1, <2>1, RowMore
<1>3. /\ Len(g) = n + 1 /\ g[n + 1] = x /\ Rows(g)
      /\ \A p \in 1..n : g[p] = s[p]
  BY <1>2 DEF RowAdded, RowsBehind
<1>4. Longer(g, s, n, n + 1)
  BY <1>1, <1>3 DEF Longer
<1>5. \A j \in n + 1..n + 1 : g[j].about = {j} /\ g[j].kind # "result"
  <2>1. \A j \in n + 1..n + 1 : j = n + 1
    BY <1>1
  <2>. QED
    BY <1>3, <2>1 DEF RowOf
<1>6. InTime(g) /\ Selfs(g)
  BY <1>4, <1>5, LedgerMore
<1>. QED
  BY <1>3, <1>4, <1>6 DEF RowTold

\* A call of an earlier row whose turn is over is one whose turn is over.
LEMMA OverStays ==
  ASSUME NEW g, NEW s, NEW n, NEW l, Longer(g, s, n, l), NEW i \in 1..n, UserBetween(s, i, n + 1)
  PROVE  UserBetween(g, i, l + 1)
<1>1. n + 1 \in 1..n + 1 /\ l + 1 \in n + 1..l + 1
  BY DEF Longer
<1>. QED
  BY <1>1, BetweenStays

\* A question ends what was before it.
LEMMA ToldAsk ==
  ASSUME NEW s, NEW n, n = Len(s), NEW w, NEW k, NEW late, NEW at, Good(s, w, k, late, at),
         Told(s, w, k, late, at), NEW g, g = s \o <<User(n + 1)>>, NEW v, NEW late2
  PROVE  Longer(g, s, n, n + 1) /\ g[n + 1] = User(n + 1) /\ Rows(g) /\ Told(g, v, n + 1, late2, "agent")
<1>1. n \in Nat /\ n + 1 \in Nat \ {0}
  BY DEF Good, WindowTypes
<1>2. PICK x : x = User(n + 1)
  OBVIOUS
<1>3. x \in Msgs(n + 1) /\ x.kind = "user" /\ x.calls = {} /\ x.about = {n + 1}
  <2>1. x.about = {n + 1}
    BY <1>2 DEF User
  <2>. QED
    BY <1>1, <1>2, <2>1, UserIs
<1>4. g = s \o <<x>> /\ x.kind # "result" /\ \A c \in x.calls : c[1] = n + 1
  BY <1>2, <1>3
<1>5. InTime(s) /\ Selfs(s)
  BY DEF Told
<1>6. Longer(g, s, n, n + 1) /\ g[n + 1] = x /\ InTime(g) /\ Selfs(g) /\ Rows(g)
  <2>1. RowOf(x, n)
    BY <1>3, <1>4 DEF RowOf
  <2>2. RowTold(g, s, n, x)
    BY <1>4, <1>5, <2>1, ToldRow, Zenon
  <2>. QED
    BY <2>2 DEF RowTold
<1>7. Len(g) = n + 1
  BY <1>6 DEF Longer
<1>8. LateAre(g, v, late2, "agent")
  <2>1. ASSUME NEW c, NEW i \in 1..Len(g), c \in g[i].calls PROVE UserBetween(g, i, Len(g) + 1)
    <3>1. i # n + 1
      BY <1>3, <1>6, <2>1
    <3>2. n + 1 \in i + 1..(n + 1 + 1) - 1
      BY <1>1, <1>7, <3>1
    <3>. QED
      BY <1>3, <1>6, <1>7, <3>2 DEF UserBetween
  <2>. QED
    BY <2>1 DEF LateAre
<1>9. OpenAre(g, v, "agent")
  BY DEF OpenAre
<1>10. BehindAre(g, v, n + 1, "agent")
  <2>1. \A j \in n + 1 + 1..n + 1 : FALSE
    BY <1>1
  <2>. QED
    BY <1>7, <2>1 DEF BehindAre
<1>. QED
  BY <1>2, <1>6, <1>8, <1>9, <1>10 DEF Told

\* An answer.
LEMMA ToldAnswer ==
  ASSUME NEW s, NEW n, n = Len(s), NEW w, NEW k, NEW late, Good(s, w, k, late, "agent"),
         Told(s, w, k, late, "agent"),
         NEW x, RowOf(x, n), NEW g, g = s \o <<x>>, NEW v, v[Len(v)] = x, NEW at2
  PROVE  Told(g, v, n + 1, late, at2)
<1>1. n \in Nat /\ RowsBehind(s, k, late)
  BY DEF Good, WindowTypes
<1>2. InTime(s) /\ Selfs(s) /\ LateAre(s, w, late, "agent")
  BY DEF Told
<1>3. Longer(g, s, n, n + 1) /\ g[n + 1] = x /\ InTime(g) /\ Selfs(g) /\ Rows(g)
  <2>1. RowTold(g, s, n, x)
    BY <1>2, ToldRow, Zenon
  <2>. QED
    BY <2>1 DEF RowTold
<1>4. Len(g) = n + 1 /\ \A p \in 1..n : g[p] = s[p]
  BY <1>3 DEF Longer
<1>5. LateAre(g, v, late, at2)
  <2>1. ASSUME NEW c \in late, NEW i \in 1..Len(g), c \in g[i].calls PROVE UserBetween(g, i, Len(g) + 1)
    <3>1. PICK a \in 1..n : c \in s[a].calls
      BY <1>1 DEF RowsBehind
    <3>2. c[1] = a
      BY <1>1, <3>1 DEF RowsBehind, Rows
    <3>3. c[1] = i
      BY <1>3, <2>1 DEF Rows
    <3>4. UserBetween(s, a, n + 1)
      BY <1>2, <3>1 DEF LateAre
    <3>5. UserBetween(g, a, n + 1 + 1)
      BY <1>3, <3>4, OverStays
    <3>. QED
      BY <1>4, <3>2, <3>3, <3>5
  <2>. QED
    BY <2>1 DEF LateAre
<1>6. OpenAre(g, v, at2)
  <2>1. ASSUME NEW c \in v[Len(v)].calls, NEW i \in 1..Len(g), c \in g[i].calls
        PROVE  Quiet(g, i, Len(g) + 1)
    <3>1. c[1] = n + 1
      BY <2>1 DEF RowOf
    <3>2. c[1] = i
      BY <1>3, <2>1 DEF Rows
    <3>3. \A y \in i + 1..(n + 1 + 1) - 1 : FALSE
      BY <1>1, <3>1, <3>2
    <3>. QED
      BY <1>4, <3>3 DEF Quiet
  <2>. QED
    BY <2>1 DEF OpenAre
<1>7. BehindAre(g, v, n + 1, at2)
  <2>1. \A j \in n + 1 + 1..n + 1 : FALSE
    BY <1>1
  <2>. QED
    BY <1>4, <2>1 DEF BehindAre
<1>. QED
  BY <1>3, <1>5, <1>6, <1>7 DEF Told

\* A reply to a call that waits.
LEMMA ToldDecide ==
  ASSUME NEW s, NEW n, n = Len(s), NEW w, NEW k, NEW late, Good(s, w, k, late, "tools"),
         Told(s, w, k, late, "tools"), NEW g, g = s \o <<UserReply(n + 1)>>
  PROVE  /\ Longer(g, s, n, n + 1) /\ g[n + 1].kind = "reply"
         /\ Told(g, w, n + 1, late, "tools")
<1>1. n \in Nat /\ n + 1 \in Nat \ {0} /\ RowsBehind(s, k, late)
  BY DEF Good, WindowTypes
<1>2. PICK x : x = UserReply(n + 1)
  OBVIOUS
<1>3. x \in Msgs(n + 1) /\ x.kind = "reply" /\ x.calls = {} /\ x.about = {n + 1}
  <2>1. x.about = {n + 1}
    BY <1>2 DEF UserReply
  <2>. QED
    BY <1>1, <1>2, <2>1, UserIs
<1>4. g = s \o <<x>> /\ x.kind # "result" /\ \A c \in x.calls : c[1] = n + 1
  BY <1>2, <1>3
<1>5. InTime(s) /\ Selfs(s) /\ LateAre(s, w, late, "tools") /\ OpenAre(s, w, "tools")
  BY DEF Told
<1>6. Longer(g, s, n, n + 1) /\ g[n + 1] = x /\ InTime(g) /\ Selfs(g)
  <2>1. RowOf(x, n)
    BY <1>3, <1>4 DEF RowOf
  <2>2. RowTold(g, s, n, x)
    BY <1>4, <1>5, <2>1, ToldRow, Zenon
  <2>. QED
    BY <2>2 DEF RowTold
<1>7. Len(g) = n + 1 /\ \A p \in 1..n : g[p] = s[p]
  BY <1>6 DEF Longer
<1>8. ASSUME NEW c, NEW i \in 1..Len(g), c \in g[i].calls PROVE i \in 1..n /\ c \in s[i].calls
  <2>1. i # n + 1
    BY <1>3, <1>6, <1>8
  <2>2. i \in 1..n
    BY <1>1, <1>7, <2>1
  <2>. QED
    BY <1>7, <1>8, <2>2
<1>9. LateAre(g, w, late, "tools")
  <2>1. ASSUME NEW c \in late, NEW i \in 1..Len(g), c \in g[i].calls PROVE UserBetween(g, i, Len(g) + 1)
    <3>1. i \in 1..n /\ c \in s[i].calls
      BY <1>8, <2>1
    <3>2. UserBetween(s, i, n + 1)
      BY <1>5, <3>1 DEF LateAre
    <3>. QED
      BY <1>6, <1>7, <3>1, <3>2, OverStays
  <2>. QED
    BY <2>1 DEF LateAre
<1>10. OpenAre(g, w, "tools")
  <2>1. ASSUME NEW c \in w[Len(w)].calls, NEW i \in 1..Len(g), c \in g[i].calls
        PROVE  Quiet(g, i, Len(g) + 1)
    <3>1. i \in 1..n /\ c \in s[i].calls
      BY <1>8, <2>1
    <3>2. Quiet(s, i, n + 1)
      BY <1>5, <3>1 DEF OpenAre
    <3>3. n + 1 \in 1..n + 1
      BY <1>1
    <3>4. Quiet(g, i, n + 1)
      BY <1>6, <3>1, <3>2, <3>3, BetweenStays
    <3>5. \A y \in i + 1..(n + 1 + 1) - 1 : y = n + 1 \/ y \in i + 1..(n + 1) - 1
      BY <1>1, <3>1
    <3>. QED
      BY <1>3, <1>6, <1>7, <3>4, <3>5 DEF Quiet
  <2>. QED
    BY <2>1 DEF OpenAre
<1>11. BehindAre(g, w, n + 1, "tools")
  <2>1. \A j \in n + 1 + 1..n + 1 : FALSE
    BY <1>1
  <2>. QED
    BY <1>7, <2>1 DEF BehindAre
<1>. QED
  BY <1>3, <1>6, <1>9, <1>10, <1>11 DEF Told

\* The results of the open calls.
LEMMA ToldTools ==
  ASSUME NEW s, NEW n, n = Len(s), NEW w, NEW k, NEW late, Good(s, w, k, late, "tools"),
         Told(s, w, k, late, "tools"),
         NEW g, NEW q \in Nat, Longer(g, s, n, n + q),
         \A d \in 1..q : /\ g[n + d].kind = "result" /\ g[n + d].calls = {} /\ g[n + d].about = {n + d}
                         /\ g[n + d].of \in w[Len(w)].calls,
         NEW v
  PROVE  Told(g, v, n + q, late, "agent")
<1>1. n \in Nat /\ Len(g) = n + q /\ n + q \in Nat /\ \A p \in 1..n : g[p] = s[p]
  BY DEF Longer
<1>2. InTime(s) /\ Selfs(s) /\ LateAre(s, w, late, "tools") /\ OpenAre(s, w, "tools")
  BY DEF Told
<1>3. ASSUME NEW j \in n + 1..n + q
      PROVE  /\ g[j].kind = "result" /\ g[j].calls = {} /\ g[j].about = {j}
             /\ g[j].of \in w[Len(w)].calls
  <2>1. j - n \in 1..q /\ n + (j - n) = j
    BY <1>1
  <2>. QED
    BY <2>1
<1>4. ASSUME NEW c, NEW i \in 1..n + q, c \in g[i].calls PROVE i \in 1..n /\ c \in s[i].calls
  <2>1. i \notin n + 1..n + q
    BY <1>3, <1>4
  <2>2. i \in 1..n
    BY <1>1, <2>1
  <2>. QED
    BY <1>1, <1>4, <2>2
<1>5. ASSUME NEW j \in n + 1..n + q, NEW i \in 1..j - 1, g[j].of \in g[i].calls PROVE Quiet(g, i, j)
  <2>1. i \in 1..n + q
    BY <1>1
  <2>2. i \in 1..n /\ g[j].of \in s[i].calls
    BY <1>4, <1>5, <2>1
  <2>3. Quiet(s, i, n + 1)
    BY <1>2, <1>3, <2>2 DEF OpenAre
  <2>4. n + 1 \in 1..n + 1
    BY <1>1
  <2>5. Quiet(g, i, n + 1)
    BY <2>2, <2>3, <2>4, BetweenStays
  <2>6. \A y \in i + 1..j - 1 : y \in i + 1..(n + 1) - 1 \/ y \in n + 1..n + q
    BY <1>1, <2>2
  <2>. QED
    BY <1>3, <2>5, <2>6 DEF Quiet
<1>6. InTime(g) /\ Selfs(g)
  BY <1>2, <1>3, <1>5, LedgerMore
<1>7. LateAre(g, v, late, "agent")
  <2>1. ASSUME NEW c \in late, NEW i \in 1..Len(g), c \in g[i].calls PROVE UserBetween(g, i, Len(g) + 1)
    <3>1. i \in 1..n /\ c \in s[i].calls
      BY <1>1, <1>4, <2>1
    <3>2. UserBetween(s, i, n + 1)
      BY <1>2, <3>1 DEF LateAre
    <3>. QED
      BY <1>1, <3>1, <3>2, OverStays
  <2>. QED
    BY <2>1 DEF LateAre
<1>8. OpenAre(g, v, "agent")
  BY DEF OpenAre
<1>9. BehindAre(g, v, n + q, "agent")
  <2>1. \A j \in n + q + 1..n + q : FALSE
    BY <1>1
  <2>. QED
    BY <1>1, <2>1 DEF BehindAre
<1>. QED
  BY <1>6, <1>7, <1>8, <1>9 DEF Told

\* The graph is given up: what is open is late.
LEMMA ToldAbandon ==
  ASSUME NEW s, NEW w, NEW k, NEW late, Good(s, w, k, late, "tools"), Told(s, w, k, late, "tools")
  PROVE  Told(s, w, k, late \cup w[Len(w)].calls, "idle")
<1>1. Alone(w)
  BY DEF Good, EndOf
<1>2. LateAre(s, w, late, "tools") /\ OpenAre(s, w, "tools") /\ BehindAre(s, w, k, "tools")
  BY DEF Told
<1>3. LateAre(s, w, late \cup w[Len(w)].calls, "idle")
  BY <1>1, <1>2 DEF LateAre, OpenAre, LastCalls, Alone
<1>4. OpenAre(s, w, "idle") /\ BehindAre(s, w, k, "idle")
  BY <1>2 DEF OpenAre, BehindAre
<1>. QED
  BY <1>3, <1>4 DEF Told

\* A late result.
LEMMA ToldLate ==
  ASSUME NEW s, NEW n, n = Len(s), NEW w, NEW k, NEW late, NEW at, Good(s, w, k, late, at),
         Told(s, w, k, late, at), NEW c \in late,
         NEW g, Longer(g, s, n, n + 1),
         g[n + 1].kind = "result", g[n + 1].calls = {}, g[n + 1].about = {n + 1}, g[n + 1].of = c
  PROVE  Told(g, w, k, late \ {c}, at)
<1>1. /\ n \in Nat /\ Len(g) = n + 1 /\ RowsBehind(s, k, late) /\ k \in 0..n
      /\ \A p \in 1..n : g[p] = s[p]
  BY DEF Longer, Good, WindowTypes
<1>2. InTime(s) /\ Selfs(s) /\ LateAre(s, w, late, at) /\ OpenAre(s, w, at) /\ BehindAre(s, w, k, at)
  BY DEF Told
<1>3. ASSUME NEW y, NEW i \in 1..Len(g), y \in g[i].calls PROVE i \in 1..n /\ y \in s[i].calls
  <2>1. i # n + 1
    BY <1>3
  <2>2. i \in 1..n
    BY <1>1, <2>1
  <2>. QED
    BY <1>1, <1>3, <2>2
<1>4. n + 1 \in 1..n + 1 /\ n + 1 \in n + 1..n + 1 + 1
  BY <1>1
<1>5. ASSUME NEW i \in 1..n, Quiet(s, i, n + 1) PROVE Quiet(g, i, n + 1) /\ Quiet(g, i, Len(g) + 1)
  <2>1. Quiet(g, i, n + 1)
    BY <1>4, <1>5, BetweenStays
  <2>2. \A y \in i + 1..(n + 1 + 1) - 1 : y = n + 1 \/ y \in i + 1..(n + 1) - 1
    BY <1>1
  <2>. QED
    BY <1>1, <2>1, <2>2 DEF Quiet
<1>6. ASSUME NEW i \in 1..n, UserBetween(s, i, n + 1)
      PROVE  UserBetween(g, i, n + 1) /\ UserBetween(g, i, Len(g) + 1)
  <2>1. UserBetween(g, i, n + 1)
    BY <1>4, <1>6, BetweenStays
  <2>2. UserBetween(g, i, n + 1 + 1)
    BY <1>6, OverStays
  <2>. QED
    BY <1>1, <2>1, <2>2
<1>7. ASSUME NEW i \in 1..n, c \in s[i].calls
      PROVE  \/ UserBetween(s, i, n + 1)
             \/ at = "idle" /\ Quiet(s, i, n + 1) /\ LastCalls(w, c)
  BY <1>2, <1>7 DEF LateAre
<1>8. InTime(g) /\ Selfs(g)
  <2>1. ASSUME NEW j \in n + 1..n + 1, NEW i \in 1..j - 1, g[j].of \in g[i].calls
        PROVE  UserBetween(g, i, j) \/ Quiet(g, i, j)
    <3>1. j = n + 1 /\ i \in 1..Len(g)
      BY <1>1
    <3>2. i \in 1..n /\ c \in s[i].calls
      BY <1>3, <2>1, <3>1
    <3>. QED
      BY <1>5, <1>6, <1>7, <3>1, <3>2
  <2>2. \A j \in n + 1..n + 1 : g[j].about = {j}
    <3>1. \A j \in n + 1..n + 1 : j = n + 1
      BY <1>1
    <3>. QED
      BY <3>1
  <2>. QED
    BY <1>2, <2>1, <2>2, LedgerMore
<1>9. LateAre(g, w, late \ {c}, at)
  <2>1. ASSUME NEW y \in late \ {c}, NEW i \in 1..Len(g), y \in g[i].calls
        PROVE  \/ UserBetween(g, i, Len(g) + 1)
               \/ at = "idle" /\ Quiet(g, i, Len(g) + 1) /\ LastCalls(w, y)
    <3>1. i \in 1..n /\ y \in s[i].calls
      BY <1>3, <2>1
    <3>2. \/ UserBetween(s, i, n + 1)
          \/ at = "idle" /\ Quiet(s, i, n + 1) /\ LastCalls(w, y)
      BY <1>2, <3>1 DEF LateAre
    <3>. QED
      BY <1>5, <1>6, <3>1, <3>2
  <2>. QED
    BY <2>1 DEF LateAre
<1>10. OpenAre(g, w, at)
  <2>1. ASSUME at = "tools", NEW y \in w[Len(w)].calls, NEW i \in 1..Len(g), y \in g[i].calls
        PROVE  Quiet(g, i, Len(g) + 1)
    <3>1. i \in 1..n /\ y \in s[i].calls
      BY <1>3, <2>1
    <3>2. Quiet(s, i, n + 1)
      BY <1>2, <2>1, <3>1 DEF OpenAre
    <3>. QED
      BY <1>5, <3>1, <3>2
  <2>. QED
    BY <2>1 DEF OpenAre
<1>11. BehindAre(g, w, k, at)
  <2>1. ASSUME NEW j \in k + 1..n PROVE Came(g, j) \/ (at = "idle" /\ LastCalls(w, g[j].of))
    <3>1. j \in 1..n
      BY <1>1
    <3>2. Came(s, j) \/ (at = "idle" /\ LastCalls(w, s[j].of))
      BY <1>2 DEF BehindAre
    <3>. QED
      BY <1>1, <3>1, <3>2, CameStays
  <2>2. Came(g, n + 1) \/ (at = "idle" /\ LastCalls(w, g[n + 1].of))
    <3>1. PICK i \in 1..n : c \in s[i].calls
      BY <1>1 DEF RowsBehind
    <3>2. i \in 1..(n + 1) - 1 /\ g[n + 1].of \in g[i].calls
      BY <1>1, <3>1
    <3>. QED
      BY <1>6, <1>7, <3>1, <3>2 DEF Came
  <2>3. \A j \in k + 1..n + 1 : j = n + 1 \/ j \in k + 1..n
    BY <1>1
  <2>. QED
    BY <1>1, <2>1, <2>2, <2>3 DEF BehindAre
<1>. QED
  BY <1>8, <1>9, <1>10, <1>11 DEF Told

-----------------------------------------------------------------------------
(* Each action, and what the window shows.                                 *)

\* One more message behind a window.
AndBehind(v, a, x) ==
  /\ v[Len(v)] = x
  /\ \A r : Safe(a, r) => Safe(v, r)
  /\ x.kind # "result" => \A r \in x.about : Safe(v, r)

\* It is shown, and what was shown is.
LEMMA OneBehind ==
  ASSUME NEW S, NEW a \in Seq(S), NEW x \in S, NEW v, v = a \o <<x>>
  PROVE  AndBehind(v, a, x)
<1>1. PICK b : b = <<x>>
  OBVIOUS
<1>2. b \in Seq(S) /\ Len(b) = 1 /\ b[1] = x /\ v = a \o b
  BY <1>1
<1>3. ASSUME NEW r, Safe(a, r) \/ Safe(b, r) PROVE Safe(v, r)
  <2>1. Safe(a \o b, r)
    BY <1>2, <1>3, SafeJoined
  <2>. QED
    BY <1>2, <2>1
<1>4. ASSUME x.kind # "result", NEW r \in x.about PROVE Safe(v, r)
  BY <1>1, <1>3, <1>4, SafeAlone
<1>5. v[Len(v)] = x
  <2>1. Len(v) = Len(a) + 1 /\ v[Len(a) + 1] = x
    BY <1>2
  <2>. QED
    BY <2>1
<1>. QED
  BY <1>3, <1>4, <1>5 DEF AndBehind

\* The rows behind the kth.
LEMMA RowsFrom ==
  ASSUME NEW S, NEW s \in Seq(S), NEW n \in Nat, n = Len(s), NEW k \in 0..n, NEW b, b = From(s, k + 1)
  PROVE  b \in Seq(S) /\ Len(b) = n - k /\ \A d \in 1..n - k : b[d] = s[k + d]
<1>1. CASE k = n
  <2>1. b = <<>>
    BY <1>1 DEF From
  <2>2. n - k = 0
    BY <1>1
  <2>3. Len(b) = 0 /\ b \in Seq(S) /\ \A d \in 1..0 : FALSE
    <3>1. <<>> \in Seq(S) /\ Len(<<>>) = 0
      OBVIOUS
    <3>2. \A d \in 1..0 : FALSE
      OBVIOUS
    <3>. QED
      BY <2>1, <3>1, <3>2
  <2>. QED
    BY <2>2, <2>3
<1>2. CASE k # n
  <2>1. k + 1 \in 1..Len(s)
    BY <1>2
  <2>2. /\ b \in Seq(S) /\ Len(b) = Len(s) - (k + 1) + 1
        /\ \A p \in 1..Len(s) - (k + 1) + 1 : b[p] = s[k + 1 + p - 1]
    BY <2>1, SuffixIs
  <2>3. \A d \in 1..n - k : d \in 1..Len(s) - (k + 1) + 1 /\ k + 1 + d - 1 = k + d
    OBVIOUS
  <2>. QED
    BY <2>2, <2>3
<1>. QED
  BY <1>1, <1>2

\* A question takes the rows behind the checkpoint over: those that came in time answer the last calls.
LEMMA ShownAsk ==
  ASSUME NEW s, NEW n, n = Len(s), NEW w, NEW k, NEW late, NEW at, Good(s, w, k, late, at),
         Told(s, w, k, late, at), Shown(s, w, k),
         NEW x, RowOf(x, n), NEW g, Longer(g, s, n, n + 1), g[n + 1] = x,
         NEW v, v = w \o From(s, k + 1) \o <<x>>
  PROVE  Shown(g, v, n + 1)
<1>1. /\ n \in Nat /\ s \in Seq(Msgs(n)) /\ w \in Seq(Msgs(n)) /\ k \in 0..n /\ Rows(s)
      /\ \A j \in k + 1..n : s[j].kind = "result"
  BY DEF Good, WindowTypes, RowsBehind
<1>2. PICK b : b = From(s, k + 1)
  OBVIOUS
<1>3. b \in Seq(Msgs(n)) /\ Len(b) = n - k /\ \A d \in 1..n - k : b[d] = s[k + d]
  BY <1>1, <1>2, RowsFrom
<1>4. PICK u : u = w \o b
  OBVIOUS
<1>5. u \in Seq(Msgs(n)) /\ \A r : Safe(w, r) => Safe(u, r)
  <2>1. u \in Seq(Msgs(n))
    BY <1>1, <1>3, <1>4
  <2>2. ASSUME NEW r, Safe(w, r) PROVE Safe(w \o b, r)
    <3>1. Safe(w, r) \/ Safe(b, r)
      BY <2>2
    <3>. QED
      BY <1>1, <1>3, <3>1, SafeJoined
  <2>. QED
    BY <1>4, <2>1, <2>2
<1>6. n + 1 \in Nat /\ n <= n + 1
  BY <1>1
<1>7. u \in Seq(Msgs(n + 1)) /\ x \in Msgs(n + 1) /\ x.kind # "result" /\ x.about = {n + 1}
  BY <1>1, <1>5, <1>6, SeqMsgsGrow DEF RowOf
<1>8. v = u \o <<x>>
  BY <1>2, <1>4
<1>9. (\A r : Safe(u, r) => Safe(v, r)) /\ Safe(v, n + 1)
  <2>1. n + 1 \in x.about
    BY <1>7
  <2>2. AndBehind(v, u, x)
    BY <1>7, <1>8, OneBehind
  <2>. QED
    BY <1>7, <2>1, <2>2 DEF AndBehind
<1>10. ASSUME NEW e \in 1..n - k, NEW f \in 1..e - 1
       PROVE  b[e].kind = "result" /\ b[f].of # b[e].of
  <2>1. k + e \in k + 1..n /\ k + f \in k + 1..n /\ f \in 1..n - k /\ k + e # k + f
    BY <1>1
  <2>2. s[k + e].kind = "result" /\ s[k + f].kind = "result" /\ b[e] = s[k + e] /\ b[f] = s[k + f]
    BY <1>1, <1>3, <2>1
  <2>3. k + e \in 1..Len(s) /\ k + f \in 1..Len(s)
    BY <1>1, <2>1
  <2>. QED
    BY <1>1, <2>1, <2>2, <2>3 DEF Rows
<1>11. ASSUME NEW j \in k + 1..n PROVE ShownRow(g, v, j)
  <2>1. j \in 1..n
    BY <1>1
  <2>2. CASE Came(s, j)
    BY <2>1, <2>2, CameStays DEF ShownRow
  <2>3. CASE LastCalls(w, s[j].of)
    <3>1. PICK d \in 1..n - k : j = k + d
      <4>1. j - k \in 1..n - k /\ j = k + (j - k)
        BY <1>1
      <4>. QED
        BY <4>1
    <3>2. b[d] = s[j]
      BY <1>3, <3>1
    <3>3. w # <<>> /\ w[Len(w)].kind = "calls" /\ b[d].of \in w[Len(w)].calls
      BY <2>3, <3>2 DEF LastCalls
    <3>4. \A e \in 1..Len(b) : b[e].kind = "result" /\ \A f \in 1..e - 1 : b[f].of # b[e].of
      <4>1. ASSUME NEW e \in 1..n - k PROVE b[e].kind = "result"
        <5>1. k + e \in k + 1..n
          BY <1>1
        <5>. QED
          BY <1>1, <1>3, <5>1
      <4>. QED
        BY <1>3, <1>10, <4>1
    <3>5. j \in b[d].about
      BY <2>1, <3>2 DEF Told, Selfs
    <3>6. d \in 1..Len(b)
      BY <1>3
    <3>7. Safe(w \o b, j)
      BY <1>1, <1>3, <3>3, <3>4, <3>5, <3>6, SafeBehind
    <3>. QED
      BY <1>4, <1>9, <3>7 DEF ShownRow
  <2>4. Came(s, j) \/ LastCalls(w, s[j].of)
    BY DEF Told, BehindAre
  <2>. QED
    BY <2>2, <2>3, <2>4
<1>12. \A j \in k + 1..n + 1 : ShownRow(g, v, j)
  <2>1. \A j \in k + 1..n + 1 : j = n + 1 \/ j \in k + 1..n
    BY <1>1
  <2>2. ShownRow(g, v, n + 1)
    BY <1>9 DEF ShownRow
  <2>. QED
    BY <1>11, <2>1, <2>2
<1>13. n + 1 \in k..n + 1 /\ \A r : Safe(w, r) => Safe(v, r)
  <2>1. n + 1 \in k..n + 1
    BY <1>1
  <2>. QED
    BY <1>5, <1>9, <2>1
<1>. QED
  BY <1>1, <1>12, <1>13, ShownMore

\* An answer: what the request keeps, and what is taken out of the cache, behind it the answer.
LEMMA ShownAnswer ==
  ASSUME NEW s, NEW n, n = Len(s), NEW w, NEW k, NEW late, Good(s, w, k, late, "agent"),
         Told(s, w, k, late, "agent"), Shown(s, w, k),
         NEW x, RowOf(x, n), NEW g, Longer(g, s, n, n + 1), g[n + 1] = x,
         NEW body \in Seq(Msgs(n)), NEW c \in Seq(Msgs(n)), \A r : Safe(w, r) => Safe(body, r),
         NEW v, v = body \o c \o <<x>>
  PROVE  Shown(g, v, n + 1)
<1>1. n \in Nat /\ k \in 0..n
  BY DEF Good, WindowTypes
<1>2. PICK u : u = body \o c
  OBVIOUS
<1>3. u \in Seq(Msgs(n)) /\ \A r : Safe(body, r) => Safe(u, r)
  <2>1. ASSUME NEW r, Safe(body, r) PROVE Safe(body \o c, r)
    <3>1. Safe(body, r) \/ Safe(c, r)
      BY <2>1
    <3>. QED
      BY <3>1, SafeJoined
  <2>. QED
    BY <1>2, <2>1
<1>4. n + 1 \in Nat /\ n <= n + 1
  BY <1>1
<1>5. u \in Seq(Msgs(n + 1)) /\ x \in Msgs(n + 1) /\ x.kind # "result" /\ x.about = {n + 1}
  BY <1>1, <1>3, <1>4, SeqMsgsGrow DEF RowOf
<1>6. (\A r : Safe(u, r) => Safe(v, r)) /\ Safe(v, n + 1)
  <2>1. n + 1 \in x.about /\ v = u \o <<x>>
    BY <1>2, <1>5
  <2>2. AndBehind(v, u, x)
    BY <1>5, <2>1, OneBehind
  <2>. QED
    BY <1>5, <2>1, <2>2 DEF AndBehind
<1>7. ASSUME NEW j \in k + 1..n + 1 PROVE ShownRow(g, v, j)
  <2>1. CASE j = n + 1
    BY <1>6, <2>1 DEF ShownRow
  <2>2. CASE j # n + 1
    <3>1. j \in k + 1..n /\ j \in 1..n
      BY <1>1, <2>2
    <3>2. Came(s, j)
      BY <3>1 DEF Told, BehindAre
    <3>. QED
      BY <3>1, <3>2, CameStays DEF ShownRow
  <2>. QED
    BY <2>1, <2>2
<1>8. n + 1 \in k..n + 1 /\ \A r : Safe(w, r) => Safe(v, r)
  BY <1>1, <1>3, <1>6
<1>. QED
  BY <1>1, <1>7, <1>8, ShownMore

\* A reply.
LEMMA ShownDecide ==
  ASSUME NEW s, NEW n, n = Len(s), NEW w, NEW k, NEW late, Good(s, w, k, late, "tools"),
         Told(s, w, k, late, "tools"), Shown(s, w, k),
         NEW g, Longer(g, s, n, n + 1), g[n + 1].kind = "reply"
  PROVE  Shown(g, w, n + 1)
<1>1. n \in Nat /\ k \in 0..n
  BY DEF Good, WindowTypes
<1>2. ASSUME NEW j \in k + 1..n + 1 PROVE ShownRow(g, w, j)
  <2>1. CASE j = n + 1
    BY <2>1 DEF ShownRow
  <2>2. CASE j # n + 1
    <3>1. j \in k + 1..n /\ j \in 1..n
      BY <1>1, <2>2
    <3>2. Came(s, j)
      BY <3>1 DEF Told, BehindAre
    <3>. QED
      BY <3>1, <3>2, CameStays DEF ShownRow
  <2>. QED
    BY <2>1, <2>2
<1>3. n + 1 \in k..n + 1 /\ \A r : Safe(w, r) => Safe(w, r)
  BY <1>1
<1>. QED
  BY <1>1, <1>2, <1>3, ShownMore

\* The results of the last calls, right behind them.
LEMMA ShownTools ==
  ASSUME NEW s, NEW n, n = Len(s), NEW w, NEW k, NEW late, Good(s, w, k, late, "tools"),
         Told(s, w, k, late, "tools"), Shown(s, w, k),
         NEW q \in Nat, NEW b \in Seq(Msgs(n + q)), q = Len(b),
         \A d \in 1..q : /\ b[d].kind = "result" /\ b[d].about = {n + d} /\ b[d].of \in w[Len(w)].calls
                         /\ \A e \in 1..d - 1 : b[e].of # b[d].of,
         NEW g, Longer(g, s, n, n + q)
  PROVE  Shown(g, w \o b, n + q)
<1>1. n \in Nat /\ k \in 0..n /\ w \in Seq(Msgs(n)) /\ Alone(w)
  BY DEF Good, WindowTypes, EndOf
<1>2. n + q \in Nat /\ n <= n + q
  BY <1>1
<1>3. w \in Seq(Msgs(n + q)) /\ w # <<>> /\ w[Len(w)].kind = "calls"
  BY <1>1, <1>2, SeqMsgsGrow DEF Alone
<1>4. ASSUME NEW r, Safe(w, r) PROVE Safe(w \o b, r)
  <2>1. Safe(w, r) \/ Safe(b, r)
    BY <1>4
  <2>. QED
    BY <1>3, <2>1, SafeJoined
<1>5. ASSUME NEW j \in k + 1..n + q PROVE ShownRow(g, w \o b, j)
  <2>1. CASE j \in 1..n
    <3>1. j \in k + 1..n
      BY <1>1, <2>1
    <3>2. Came(s, j)
      BY <3>1 DEF Told, BehindAre
    <3>. QED
      BY <2>1, <3>2, CameStays DEF ShownRow
  <2>2. CASE j \notin 1..n
    <3>1. PICK d \in 1..q : j = n + d
      <4>1. j - n \in 1..q /\ j = n + (j - n)
        BY <1>1, <2>2
      <4>. QED
        BY <4>1
    <3>2. /\ \A e \in 1..Len(b) : b[e].kind = "result" /\ \A f \in 1..e - 1 : b[f].of # b[e].of
          /\ d \in 1..Len(b) /\ b[d].of \in w[Len(w)].calls /\ j \in b[d].about
      BY <3>1
    <3>3. Safe(w \o b, j)
      BY <1>3, <3>2, SafeBehind
    <3>. QED
      BY <3>3 DEF ShownRow
  <2>. QED
    BY <2>1, <2>2
<1>6. n + q \in k..n + q
  BY <1>1
<1>. QED
  BY <1>1, <1>4, <1>5, <1>6, ShownMore

-----------------------------------------------------------------------------
(* The actions themselves.                                                 *)

\* What the ledger tells, and what the window shows while it was not cut.
Tells ==
  /\ Told(said, window, turn.known, turn.late, turn.at)
  /\ ~turn.cut => Shown(said, window, turn.known)

\* The invariant of NothingIsForgotten.
ToldInv == WinInv /\ Tells

\* A question.
LEMMA AskTells ==
  ASSUME ToldInv, AskQuestion
  PROVE  Tells'
<1>1. PICK n : n = Len(said)
  OBVIOUS
<1>2. /\ n \in Nat /\ said \in Seq(Msgs(n)) /\ TurnIs(turn) /\ NextRow = n + 1
      /\ Good(said, window, turn.known, turn.late, "idle")
      /\ Told(said, window, turn.known, turn.late, "idle")
      /\ ~turn.cut => Shown(said, window, turn.known)
  BY <1>1 DEF ToldInv, Tells, WinInv, Good, WindowTypes, AskQuestion, NextRow
<1>3. RowOf(User(n + 1), n)
  <2>1. n + 1 \in Nat \ {0} /\ User(n + 1).about = {n + 1}
    BY <1>2 DEF User
  <2>. QED
    BY <2>1, UserIs DEF RowOf
<1>4. PICK g, v : g = said \o <<User(n + 1)>> /\ v = window \o From(said, turn.known + 1) \o <<User(n + 1)>>
  OBVIOUS
<1>5. said' = g /\ window' = v
  <2>1. said' = Append(said, User(n + 1)) /\ window' = v
    BY <1>2, <1>4 DEF AskQuestion
  <2>2. n + 1 \in Nat /\ n <= n + 1
    BY <1>2
  <2>3. said \in Seq(Msgs(n + 1)) /\ User(n + 1) \in Msgs(n + 1)
    BY <1>2, <1>3, <2>2, SeqMsgsGrow DEF RowOf
  <2>4. Append(said, User(n + 1)) = said \o <<User(n + 1)>>
    BY <2>3, AppendIsConcat
  <2>. QED
    BY <1>4, <2>1, <2>4
<1>6. TurnTo(turn', "agent", n + 1, turn.late, turn.cut)
  <2>1. turn' = [turn EXCEPT !.no = turn.no + 1, !.at = "agent", !.step = 0, !.known = n + 1]
    BY <1>2 DEF AskQuestion
  <2>. QED
    BY <1>2, <2>1, TurnAsked, Zenon
<1>7. Longer(g, said, n, n + 1) /\ g[n + 1] = User(n + 1) /\ Told(g, v, n + 1, turn.late, "agent")
  BY <1>1, <1>2, <1>4, ToldAsk
<1>8. ~turn.cut => Shown(g, v, n + 1)
  <2>1. SUFFICES ASSUME ~turn.cut PROVE Shown(g, v, n + 1)
    OBVIOUS
  <2>. QED
    BY <1>1, <1>2, <1>3, <1>4, <1>7, <2>1, ShownAsk
<1>. QED
  BY <1>5, <1>6, <1>7, <1>8 DEF Tells, TurnTo

\* A question with the window made from all rows, or on a new branch.
LEMMA RebuiltTells ==
  ASSUME ToldInv, AskRebuilt \/ AskForked
  PROVE  Tells'
<1>1. PICK n : n = Len(said)
  OBVIOUS
<1>2. /\ n \in Nat /\ said \in Seq(Msgs(n)) /\ TurnIs(turn) /\ NextRow = n + 1
      /\ Good(said, window, turn.known, turn.late, turn.at)
      /\ Told(said, window, turn.known, turn.late, turn.at)
  BY <1>1 DEF ToldInv, Tells, WinInv, Good, WindowTypes, NextRow
<1>3. PICK x, g : x = User(n + 1) /\ g = said \o <<User(n + 1)>>
  OBVIOUS
<1>4. n + 1 \in Nat /\ n <= n + 1 /\ x \in Msgs(n + 1)
  <2>1. n + 1 \in Nat \ {0}
    BY <1>2
  <2>. QED
    BY <1>2, <1>3, <2>1, UserIs
<1>5. said \in Seq(Msgs(n + 1))
  BY <1>2, <1>4, SeqMsgsGrow
<1>6. said' = g /\ window' = g
  <2>1. said' = Append(said, x) /\ window' = said'
    BY <1>2, <1>3 DEF AskRebuilt, AskForked
  <2>2. Append(said, x) = said \o <<x>>
    BY <1>4, <1>5, AppendIsConcat
  <2>. QED
    BY <1>3, <2>1, <2>2
<1>7. PICK late2 : late2 = turn'.late
  OBVIOUS
<1>8. turn'.at = "agent" /\ turn'.known = n + 1
  <2>1. CASE AskRebuilt
    <3>1. turn' = [turn EXCEPT !.no = turn.no + 1, !.at = "agent", !.step = 0, !.known = n + 1, !.cut = FALSE]
      BY <1>2, <2>1 DEF AskRebuilt
    <3>2. TurnTo(turn', "agent", n + 1, turn.late, FALSE)
      BY <1>2, <3>1, TurnAskedAnew, Zenon
    <3>. QED
      BY <3>2 DEF TurnTo
  <2>2. CASE AskForked
    BY <1>2, <2>2 DEF AskForked
  <2>. QED
    BY <2>1, <2>2
<1>9. Longer(g, said, n, n + 1) /\ Rows(g) /\ Told(g, g, n + 1, late2, "agent")
  BY <1>1, <1>2, <1>3, ToldAsk
<1>10. Shown(g, g, n + 1)
  <2>1. g \in Seq(Msgs(n + 1)) /\ Len(g) = n + 1
    <3>1. g \in Seq(Msgs(n + 1))
      BY <1>3, <1>4, <1>5
    <3>. QED
      BY <1>9, <3>1 DEF Longer
  <2>2. InTime(g) /\ Selfs(g)
    BY <1>9 DEF Told
  <2>3. Shown(g, g, Len(g))
    BY <1>4, <1>9, <2>1, <2>2, RowsShown
  <2>. QED
    BY <2>1, <2>3
<1>. QED
  BY <1>6, <1>7, <1>8, <1>9, <1>10 DEF Tells

\* An answer, to a request made in whatever way.
LEMMA AnswerTells ==
  ASSUME ToldInv, turn.at = "agent", NEW body \in Seq(Msgs(Len(said))), NEW how,
         how = "plain" => \A r : Safe(window, r) => Safe(body, r),
         NEW cached, cached \subseteq Cacheable(window), Respond(body, how, cached)
  PROVE  Tells'
<1>1. PICK n : n = Len(said)
  OBVIOUS
<1>2. /\ n \in Nat /\ said \in Seq(Msgs(n)) /\ window \in Seq(Msgs(n)) /\ TurnIs(turn) /\ NextRow = n + 1
      /\ Good(said, window, turn.known, turn.late, "agent")
      /\ Told(said, window, turn.known, turn.late, "agent")
      /\ ~turn.cut => Shown(said, window, turn.known)
  BY <1>1 DEF ToldInv, Tells, WinInv, Good, WindowTypes, NextRow
<1>3. body \in Seq(Msgs(n))
  BY <1>1
<1>4. PICK m \in 0..2 :
        LET x == IF m = 0 THEN Text({n + 1}) ELSE Calls(n + 1, m)
        IN /\ said' = Append(said, x)
           /\ window' = Append(WithCached(body, cached), x)
           /\ sent' = [how |-> how, body |-> body]
           /\ turn' = [turn EXCEPT !.at = IF m = 0 THEN "idle" ELSE "tools", !.step = turn.step + 1,
                                   !.known = n + 1, !.cut = turn.cut \/ how # "plain"]
  BY <1>2 DEF Respond
<1>5. PICK x, at2, f : /\ x = IF m = 0 THEN Text({n + 1}) ELSE Calls(n + 1, m)
                       /\ at2 = IF m = 0 THEN "idle" ELSE "tools"
                       /\ f = (turn.cut \/ how # "plain")
  OBVIOUS
<1>6. /\ said' = Append(said, x) /\ window' = Append(WithCached(body, cached), x)
      /\ turn' = [turn EXCEPT !.at = at2, !.step = turn.step + 1, !.known = n + 1, !.cut = f]
  BY <1>4, <1>5
<1>7. TurnTo(turn', at2, n + 1, turn.late, f)
  BY <1>2, <1>6, TurnStepped, Zenon
<1>8. RowOf(x, n)
  <2>1. x \in Msgs(n + 1) /\ x.kind = (IF m = 0 THEN "text" ELSE "calls") /\ \A c \in x.calls : c[1] = n + 1
    BY <1>2, <1>5, AnswerIs
  <2>2. x.about = {n + 1}
    BY <1>5 DEF Text, Calls
  <2>. QED
    BY <2>1, <2>2 DEF RowOf
<1>9. PICK c : c = SetToSeq(cached \ Range(body))
  OBVIOUS
<1>10. c \in Seq(Msgs(n))
  <2>1. OnlyResults(c, n)
    BY <1>1, <1>2, <1>9, CachedOnes
  <2>. QED
    BY <2>1 DEF OnlyResults
<1>11. body \o c \in Seq(Msgs(n)) /\ WithCached(body, cached) = body \o c
  BY <1>3, <1>9, <1>10 DEF WithCached
<1>12. PICK g, v : g = said \o <<x>> /\ v = body \o c \o <<x>>
  OBVIOUS
<1>13. n + 1 \in Nat /\ n <= n + 1 /\ x \in Msgs(n + 1)
  BY <1>2, <1>8 DEF RowOf
<1>14. body \o c \in Seq(Msgs(n + 1)) /\ said \in Seq(Msgs(n + 1))
  BY <1>2, <1>11, <1>13, SeqMsgsGrow
<1>15. said' = g /\ window' = v
  <2>1. Append(said, x) = said \o <<x>>
    BY <1>13, <1>14, AppendIsConcat
  <2>2. Append(body \o c, x) = body \o c \o <<x>>
    BY <1>13, <1>14, AppendIsConcat
  <2>. QED
    BY <1>6, <1>11, <1>12, <2>1, <2>2
<1>16. v[Len(v)] = x
  <2>1. PICK u : u = body \o c
    OBVIOUS
  <2>2. AndBehind(v, u, x)
    BY <1>12, <1>13, <1>14, <2>1, OneBehind
  <2>. QED
    BY <2>2 DEF AndBehind
<1>17. Longer(g, said, n, n + 1) /\ g[n + 1] = x /\ Told(g, v, n + 1, turn.late, at2)
  <2>1. /\ n = Len(said) /\ g = said \o <<x>> /\ v[Len(v)] = x /\ RowOf(x, n)
        /\ Good(said, window, turn.known, turn.late, "agent")
        /\ Told(said, window, turn.known, turn.late, "agent")
    BY <1>1, <1>2, <1>8, <1>12, <1>16
  <2>2. InTime(said) /\ Selfs(said)
    BY <2>1 DEF Told
  <2>3. RowTold(g, said, n, x)
    BY <2>1, <2>2, ToldRow, Zenon
  <2>4. Told(g, v, n + 1, turn.late, at2)
    BY <2>1, ToldAnswer, Zenon
  <2>. QED
    BY <2>3, <2>4 DEF RowTold
<1>18. ~f => Shown(g, v, n + 1)
  <2>1. SUFFICES ASSUME ~f PROVE Shown(g, v, n + 1)
    OBVIOUS
  <2>2. Shown(said, window, turn.known) /\ \A r : Safe(window, r) => Safe(body, r)
    BY <1>2, <1>5, <2>1
  <2>. QED
    BY <1>1, <1>2, <1>3, <1>8, <1>10, <1>12, <1>17, <2>2, ShownAnswer
<1>. QED
  BY <1>7, <1>15, <1>17, <1>18 DEF Tells, TurnTo

\* A step that sends a request.  Only the plain one leaves the window uncut.
LEMMA StepTells ==
  ASSUME ToldInv, StepPlain \/ StepCompressed \/ StepEmergency
  PROVE  Tells'
<1>1. PICK n : n = Len(said)
  OBVIOUS
<1>2. n \in Nat /\ window \in Seq(Msgs(n))
  BY <1>1 DEF ToldInv, WinInv, Good, WindowTypes
<1>3. /\ RequestFrom(Sanitize(Repair(window)), window, n)
      /\ RequestFrom(Sanitize(LastOnes(Repair(window))), window, n)
      /\ \A k \in DOMAIN Repair(window) :
           /\ RequestFrom(Sanitize(From(Repair(window), k)), window, n)
           /\ RequestFrom(Sanitize(LastThree(Repair(window), k)), window, n)
  BY <1>2, Requests
<1>4. turn.at = "agent"
  BY DEF StepPlain, StepCompressed, StepEmergency
<1>5. CASE StepPlain
  <2>1. PICK S \in SUBSET Cacheable(window) : Respond(Sanitize(Repair(window)), "plain", S)
    BY <1>5 DEF StepPlain
  <2>2. PICK a, b : a = Repair(window) /\ b = Sanitize(a)
    OBVIOUS
  <2>3. a \in Seq(Msgs(n)) /\ b \in Seq(Msgs(n))
    BY <1>2, <1>3, <2>2, RepairIsFull DEF RequestFrom
  <2>4. \A r : Safe(window, r) => Safe(b, r)
    <3>1. ASSUME NEW r, Safe(window, r) PROVE Safe(b, r)
      <4>1. Safe(a, r)
        BY <1>2, <2>2, <3>1, RepairKeepsSafe
      <4>. QED
        BY <1>2, <2>2, <2>3, <4>1, SanitizeKeepsSafe
    <3>. QED
      BY <3>1
  <2>5. /\ b \in Seq(Msgs(Len(said))) /\ Respond(b, "plain", S) /\ S \subseteq Cacheable(window)
        /\ "plain" = "plain" => \A r : Safe(window, r) => Safe(b, r)
    BY <1>1, <2>1, <2>2, <2>3, <2>4
  <2>. QED
    BY <1>4, <2>5, AnswerTells, Zenon
<1>6. ASSUME NEW body, RequestFrom(body, window, n), NEW how, how # "plain", Respond(body, how, {}) PROVE Tells'
  <2>1. PICK Z : Z = {}
    OBVIOUS
  <2>2. Respond(body, how, Z) /\ Z \subseteq Cacheable(window)
    BY <1>6, <2>1
  <2>3. body \in Seq(Msgs(Len(said))) /\ (how = "plain" => \A r : Safe(window, r) => Safe(body, r))
    BY <1>1, <1>6 DEF RequestFrom
  <2>. QED
    BY <1>4, <2>2, <2>3, AnswerTells, Zenon
<1>7. CASE StepCompressed
  <2>1. PICK k \in DOMAIN Repair(window) : Respond(Sanitize(From(Repair(window), k)), "compressed", {})
    BY <1>7 DEF StepCompressed
  <2>2. RequestFrom(Sanitize(From(Repair(window), k)), window, n) /\ "compressed" # "plain"
    BY <1>3
  <2>. QED
    BY <1>6, <2>1, <2>2, Zenon
<1>8. CASE StepEmergency
  <2>1. "emergency" # "plain"
    OBVIOUS
  <2>2. CASE Respond(Sanitize(LastOnes(Repair(window))), "emergency", {})
    BY <1>3, <1>6, <2>1, <2>2, Zenon
  <2>3. CASE \E k \in DOMAIN Repair(window) : Respond(Sanitize(LastThree(Repair(window), k)), "emergency", {})
    <3>1. PICK k \in DOMAIN Repair(window) : Respond(Sanitize(LastThree(Repair(window), k)), "emergency", {})
      BY <2>3
    <3>2. RequestFrom(Sanitize(LastThree(Repair(window), k)), window, n)
      BY <1>3
    <3>. QED
      BY <1>6, <2>1, <3>1, <3>2, Zenon
  <2>. QED
    BY <1>8, <2>2, <2>3 DEF StepEmergency
<1>. QED
  BY <1>5, <1>7, <1>8

\* A step that rejects cuts everything but its notice.
LEMMA RejectedTells ==
  ASSUME ToldInv, StepRejected
  PROVE  Tells'
<1>1. PICK n : n = Len(said)
  OBVIOUS
<1>2. /\ n \in Nat /\ said \in Seq(Msgs(n)) /\ TurnIs(turn) /\ NextRow = n + 1
      /\ Good(said, window, turn.known, turn.late, "agent")
      /\ Told(said, window, turn.known, turn.late, "agent")
  BY <1>1 DEF ToldInv, Tells, WinInv, Good, WindowTypes, NextRow, StepRejected
<1>3. PICK x, g, v : x = Text({n + 1}) /\ g = said \o <<x>> /\ v = <<x>>
  OBVIOUS
<1>4. RowOf(x, n)
  <2>1. n + 1 \in Nat /\ {n + 1} \in SUBSET (1..(n + 1)) /\ x.about = {n + 1}
    BY <1>2, <1>3 DEF Text
  <2>2. x \in Msgs(n + 1) /\ x.kind = "text" /\ x.calls = {}
    BY <1>3, <2>1, TextIsMsg
  <2>. QED
    BY <2>1, <2>2 DEF RowOf
<1>5. said' = g /\ window' = v
  <2>1. said' = Append(said, x) /\ window' = v
    BY <1>2, <1>3 DEF StepRejected
  <2>2. n + 1 \in Nat /\ n <= n + 1 /\ x \in Msgs(n + 1)
    BY <1>2, <1>4 DEF RowOf
  <2>3. said \in Seq(Msgs(n + 1))
    BY <1>2, <2>2, SeqMsgsGrow
  <2>4. Append(said, x) = said \o <<x>>
    BY <2>2, <2>3, AppendIsConcat
  <2>. QED
    BY <1>3, <2>1, <2>4
<1>6. TurnTo(turn', "idle", n + 1, turn.late, TRUE)
  <2>1. turn' = [turn EXCEPT !.at = "idle", !.step = turn.step + 1, !.known = n + 1, !.cut = TRUE]
    BY <1>2 DEF StepRejected
  <2>. QED
    BY <1>2, <2>1, TurnStepped, Zenon
<1>7. v[Len(v)] = x
  BY <1>3
<1>8. Told(g, v, n + 1, turn.late, "idle")
  BY <1>1, <1>2, <1>3, <1>4, <1>7, ToldAnswer
<1>. QED
  BY <1>5, <1>6, <1>8 DEF Tells, TurnTo

\* A reply of the user.
LEMMA DecideTells ==
  ASSUME ToldInv, Decide
  PROVE  Tells'
<1>1. PICK n : n = Len(said)
  OBVIOUS
<1>2. /\ n \in Nat /\ said \in Seq(Msgs(n)) /\ TurnIs(turn) /\ NextRow = n + 1 /\ turn.at = "tools"
      /\ Good(said, window, turn.known, turn.late, "tools")
      /\ Told(said, window, turn.known, turn.late, "tools")
      /\ ~turn.cut => Shown(said, window, turn.known)
  BY <1>1 DEF ToldInv, Tells, WinInv, Good, WindowTypes, NextRow, Decide
<1>3. PICK g : g = said \o <<UserReply(n + 1)>>
  OBVIOUS
<1>4. said' = g /\ window' = window
  <2>1. said' = Append(said, UserReply(n + 1)) /\ window' = window
    BY <1>2 DEF Decide
  <2>2. n + 1 \in Nat \ {0} /\ n + 1 \in Nat /\ n <= n + 1
    BY <1>2
  <2>3. UserReply(n + 1) \in Msgs(n + 1) /\ said \in Seq(Msgs(n + 1))
    BY <1>2, <2>2, UserIs, SeqMsgsGrow
  <2>4. Append(said, UserReply(n + 1)) = said \o <<UserReply(n + 1)>>
    BY <2>3, AppendIsConcat
  <2>. QED
    BY <1>3, <2>1, <2>4
<1>5. TurnTo(turn', "tools", n + 1, turn.late, turn.cut)
  <2>1. turn' = [turn EXCEPT !.known = n + 1]
    BY <1>2 DEF Decide
  <2>2. TurnTo(turn', turn.at, n + 1, turn.late, turn.cut)
    BY <1>2, <2>1, TurnKnows, Zenon
  <2>. QED
    BY <1>2, <2>2
<1>6. /\ Longer(g, said, n, n + 1) /\ g[n + 1].kind = "reply"
      /\ Told(g, window, n + 1, turn.late, "tools")
  BY <1>1, <1>2, <1>3, ToldDecide
<1>7. ~turn.cut => Shown(g, window, n + 1)
  BY <1>1, <1>2, <1>6, ShownDecide
<1>. QED
  BY <1>4, <1>5, <1>6, <1>7 DEF Tells, TurnTo

\* A turn given up while its workers run.
LEMMA AbandonTells ==
  ASSUME ToldInv, Abandon
  PROVE  Tells'
<1>1. /\ TurnIs(turn) /\ Good(said, window, turn.known, turn.late, "tools")
      /\ Told(said, window, turn.known, turn.late, "tools")
      /\ ~turn.cut => Shown(said, window, turn.known)
  BY DEF ToldInv, Tells, WinInv, Abandon
<1>2. said' = said /\ window' = window
  BY DEF Abandon
<1>3. PICK S : S = turn.late \cup window[Len(window)].calls
  OBVIOUS
<1>4. TurnTo(turn', "idle", turn.known, S, turn.cut)
  <2>1. turn' = [turn EXCEPT !.at = "idle", !.late = S]
    BY <1>3 DEF Abandon, Open, Last
  <2>. QED
    BY <1>1, <2>1, TurnLeft, Zenon
<1>5. Told(said, window, turn.known, S, "idle")
  BY <1>1, <1>3, ToldAbandon
<1>. QED
  BY <1>1, <1>2, <1>4, <1>5 DEF Tells, TurnTo

\* A worker that settles its call itself.
LEMMA LateTells ==
  ASSUME ToldInv, LateResult
  PROVE  Tells'
<1>1. PICK n : n = Len(said)
  OBVIOUS
<1>2. /\ n \in Nat /\ said \in Seq(Msgs(n)) /\ TurnIs(turn) /\ NextRow = n + 1
      /\ Good(said, window, turn.known, turn.late, turn.at) /\ turn.known \in 0..n
      /\ Told(said, window, turn.known, turn.late, turn.at)
      /\ ~turn.cut => Shown(said, window, turn.known)
  BY <1>1 DEF ToldInv, Tells, WinInv, Good, WindowTypes, NextRow
<1>3. PICK c \in turn.late : /\ said' = Append(said, Result(c, {n + 1}))
                             /\ turn' = [turn EXCEPT !.late = turn.late \ {c}]
                             /\ window' = window
  BY <1>2 DEF LateResult
<1>4. PICK x, g : x = Result(c, {n + 1}) /\ g = said'
  OBVIOUS
<1>5. /\ x.kind = "result" /\ x.calls = {} /\ x.about = {n + 1} /\ x.of = c
      /\ g = Append(said, x)
  BY <1>3, <1>4 DEF Result
<1>6. Longer(g, said, n, n + 1) /\ g[n + 1] = x
  <2>1. Len(g) = n + 1 /\ g[n + 1] = x /\ \A p \in 1..n : g[p] = said[p]
    BY <1>1, <1>2, <1>5
  <2>. QED
    BY <1>1, <1>2, <2>1 DEF Longer
<1>7. TurnTo(turn', turn.at, turn.known, turn.late \ {c}, turn.cut)
  BY <1>2, <1>3, TurnLate, Zenon
<1>8. Told(g, window, turn.known, turn.late \ {c}, turn.at)
  BY <1>1, <1>2, <1>5, <1>6, ToldLate
<1>9. ~turn.cut => Shown(g, window, turn.known)
  <2>1. /\ turn.known \in turn.known..n + 1
        /\ \A j \in turn.known + 1..turn.known : ShownRow(g, window, j)
        /\ \A r : Safe(window, r) => Safe(window, r)
    BY <1>2
  <2>. QED
    BY <1>2, <1>6, <2>1, ShownMore
<1>. QED
  BY <1>3, <1>4, <1>7, <1>8, <1>9 DEF Tells, TurnTo

\* The tools node.
LEMMA ToolsTells ==
  ASSUME ToldInv, ToolsStep
  PROVE  Tells'
<1>1. PICK n : n = Len(said)
  OBVIOUS
<1>2. /\ n \in Nat /\ said \in Seq(Msgs(n)) /\ window \in Seq(Msgs(n)) /\ TurnIs(turn)
      /\ Good(said, window, turn.known, turn.late, "tools")
      /\ Told(said, window, turn.known, turn.late, "tools")
      /\ ~turn.cut => Shown(said, window, turn.known)
  BY <1>1 DEF ToldInv, Tells, WinInv, Good, WindowTypes, ToolsStep
<1>3. PICK b, q : OpenAnswered(b, q)
  BY <1>1, <1>2, OpenAreAnswered
<1>4. /\ q \in Nat /\ b \in Seq(Msgs(n + q)) /\ Len(b) = q
      /\ said' = said \o b /\ window' = window \o b /\ sent' = sent
      /\ turn' = [turn EXCEPT !.at = "agent", !.known = n + q]
      /\ \A d \in 1..q : /\ b[d].kind = "result" /\ b[d].calls = {} /\ b[d].about = {n + d}
                         /\ b[d].of \in window[Len(window)].calls
                         /\ \A e \in 1..(d - 1) : b[e].of # b[d].of
  BY <1>1, <1>3 DEF OpenAnswered
<1>5. TurnTo(turn', "agent", n + q, turn.late, turn.cut)
  BY <1>2, <1>4, TurnMoved, Zenon
<1>6. PICK g : g = said \o b
  OBVIOUS
<1>7. Longer(g, said, n, n + q) /\ \A d \in 1..q : g[n + d] = b[d]
  <2>1. n + q \in Nat /\ n <= n + q
    BY <1>2, <1>4
  <2>2. said \in Seq(Msgs(n + q))
    BY <1>2, <2>1, SeqMsgsGrow
  <2>3. PICK S : S = Msgs(n + q)
    OBVIOUS
  <2>4. said \in Seq(S) /\ b \in Seq(S)
    BY <1>4, <2>2, <2>3
  <2>5. /\ g \in Seq(S) /\ Len(g) = Len(said) + Len(b) /\ Len(said) \in Nat /\ Len(b) \in Nat
        /\ \A p \in 1..Len(said) : g[p] = said[p]
        /\ \A d \in 1..Len(b) : g[Len(said) + d] = b[d]
        /\ \A p \in 1..Len(g) : p \in 1..Len(said) \/ p - Len(said) \in 1..Len(b)
    BY <1>6, <2>4, Joined
  <2>. QED
    BY <1>1, <1>2, <1>4, <2>1, <2>5 DEF Longer
<1>8. Told(g, window \o b, n + q, turn.late, "agent")
  <2>1. \A d \in 1..q : /\ g[n + d].kind = "result" /\ g[n + d].calls = {} /\ g[n + d].about = {n + d}
                        /\ g[n + d].of \in window[Len(window)].calls
    BY <1>4, <1>7
  <2>. QED
    BY <1>1, <1>2, <1>4, <1>7, <2>1, ToldTools
<1>9. ~turn.cut => Shown(g, window \o b, n + q)
  <2>1. SUFFICES ASSUME ~turn.cut PROVE Shown(g, window \o b, n + q)
    OBVIOUS
  <2>. QED
    BY <1>1, <1>2, <1>4, <1>7, <2>1, ShownTools
<1>. QED
  BY <1>4, <1>5, <1>6, <1>8, <1>9 DEF Tells, TurnTo

\* The empty window.
LEMMA InitTells == WindowInit => ToldInv
<1> SUFFICES ASSUME WindowInit PROVE ToldInv
  OBVIOUS
<1>1. /\ said = <<>> /\ window = <<>>
      /\ turn = [no |-> 0, at |-> "idle", step |-> 0, known |-> 0, late |-> {}, cut |-> FALSE]
  BY DEF WindowInit
<1>2. turn.at = "idle" /\ turn.known = 0 /\ turn.late = {}
  BY <1>1
<1>3. Len(said) = 0 /\ (\A i \in 1..0 : FALSE) /\ \A i \in 0 + 1..0 : FALSE
  <2>1. Len(said) = 0
    BY <1>1
  <2>. QED
    BY <2>1
<1>4. Told(said, window, turn.known, turn.late, turn.at)
  BY <1>2, <1>3 DEF Told, InTime, Selfs, LateAre, OpenAre, BehindAre
<1>5. Shown(said, window, turn.known)
  BY <1>2, <1>3 DEF Shown
<1>. QED
  BY <1>4, <1>5, InitWindow DEF ToldInv, Tells

\* One case for each action.
LEMMA ToldStep == ToldInv /\ [WindowNext]_wvars => ToldInv'
<1> SUFFICES ASSUME ToldInv, [WindowNext]_wvars PROVE ToldInv'
  OBVIOUS
<1>1. WinInv'
  BY WindowStep DEF ToldInv
<1>2. Tells'
  <2>1. CASE AskQuestion
    BY <2>1, AskTells
  <2>2. CASE AskRebuilt \/ AskForked
    BY <2>2, RebuiltTells
  <2>3. CASE StepPlain \/ StepCompressed \/ StepEmergency
    BY <2>3, StepTells
  <2>4. CASE StepRejected
    BY <2>4, RejectedTells
  <2>5. CASE Decide
    BY <2>5, DecideTells
  <2>6. CASE ToolsStep
    BY <2>6, ToolsTells
  <2>7. CASE Abandon
    BY <2>7, AbandonTells
  <2>8. CASE LateResult
    BY <2>8, LateTells
  <2>9. CASE UNCHANGED wvars
    <3>1. said' = said /\ window' = window /\ turn' = turn
      BY <2>9 DEF wvars
    <3>2. Tells
      BY DEF ToldInv
    <3>3. /\ Told(said', window', turn'.known, turn'.late, turn'.at)
          /\ ~turn'.cut => Shown(said', window', turn'.known)
      BY <3>1, <3>2 DEF Tells
    <3>. QED
      BY <3>3 DEF Tells
  <2>. QED
    BY <2>1, <2>2, <2>3, <2>4, <2>5, <2>6, <2>7, <2>8, <2>9 DEF WindowNext
<1>. QED
  BY <1>1, <1>2 DEF ToldInv

\* What is shown for good is in the window.
LEMMA ToldSays == ToldInv => NothingForgotten
<1> SUFFICES ASSUME ToldInv, ~turn.cut, NEW i \in 1..turn.known
             PROVE  said[i].kind = "reply" \/ CameLate(i) \/ i \in About(window)
  BY DEF NothingForgotten
<1>1. PICK n : n = Len(said)
  OBVIOUS
<1>2. n \in Nat /\ said \in Seq(Msgs(n)) /\ window \in Seq(Msgs(n)) /\ turn.known \in 0..n
  BY <1>1 DEF ToldInv, WinInv, Good, WindowTypes
<1>3. said[i].kind = "reply" \/ Came(said, i) \/ Safe(window, i)
  BY DEF ToldInv, Tells, Shown, ShownRow
<1>4. ASSUME Came(said, i) PROVE CameLate(i)
  <2>1. PICK a \in 1..i - 1 : said[i].of \in said[a].calls /\ UserBetween(said, a, i)
    BY <1>4 DEF Came
  <2>2. PICK k \in a + 1..i - 1 : said[k].kind = "user"
    BY <2>1 DEF UserBetween
  <2>3. k \in 1..i - 1 /\ a < k
    BY <1>2, <2>1, <2>2
  <2>. QED
    BY <2>1, <2>2, <2>3 DEF CameLate
<1>5. ASSUME Safe(window, i) PROVE i \in About(window)
  <2>1. PICK p \in 1..Len(window) : i \in window[p].about
    BY <1>5 DEF Safe
  <2>2. p \in DOMAIN window
    BY <1>2, <2>1
  <2>. QED
    BY <2>1, <2>2 DEF About
<1>. QED
  BY <1>3, <1>4, <1>5

\* Until a compression, a rejection or an emergency cuts the window, what the model is shown
\* stands for every row the checkpoint covers, but replies and results that came after the next
\* question: whatever append_window_messages, rebuild_window, repair_orphan_tool_calls and
\* sanitize_working_messages have done to it, over all turns, branches, recoveries and late results.
THEOREM NothingIsForgotten == WindowSpec => []NothingForgotten
<1>1. WindowInit => ToldInv
  BY InitTells
<1>2. ToldInv /\ [WindowNext]_wvars => ToldInv'
  BY ToldStep
<1>3. ToldInv => NothingForgotten
  BY ToldSays
<1>. QED
  BY <1>1, <1>2, <1>3, PTL DEF WindowSpec
=============================================================================
