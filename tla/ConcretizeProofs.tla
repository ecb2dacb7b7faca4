-------------------------- MODULE ConcretizeProofs --------------------------
(***************************************************************************)
(* Proofs about Concretize, for any holes, harnesses, sketches and number  *)
(* of attempts.                                                            *)
(***************************************************************************)
EXTENDS Concretize, FiniteSetTheorems, WellFoundedInduction, TLAPS

(* A non-empty set of numbers has a least element: the form in which the   *)
(* proofs below use induction.                                             *)
LEMMA NatOrder == IsWellFoundedOn({p \in Nat \X Nat : p[1] < p[2]}, Nat)
  BY NatLessThanWellFounded DEF OpToRel

LEMMA Least ==
  ASSUME NEW T \in SUBSET Nat, T # {}
  PROVE  \E x \in T : \A y \in T : x <= y
<1>1. PICK x \in T :
        \A y \in T : <<y, x>> \notin {p \in Nat \X Nat : p[1] < p[2]}
  BY NatOrder, WFMin
<1>2. ASSUME NEW y \in T PROVE ~ (y < x)
  <2>1. <<y, x>> \in Nat \X Nat
    OBVIOUS
  <2>2. QED
    BY <2>1, <1>1
<1>3. QED
  BY <1>2

(* f is what the step F makes of A when it is repeated up to N times.      *)
Repeats(f, S, A, F, N) ==
  /\ f \in [0 .. N -> S]
  /\ f[0] = A
  /\ \A n \in 1 .. N : f[n] = F[f[n - 1]]

(* Such a function exists.                                                 *)
LEMMA Repeating ==
  ASSUME NEW S, NEW A \in S, NEW F \in [S -> S], NEW N \in Nat
  PROVE  \E f : Repeats(f, S, A, F, N)
<1> DEFINE Def(f, n) == f = [k \in 0 .. n |-> IF k = 0 THEN A ELSE F[f[k - 1]]]
           T == {n \in Nat : ~ \E f \in [0 .. n -> S] : Def(f, n)}
<1>1. SUFFICES ASSUME T # {} PROVE FALSE
  <2>1. ASSUME NEW f \in [0 .. N -> S], Def(f, N)
        PROVE  Repeats(f, S, A, F, N)
    <3>1. 0 \in 0 .. N /\ \A n \in 1 .. N : n \in 0 .. N /\ n # 0
      OBVIOUS
    <3>2. QED
      BY <2>1, <3>1 DEF Repeats
  <2>2. QED
    BY <2>1
<1>2. PICK m \in T : \A y \in T : m <= y
  <2>1. T \in SUBSET Nat
    OBVIOUS
  <2>2. QED
    BY <1>1, <2>1, Least
<1>3. CASE m = 0
  <2> DEFINE f == [k \in 0 .. 0 |-> A]
  <2>1. f \in [0 .. 0 -> S]
    OBVIOUS
  <2>2. \A k \in 0 .. 0 : k = 0
    OBVIOUS
  <2>3. Def(f, 0)
    BY <2>2
  <2>4. QED
    BY <1>3, <2>1, <2>3
<1>4. CASE m # 0
  <2>1. m - 1 \in Nat /\ m - 1 \notin T
    BY <1>2, <1>4
  <2>2. PICK g \in [0 .. (m - 1) -> S] : Def(g, m - 1)
    BY <2>1
  <2> DEFINE f == [k \in 0 .. m |-> IF k = m THEN F[g[m - 1]] ELSE g[k]]
  <2>3. f \in [0 .. m -> S]
    <3>1. ASSUME NEW k \in 0 .. m, k # m PROVE g[k] \in S
      BY <3>1
    <3>2. F[g[m - 1]] \in S
      BY <2>1
    <3>3. QED
      BY <3>1, <3>2
  <2>4. ASSUME NEW k \in 0 .. m
        PROVE  f[k] = IF k = 0 THEN A ELSE F[f[k - 1]]
    <3>1. CASE k = m
      <4>1. f[k] = F[g[m - 1]]
        BY <3>1
      <4>2. m - 1 \in 0 .. m /\ f[m - 1] = g[m - 1]
        BY <2>1
      <4>3. QED
        BY <3>1, <4>1, <4>2, <1>4
    <3>2. CASE k # m /\ k # 0
      <4>1. k \in 0 .. (m - 1) /\ k - 1 \in 0 .. (m - 1) /\ k - 1 \in 0 .. m
        BY <3>2
      <4>2. g[k] = F[g[k - 1]]
        BY <2>2, <3>2, <4>1
      <4>3. f[k] = g[k] /\ f[k - 1] = g[k - 1]
        BY <3>2, <4>1
      <4>4. QED
        BY <4>2, <4>3, <3>2
    <3>3. CASE k # m /\ k = 0
      <4>1. 0 \in 0 .. (m - 1)
        BY <2>1
      <4>2. g[0] = A
        BY <2>2, <4>1
      <4>3. QED
        BY <3>3, <4>2
    <3>4. QED
      BY <3>1, <3>2, <3>3
  <2>5. Def(f, m)
    <3>1. f = [k \in 0 .. m |-> f[k]]
      OBVIOUS
    <3>2. QED
      BY <3>1, <2>4
  <2>6. QED
    BY <2>3, <2>5
<1>5. QED
  BY <1>3, <1>4

---------------------------------------------------------------------------
(* About unit propagation. *)

Rounds == Cardinality(Holes) * Cardinality(Vals)

LEMMA Finite ==
  /\ Cardinality(Holes) \in Nat /\ Cardinality(Vals) \in Nat \ {0}
  /\ Rounds \in Nat
  /\ Holes # {} => Rounds >= 1
<1>1. Cardinality(Holes) \in Nat /\ Cardinality(Vals) \in Nat
  BY HolesAssumption, ValsAssumption, FS_CardinalityType
<1>2. Cardinality(Vals) # 0
  BY ValsAssumption, FS_EmptySet
<1>3. Holes # {} => Cardinality(Holes) # 0
  BY HolesAssumption, FS_EmptySet
<1>4. \A m, n \in Nat : m * n \in Nat /\ (m # 0 /\ n # 0 => m * n >= 1)
  OBVIOUS
<1>5. QED
  BY <1>1, <1>2, <1>3, <1>4 DEF Rounds

LEMMA PropagateRounds ==
  ASSUME NEW C, NEW L
  PROVE  \E left \in [0 .. Rounds -> SUBSET Facts] :
           /\ left[0] = Possible(L)
           /\ \A n \in 1 .. Rounds : left[n] = Shrink(C, left[n - 1])
           /\ Propagate(C, L) = left[Rounds]
<1> DEFINE Def(f) == f = [n \in 0 .. Rounds |->
                            IF n = 0 THEN Possible(L) ELSE Shrink(C, f[n - 1])]
           F == [D \in SUBSET Facts |-> Shrink(C, D)]
           g == CHOOSE f : Def(f)
<1>1. Possible(L) \in SUBSET Facts
  BY DEF Possible, Facts
<1>2. F \in [SUBSET Facts -> SUBSET Facts]
  BY DEF Shrink
<1> HIDE DEF F
<1>a. Rounds \in Nat
  BY Finite
<1>3. PICK f : Repeats(f, SUBSET Facts, Possible(L), F, Rounds)
  BY <1>1, <1>2, <1>a, Repeating
<1>b. /\ f \in [0 .. Rounds -> SUBSET Facts]
      /\ f[0] = Possible(L)
      /\ \A n \in 1 .. Rounds : f[n] = F[f[n - 1]]
  BY <1>3 DEF Repeats
<1>4. ASSUME NEW n \in 0 .. Rounds, n # 0
      PROVE  F[f[n - 1]] = Shrink(C, f[n - 1])
  <2>1. f[n - 1] \in SUBSET Facts
    BY <1>b, <1>4, Finite
  <2>2. QED
    BY <2>1 DEF F
<1>5. Def(f)
  <2>1. ASSUME NEW n \in 0 .. Rounds
        PROVE  f[n] = IF n = 0 THEN Possible(L) ELSE Shrink(C, f[n - 1])
    <3>1. n # 0 => n \in 1 .. Rounds
      BY <1>a
    <3>2. QED
      BY <3>1, <1>b, <1>4
  <2>2. f = [n \in 0 .. Rounds |-> f[n]]
    BY <1>b
  <2>3. QED
    BY <2>1, <2>2
<1>6. Def(g)
  BY <1>5
<1>8. Propagate(C, L) = g[Rounds]
  BY DEF Propagate, Rounds
<1> HIDE DEF g
<1>7. g = f
  <2> SUFFICES ASSUME ~ (g = f) PROVE FALSE
    OBVIOUS
  <2> DEFINE T == {n \in 0 .. Rounds : g[n] # f[n]}
  <2>0. DOMAIN g = 0 .. Rounds /\ DOMAIN f = 0 .. Rounds
    BY <1>5, <1>6
  <2>1. T # {}
    BY <1>6, <1>5, <2>0
  <2>2. PICK m \in T : \A y \in T : m <= y
    <3>1. T \in SUBSET Nat
      BY Finite
    <3>2. QED
      BY <2>1, <3>1, Least
  <2>3. m # 0
    BY <1>5, <1>6, <2>2
  <2>4. m - 1 \in 0 .. Rounds /\ m - 1 \notin T
    BY <2>2, <2>3, Finite
  <2>5. g[m - 1] = f[m - 1]
    BY <2>4
  <2>6. g[m] = Shrink(C, g[m - 1]) /\ f[m] = Shrink(C, f[m - 1])
    BY <1>5, <1>6, <2>2, <2>3
  <2>7. QED
    BY <2>5, <2>6, <2>2
<1>9. \A n \in 1 .. Rounds : f[n] = Shrink(C, f[n - 1])
  BY <1>5, Finite
<1>10. QED
  BY <1>b, <1>7, <1>8, <1>9

(* Propagation starts from what the levels leave, and only ever rules out. *)
LEMMA PropagateType ==
  ASSUME NEW C, NEW L
  PROVE  Propagate(C, L) \in SUBSET Facts
BY PropagateRounds, Finite

(* Without clauses and levels, everything stays possible.                  *)
LEMMA PropagateNothing ==
  Propagate({}, {}) = Facts
<1>1. PICK left \in [0 .. Rounds -> SUBSET Facts] :
        /\ left[0] = Possible({})
        /\ \A n \in 1 .. Rounds : left[n] = Shrink({}, left[n - 1])
        /\ Propagate({}, {}) = left[Rounds]
  BY PropagateRounds
<1> DEFINE T == {n \in 0 .. Rounds : left[n] # Facts}
<1>2. SUFFICES ASSUME T # {} PROVE FALSE
  BY <1>1, Finite
<1>3. PICK m \in T : \A y \in T : m <= y
  <2>1. T \in SUBSET Nat
    BY Finite
  <2>2. QED
    BY <2>1, <1>2, Least
<1>4. m # 0
  BY <1>1, <1>3 DEF Possible, Facts
<1>5. m - 1 \in 0 .. Rounds /\ m - 1 \notin T /\ m \in 1 .. Rounds
  BY <1>3, <1>4, Finite
<1>6. left[m] = Shrink({}, Facts)
  BY <1>1, <1>5
<1>7. QED
  BY <1>3, <1>6 DEF Shrink

(* Each round loses facts only.                                            *)
LEMMA RoundsShrink ==
  ASSUME NEW C, NEW left \in [0 .. Rounds -> SUBSET Facts],
         \A n \in 1 .. Rounds : left[n] = Shrink(C, left[n - 1]),
         NEW k \in 0 .. Rounds
  PROVE  left[Rounds] \subseteq left[k]
<1> DEFINE T == {n \in Nat : n >= k /\ n <= Rounds /\ ~ (left[n] \subseteq left[k])}
<1>1. SUFFICES ASSUME T # {} PROVE FALSE
  BY Finite
<1>2. PICK m \in T : \A y \in T : m <= y
  BY <1>1, Least
<1>3. m # k
  BY <1>2
<1>4. m - 1 \in Nat /\ m - 1 \notin T /\ m \in 1 .. Rounds /\ m - 1 >= k
  BY <1>2, <1>3, Finite
<1>5. left[m - 1] \subseteq left[k]
  BY <1>2, <1>4, Finite
<1>6. left[m] \subseteq left[m - 1]
  BY <1>4 DEF Shrink
<1>7. QED
  BY <1>2, <1>5, <1>6

(* The levels contradict a clause that consists of levels: what was        *)
(* excluded once is not accepted again.                                    *)
LEMMA ExcludedConflicts ==
  ASSUME NEW C, NEW L, NEW c \in C, c # {}, c \subseteq L, c \subseteq Facts
  PROVE  Conflicting(Propagate(C, L))
<1>1. PICK left \in [0 .. Rounds -> SUBSET Facts] :
        /\ left[0] = Possible(L)
        /\ \A n \in 1 .. Rounds : left[n] = Shrink(C, left[n - 1])
        /\ Propagate(C, L) = left[Rounds]
  BY PropagateRounds
<1>2. PICK p \in c : p \in Facts
  OBVIOUS
<1>3. p[1] \in Holes /\ p[2] \in Vals /\ p = <<p[1], p[2]>>
  BY <1>2 DEF Facts
<1>4. Rounds >= 1 /\ Rounds \in Nat
  BY <1>3, Finite
<1>5. 0 \in 0 .. Rounds /\ 1 \in 1 .. Rounds /\ 1 \in 0 .. Rounds
  BY <1>4
<1>6. left[Rounds] \subseteq left[0] /\ left[Rounds] \subseteq left[1]
  BY <1>1, <1>5, RoundsShrink
<1>7. ASSUME NEW q \in c
      PROVE  q[1] \in Holes /\ Left(left[0], q[1]) \subseteq {q[2]}
  <2>1. q \in L /\ q \in Facts /\ q[1] \in Holes /\ q = <<q[1], q[2]>>
    BY DEF Facts
  <2>2. ASSUME NEW v \in Vals, <<q[1], v>> \in Possible(L) PROVE v = q[2]
    <3>1. q = <<q[1], v>>
      BY <2>1, <2>2 DEF Possible
    <3>2. QED
      BY <3>1, <2>1
  <2>3. QED
    BY <1>1, <2>1, <2>2 DEF Left
<1>8. CASE \E q \in c : Left(left[0], q[1]) = {}
  <2>1. PICK q \in c : Left(left[0], q[1]) = {}
    BY <1>8
  <2>2. Left(left[Rounds], q[1]) = {}
    BY <2>1, <1>6 DEF Left
  <2>3. QED
    BY <2>2, <1>1, <1>7 DEF Conflicting
<1>9. CASE \A q \in c : Left(left[0], q[1]) # {}
  <2>1. \A q \in c : Left(left[0], q[1]) = {q[2]}
    BY <1>7, <1>9
  <2>2. left[1] = Shrink(C, left[0])
    BY <1>1, <1>5
  <2>3. p \notin left[1]
    BY <2>1, <2>2 DEF Shrink
  <2>4. Left(left[Rounds], p[1]) \subseteq {p[2]}
    BY <2>1, <1>6 DEF Left
  <2>5. p[2] \notin Left(left[Rounds], p[1])
    BY <2>3, <1>3, <1>6 DEF Left
  <2>6. Left(left[Rounds], p[1]) = {}
    BY <2>4, <2>5
  <2>7. QED
    BY <2>6, <1>1, <1>3 DEF Conflicting
<1>10. QED
  BY <1>8, <1>9

(* What an assignment says that satisfies the clauses and agrees with the  *)
(* levels is never ruled out.                                              *)
LEMMA PropagateSound ==
  ASSUME NEW C, NEW L \in SUBSET Facts,
         NEW x \in Models(C), x \in Agreeing(L)
  PROVE  \A h \in Holes : <<h, x[h]>> \in Propagate(C, L)
<1>1. PICK left \in [0 .. Rounds -> SUBSET Facts] :
        /\ left[0] = Possible(L)
        /\ \A n \in 1 .. Rounds : left[n] = Shrink(C, left[n - 1])
        /\ Propagate(C, L) = left[Rounds]
  BY PropagateRounds
<1>0. /\ \A h \in Holes : x[h] \in Vals
      /\ \A c \in C : \E p \in c : x[p[1]] # p[2]
      /\ \A p \in L : x[p[1]] = p[2]
  BY DEF Models, Agreeing, Assignments
<1> DEFINE T == {n \in 0 .. Rounds : \E h \in Holes : <<h, x[h]>> \notin left[n]}
<1>2. SUFFICES ASSUME T # {} PROVE FALSE
  <2>1. Rounds \in 0 .. Rounds
    BY Finite
  <2>2. T = {} => \A h \in Holes : <<h, x[h]>> \in left[Rounds]
    BY <2>1
  <2>3. QED
    BY <2>2, <1>1
<1>3. PICK m \in T : \A y \in T : m <= y
  <2>1. T \in SUBSET Nat
    BY Finite
  <2>2. QED
    BY <2>1, <1>2, Least
<1>4. PICK h \in Holes : <<h, x[h]>> \notin left[m]
  BY <1>3
<1>5. m # 0
  <2>1. <<h, x[h]>> \in Facts
    BY <1>0 DEF Facts
  <2>2. ASSUME NEW q \in L, q[1] = h PROVE q = <<h, x[h]>>
    <3>1. q = <<q[1], q[2]>>
      BY DEF Facts
    <3>2. QED
      BY <3>1, <2>2, <1>0
  <2>3. <<h, x[h]>> \in Possible(L)
    BY <2>1, <2>2 DEF Possible, Facts
  <2>4. QED
    BY <2>3, <1>1, <1>4
<1>6. m - 1 \in 0 .. Rounds /\ m - 1 \notin T /\ m \in 1 .. Rounds
  BY <1>3, <1>5, Finite
<1>7. \A g \in Holes : <<g, x[g]>> \in left[m - 1]
  BY <1>6
<1>8. left[m] = Shrink(C, left[m - 1])
  BY <1>1, <1>6
<1>9. PICK c \in C : /\ <<h, x[h]>> \in c
                     /\ \A q \in c \ {<<h, x[h]>>} :
                          Left(left[m - 1], q[1]) = {q[2]}
  BY <1>4, <1>7, <1>8 DEF Shrink
<1>10. PICK p \in c : x[p[1]] # p[2]
  BY <1>0
<1>11. p # <<h, x[h]>>
  BY <1>10
<1>12. Left(left[m - 1], p[1]) = {p[2]}
  BY <1>9, <1>11
<1>13. CASE p[1] \in Holes
  BY <1>0, <1>7, <1>10, <1>12, <1>13 DEF Left
<1>14. CASE p[1] \notin Holes
  <2>1. left[m - 1] \in SUBSET Facts
    BY <1>6
  <2>2. Left(left[m - 1], p[1]) = {}
    BY <2>1, <1>14 DEF Left, Facts
  <2>3. QED
    BY <2>2, <1>12
<1>15. QED
  BY <1>13, <1>14

---------------------------------------------------------------------------
(* The inductive invariants.                                               *)

(* What the types do not say: an attempt is counted when it ends, fixValue *)
(* is at a hole that has no value, and the loop over the harnesses and     *)
(* DepTracker agree while a harness is inlined.                            *)
ControlInv ==
  /\ phase \notin {"unsat", "unknown"} => attempt < Attempts
  /\ phase = "fix" => fix.hole \in Holes /\ randholes[fix.hole] = None
  /\ phase \in {"inline", "fix"} => curHarness = pair

(* Harness i was asserted in this attempt and is still in the finder. *)
WasAsserted(i) ==
  i < pair \/ (i = pair /\ phase \in {"solve", "answered"})

(* What was concretized when a harness was asserted still has the value,   *)
(* and the finder has every other hole of it.                              *)
PinsStand ==
  \A i \in Harnesses : WasAsserted(i) =>
    /\ \A p \in pins[i] : p[1] \in Holes /\ randholes[p[1]] = p[2]
    /\ \A h \in Uses[i] : h \in declared \/ \E p \in pins[i] : p[1] = h

(* A candidate from the finder satisfies its clauses, and the one that is  *)
(* answered passed every harness as it was asserted.                       *)
CandidateInv ==
  /\ phase \in {"solve", "answered"} /\ found => ctrl \in finder
  /\ phase = "answered" =>
       /\ \A i \in 0 .. pair : PassesWith(i, pins[i], ctrl)
       /\ okay => pair = Pairs - 1

(* globalSat: the levels agree with the clauses, and there are none once   *)
(* the clauses contradict each other.                                      *)
GlobalInv ==
  /\ okay => ~ Conflicting(Propagate(clauses, Levels(Len(trail))))
  /\ ~ okay => trail = <<>>
  /\ {} \in clauses => phase = "unsat"

(* Harnesses not yet started have no decisions; and without constraints of *)
(* its own the finder excludes only what fails some harness.               *)
BlameInv ==
  /\ \A i \in Harnesses : i > pair => decisions[i] = {}
  /\ ~ pending /\ phase \in {"next", "inline", "fix", "solve"} =>
       \A x \in Assignments :
         (\A i \in Harnesses : WasAsserted(i) => PassesWith(i, pins[i], x))
         => x \in finder

(* The correct assignments that repeat the decisions of the only harness.  *)
Repeaters == Correct \cap Agreeing(decisions[0])

(* With one harness, decisions and implied values tell all there is to     *)
(* know: a correct assignment that repeats the decisions has the implied   *)
(* values too, and is not among those that fixValue has passed over.       *)
SingleInv ==
  /\ phase \in {"next", "inline", "fix"} => declared = {}
  /\ ~ pending
  /\ Correct \subseteq Models(clauses)
  /\ ~ okay => Correct = {}
  /\ phase = "unsat" => ~ okay
  /\ Levels(Len(trail)) \subseteq decisions[0]
  /\ \A x \in Repeaters, h \in Holes : randholes[h] # None => x[h] = randholes[h]
  /\ phase = "fix" =>
       \A x \in Repeaters : \E k \in 1 .. Len(fix.left) : fix.left[k] = x[fix.hole]
  /\ phase = "failed" => Repeaters = {}

---------------------------------------------------------------------------
(* Types. *)

LEMMA PairsType ==
  /\ Pairs \in Nat /\ 0 \in Harnesses
  /\ Harnesses = {i \in Nat : i < Pairs}
  /\ Harnesses \cup {0} = Harnesses
BY PairsAssumption DEF Harnesses

(* A harness is connected with itself, and with harnesses only.            *)
LEMMA ComponentType ==
  ASSUME NEW i \in Harnesses
  PROVE  i \in Component(i) /\ Component(i) \subseteq Harnesses
<1> DEFINE Near(R) == R \cup {j \in Harnesses : \E k \in R : Connected(k, j)}
           Def(f) == f = [n \in 0 .. Pairs |->
                            IF n = 0 THEN {i} ELSE Near(f[n - 1])]
           S == {R \in SUBSET Harnesses : i \in R}
           F == [R \in S |-> Near(R)]
           g == CHOOSE f : Def(f)
<1>1. {i} \in S /\ F \in [S -> S] /\ Pairs \in Nat
  BY PairsAssumption
<1>2. Component(i) = g[Pairs]
  BY DEF Component
<1> HIDE DEF F, S, g
<1>3. PICK f : Repeats(f, S, {i}, F, Pairs)
  BY <1>1, Repeating
<1>4. /\ f \in [0 .. Pairs -> S]
      /\ f[0] = {i}
      /\ \A n \in 1 .. Pairs : f[n] = F[f[n - 1]]
  BY <1>3 DEF Repeats
<1>5. Def(f)
  <2>1. ASSUME NEW n \in 0 .. Pairs
        PROVE  f[n] = IF n = 0 THEN {i} ELSE Near(f[n - 1])
    <3>1. CASE n = 0
      BY <3>1, <1>4
    <3>2. CASE n # 0
      <4>1. n \in 1 .. Pairs /\ n - 1 \in 0 .. Pairs
        BY <3>2, <1>1
      <4>2. f[n] = F[f[n - 1]] /\ f[n - 1] \in S
        BY <4>1, <1>4
      <4>3. F[f[n - 1]] = Near(f[n - 1])
        BY <4>2 DEF F
      <4>4. QED
        BY <4>2, <4>3, <3>2
    <3>3. QED
      BY <3>1, <3>2
  <2>2. f = [n \in 0 .. Pairs |-> f[n]]
    BY <1>4
  <2>3. QED
    BY <2>1, <2>2
<1>6. Def(g)
  BY <1>5 DEF g
<1> DEFINE T == {n \in 0 .. Pairs : g[n] \notin S}
<1>7. T = {}
  <2>1. SUFFICES ASSUME T # {} PROVE FALSE
    OBVIOUS
  <2>2. PICK m \in T : \A y \in T : m <= y
    <3>1. T \in SUBSET Nat
      BY <1>1
    <3>2. QED
      BY <2>1, <3>1, Least
  <2>3. m # 0
    BY <1>1, <1>6, <2>2
  <2>4. m - 1 \in 0 .. Pairs /\ m - 1 \notin T
    BY <1>1, <2>2, <2>3
  <2>5. g[m] = Near(g[m - 1])
    BY <1>6, <2>2, <2>3
  <2>6. QED
    BY <2>2, <2>4, <2>5 DEF S
<1>8. g[Pairs] \in S
  BY <1>1, <1>7
<1>9. QED
  BY <1>2, <1>8 DEF S

LEMMA ConflictType ==
  ASSUME TypeOK
  PROVE  Conflict \in SUBSET Facts
BY PairsType, ComponentType DEF TypeOK, Conflict

(* The first n levels. *)
LEMMA LevelsType ==
  ASSUME NEW n \in Nat, trail \in Seq(Facts), n <= Len(trail)
  PROVE  /\ Levels(n) \in SUBSET Facts
         /\ Levels(n) \subseteq Levels(Len(trail))
         /\ Levels(0) = {}
BY DEF Levels

LEMMA AppendLevels ==
  ASSUME trail \in Seq(Facts), NEW p \in Facts, trail' = Append(trail, p)
  PROVE  Levels(Len(trail))' = Levels(Len(trail)) \cup {p}
<1>1. /\ Len(trail) \in Nat
      /\ Len(trail') = Len(trail) + 1
      /\ trail'[Len(trail) + 1] = p
      /\ \A k \in 1 .. Len(trail) : trail'[k] = trail[k]
  OBVIOUS
<1>2. QED
  BY <1>1 DEF Levels

LEMMA TryTypes ==
  ASSUME TypeOK, NEW p \in Facts, TrySucceeds(p) \/ TryFails(p)
  PROVE  /\ clauses' \subseteq SUBSET Facts
         /\ trail' \in Seq(Facts)
         /\ okay' \in BOOLEAN
<1>1. CASE TrySucceeds(p)
  BY <1>1 DEF TypeOK, TrySucceeds
<1>2. CASE ~ okay /\ UNCHANGED globalVars
  BY <1>2 DEF TypeOK, globalVars
<1>3. ASSUME NEW b \in 0 .. Len(trail),
             NEW L \in SUBSET (Levels(Len(trail)) \cup {p}),
             clauses' = clauses \cup {L},
             trail' = SubSeq(trail, 1, b),
             LET left == Propagate(clauses \cup {L}, Levels(b))
             IN  IF b > 0 THEN ~ Conflicting(left) /\ UNCHANGED okay
                 ELSE okay' = ~ Conflicting(left)
      PROVE  /\ clauses' \subseteq SUBSET Facts
             /\ trail' \in Seq(Facts)
             /\ okay' \in BOOLEAN
  <2>1. trail \in Seq(Facts) /\ Len(trail) \in Nat /\ okay \in BOOLEAN
    BY DEF TypeOK
  <2>2. Levels(Len(trail)) \in SUBSET Facts
    BY <2>1, LevelsType
  <2>3. clauses' \subseteq SUBSET Facts
    BY <1>3, <2>2 DEF TypeOK
  <2>4. trail' \in Seq(Facts)
    BY <1>3, <2>1
  <2>5. okay' \in BOOLEAN
    BY <1>3, <2>1 DEF Conflicting
  <2>6. QED
    BY <2>3, <2>4, <2>5
<1>4. QED
  BY <1>1, <1>2, <1>3 DEF TryFails

(* What the alternatives of fixValue do to its own state.                  *)
LEMMA FixTypes ==
  ASSUME TypeOK, ControlInv, phase = "fix", fix.left # <<>>
  PROVE  LET h == fix.hole
             v == Head(fix.left)
         IN  /\ h \in Holes /\ v \in Vals /\ <<h, v>> \in Facts
             /\ \A q \in BOOLEAN : Take(h, v, q) =>
                  /\ randholes' \in [Holes -> Vals \cup {None}]
                  /\ decisions' \in [Harnesses -> SUBSET Facts]
                  /\ fix' \in [hole : Holes \cup {"none"}, left : Seq(Vals)]
                  /\ phase' = "inline"
             /\ Skip =>
                  /\ fix' \in [hole : Holes \cup {"none"}, left : Seq(Vals)]
                  /\ fix'.hole = fix.hole
                  /\ fix'.left = Tail(fix.left)
                  /\ phase' = "fix" /\ UNCHANGED <<randholes, decisions>>
             /\ Throw =>
                  /\ fix' \in [hole : Holes \cup {"none"}, left : Seq(Vals)]
                  /\ phase' \in {"crashed", "failed"}
                  /\ UNCHANGED <<randholes, decisions>>
<1> DEFINE h == fix.hole
           v == Head(fix.left)
<1>1. /\ fix.left \in Seq(Vals) /\ fix.hole \in Holes
      /\ fix \in [hole : Holes \cup {"none"}, left : Seq(Vals)]
  BY DEF TypeOK, ControlInv
<1>2. v \in Vals /\ Tail(fix.left) \in Seq(Vals)
  BY <1>1
<1>3. <<h, v>> \in Facts
  BY <1>1, <1>2 DEF Facts
<1>4. NoFix \in [hole : Holes \cup {"none"}, left : Seq(Vals)]
  BY DEF NoFix
<1>5. ASSUME NEW q \in BOOLEAN, Take(h, v, q)
      PROVE  /\ randholes' \in [Holes -> Vals \cup {None}]
             /\ decisions' \in [Harnesses -> SUBSET Facts]
             /\ fix' \in [hole : Holes \cup {"none"}, left : Seq(Vals)]
             /\ phase' = "inline"
  <2>1. Recording(h, v) \in [Harnesses -> SUBSET Facts]
    BY <1>3 DEF TypeOK, Recording
  <2>2. decisions \in [Harnesses -> SUBSET Facts]
    BY DEF TypeOK
  <2>3. randholes' \in [Holes -> Vals \cup {None}]
    BY <1>5, <1>2 DEF TypeOK, Take
  <2>4. QED
    BY <1>4, <1>5, <2>1, <2>2, <2>3 DEF Take
<1>6. ASSUME Skip
      PROVE  /\ fix' \in [hole : Holes \cup {"none"}, left : Seq(Vals)]
             /\ fix'.hole = fix.hole
             /\ fix'.left = Tail(fix.left)
             /\ phase' = "fix" /\ UNCHANGED <<randholes, decisions>>
  BY <1>1, <1>2, <1>6 DEF Skip
<1>7. ASSUME Throw
      PROVE  /\ fix' \in [hole : Holes \cup {"none"}, left : Seq(Vals)]
             /\ phase' \in {"crashed", "failed"}
             /\ UNCHANGED <<randholes, decisions>>
  BY <1>4, <1>7 DEF Throw, BadConcretization
<1>8. QED
  BY <1>1, <1>2, <1>3, <1>5, <1>6, <1>7

LEMMA InitTypes == Init => TypeOK /\ ControlInv
<1> SUFFICES ASSUME Init PROVE TypeOK /\ ControlInv
  OBVIOUS
<1>1. TypeOK
  <2>1. NoFix \in [hole : Holes \cup {"none"}, left : Seq(Vals)]
    BY DEF NoFix
  <2>2. trail \in Seq(Facts)
    BY DEF Init
  <2>3. Attempts \in Nat \ {0}
    BY PairsAssumption
  <2>4. /\ randholes \in [Holes -> Vals \cup {None}]
        /\ decisions \in [Harnesses -> SUBSET Facts]
        /\ holesOf \in [Harnesses -> SUBSET Holes]
        /\ pins \in [Harnesses -> SUBSET Facts]
    BY DEF Init
  <2>5. /\ correct \in Sketches /\ phase \in Phases
        /\ attempt \in 0 .. Attempts
        /\ pair \in Harnesses \cup {0} /\ curHarness \in Harnesses \cup {0}
    BY <2>3 DEF Init, Phases
  <2>6. pending \in BOOLEAN /\ okay \in BOOLEAN /\ found \in BOOLEAN
    BY DEF Init
  <2>7. /\ clauses \subseteq SUBSET Facts /\ finder \subseteq Assignments
        /\ declared \subseteq Holes /\ ctrl \in Assignments
        /\ fix \in [hole : Holes \cup {"none"}, left : Seq(Vals)]
    BY <2>1 DEF Init
  <2>8. QED
    BY <2>2, <2>4, <2>5, <2>6, <2>7 DEF TypeOK
<1>2. ControlInv
  BY PairsAssumption DEF Init, ControlInv
<1>3. QED
  BY <1>1, <1>2

(* The frames of the actions, for the proofs below. *)
LEMMA Frames ==
  /\ UNCHANGED attemptVars <=> UNCHANGED <<randholes, decisions, holesOf,
                                           declared, pins>>
  /\ UNCHANGED globalVars <=> UNCHANGED <<clauses, trail, okay>>
  /\ UNCHANGED solveVars <=> UNCHANGED <<ctrl, found>>
  /\ UNCHANGED fixFrame <=>
       UNCHANGED <<correct, attempt, pair, holesOf, declared, pins, curHarness,
                   ctrl, found>>
BY DEF attemptVars, globalVars, solveVars, fixFrame

LEMMA NextTypes ==
  ASSUME TypeOK, ControlInv, [Next]_vars
  PROVE  TypeOK' /\ ControlInv'
<1> USE Frames DEF ControlInv
<1>1. CASE StartHarness
  BY <1>1 DEF TypeOK, StartHarness, Phases
<1>2. CASE VisitHole
  <2>1. holesOf' \in [Harnesses -> SUBSET Holes]
    <3>1. PICK h \in Uses[pair] : holesOf' = Registered(h)
      BY <1>2 DEF VisitHole
    <3>2. h \in Holes
      BY UsesAssumption, PairsType DEF TypeOK
    <3>3. QED
      BY <3>1, <3>2 DEF TypeOK, Registered
  <2>2. QED
    BY <1>2, <2>1 DEF TypeOK, VisitHole
<1>3. CASE ConcretizeHole
  <2>1. PICK h \in Uses[pair], rv \in Vals :
          /\ randholes[h] = None
          /\ holesOf' = Registered(h)
          /\ fix' = [hole |-> h,
                     left |-> [k \in 1 .. Cardinality(Vals) |->
                                 (k - 1 + rv) % Cardinality(Vals)]]
    BY <1>3 DEF ConcretizeHole
  <2>2. h \in Holes
    BY UsesAssumption, PairsType DEF TypeOK
  <2>3. holesOf' \in [Harnesses -> SUBSET Holes]
    BY <2>1, <2>2 DEF TypeOK, Registered
  <2>4. ASSUME NEW k \in 1 .. Cardinality(Vals)
        PROVE  (k - 1 + rv) % Cardinality(Vals) \in Vals
    BY ValsAssumption, Finite
  <2>5. fix' \in [hole : Holes \cup {"none"}, left : Seq(Vals)]
    BY <2>1, <2>2, <2>4, Finite
  <2>6. TypeOK'
    BY <1>3, <2>3, <2>5 DEF TypeOK, ConcretizeHole, Phases
  <2>7. QED
    BY <1>3, <2>1, <2>2, <2>6 DEF ConcretizeHole
<1>4. CASE TryFreeValue
  <2>1. /\ <<fix.hole, Head(fix.left)>> \in Facts
        /\ TrySucceeds(<<fix.hole, Head(fix.left)>>)
           \/ TryFails(<<fix.hole, Head(fix.left)>>)
        /\ Take(fix.hole, Head(fix.left), TRUE) \/ Skip
    BY <1>4, FixTypes DEF TryFreeValue
  <2>2. /\ clauses' \subseteq SUBSET Facts
        /\ trail' \in Seq(Facts)
        /\ okay' \in BOOLEAN
    BY <2>1, TryTypes
  <2>3. /\ randholes' \in [Holes -> Vals \cup {None}]
        /\ decisions' \in [Harnesses -> SUBSET Facts]
        /\ fix' \in [hole : Holes \cup {"none"}, left : Seq(Vals)]
        /\ \/ phase' = "inline"
           \/ phase' = "fix" /\ fix'.hole = fix.hole /\ UNCHANGED randholes
    BY <1>4, <2>1, FixTypes DEF TryFreeValue, TypeOK
  <2>4. QED
    BY <1>4, <2>2, <2>3 DEF TypeOK, TryFreeValue, Phases
<1>5. CASE TryLocalValue
  <2>1. /\ fix.hole \in Holes /\ Head(fix.left) \in Vals
        /\ <<fix.hole, Head(fix.left)>> \in Facts
        /\ \/ TrySucceeds(<<fix.hole, Head(fix.left)>>)
           \/ TryFails(<<fix.hole, Head(fix.left)>>)
           \/ UNCHANGED globalVars
        /\ (\E q \in BOOLEAN : Take(fix.hole, Head(fix.left), q)) \/ Skip \/ Throw
    <3>1. \A f \in {FALSE, LocallyForced(fix.hole, Head(fix.left))} : (~ f) \in BOOLEAN
      BY DEF LocallyForced
    <3>2. QED
      BY <1>5, <3>1, FixTypes DEF TryLocalValue
  <2>2. /\ clauses' \subseteq SUBSET Facts
        /\ trail' \in Seq(Facts)
        /\ okay' \in BOOLEAN
    BY <2>1, TryTypes DEF TypeOK
  <2>3. /\ randholes' \in [Holes -> Vals \cup {None}]
        /\ decisions' \in [Harnesses -> SUBSET Facts]
        /\ fix' \in [hole : Holes \cup {"none"}, left : Seq(Vals)]
        /\ phase' \in Phases \ {"unsat", "unknown"}
        /\ phase' = "fix" => fix'.hole = fix.hole /\ UNCHANGED randholes
    BY <1>5, <2>1, FixTypes DEF TryLocalValue, TypeOK, Phases
  <2>4. pending' \in BOOLEAN /\ finder' \subseteq Assignments
    BY <1>5 DEF TypeOK, TryLocalValue, Asserted
  <2>5. QED
    BY <1>5, <2>2, <2>3, <2>4 DEF TypeOK, TryLocalValue, Phases
<1>6. CASE TakeImplied
  <2>1. Take(fix.hole, Head(fix.left), FALSE) \/ Throw
    BY <1>6 DEF TakeImplied
  <2>2. /\ randholes' \in [Holes -> Vals \cup {None}]
        /\ decisions' \in [Harnesses -> SUBSET Facts]
        /\ fix' \in [hole : Holes \cup {"none"}, left : Seq(Vals)]
        /\ phase' \in {"inline", "crashed", "failed"}
    BY <1>6, <2>1, FixTypes DEF TakeImplied, TypeOK
  <2>3. pending' \in BOOLEAN /\ finder' \subseteq Assignments
    BY <1>6 DEF TypeOK, TakeImplied, Asserted
  <2>4. QED
    BY <1>6, <2>2, <2>3 DEF TypeOK, TakeImplied, Phases
<1>7. CASE SkipExcluded
  BY <1>7, FixTypes DEF TypeOK, SkipExcluded, Phases
<1>8. CASE GiveUp
  <2>1. NoFix \in [hole : Holes \cup {"none"}, left : Seq(Vals)]
    BY DEF NoFix
  <2>2. QED
    BY <1>8, <2>1 DEF TypeOK, GiveUp, Throw, BadConcretization, Phases
<1>9. CASE FoldsToFalse
  BY <1>9 DEF TypeOK, FoldsToFalse, BadConcretization, Phases
<1>10. CASE AssertHarness
  <2>1. Uses[pair] \subseteq Holes
    BY UsesAssumption, PairsType DEF TypeOK
  <2>2. Chosen(Uses[pair]) \in SUBSET Facts
    BY <2>1 DEF Chosen, TypeOK, Facts
  <2>3. /\ pins' \in [Harnesses -> SUBSET Facts]
        /\ declared' \subseteq Holes
        /\ ctrl' \in Assignments
    BY <1>10, <2>1, <2>2 DEF AssertHarness, TypeOK
  <2>4. QED
    BY <1>10, <2>3 DEF TypeOK, AssertHarness, Phases
<1>11. CASE Counterexample
  <2>1. /\ curHarness' \in Harnesses
        /\ finder' \subseteq Assignments
    <3>1. PICK k \in 0 .. pair : curHarness' = Later(k)
      BY <1>11 DEF Counterexample
    <3>2. curHarness \in Nat /\ pair \in Nat /\ pair < Pairs /\ k \in Nat
      BY PairsType DEF TypeOK
    <3>3. (curHarness + k) % (pair + 1) \in 0 .. pair
      BY <3>2
    <3>4. curHarness' \in Harnesses
      BY <3>1, <3>2, <3>3, PairsType DEF Later
    <3>5. QED
      BY <1>11, <3>4 DEF Counterexample, TypeOK
  <2>2. phase' \in Phases /\ phase' \in {"failed", "solve"} /\ ctrl' \in Assignments /\ found' \in BOOLEAN
    BY <1>11, <2>1 DEF Counterexample, TypeOK, Phases
  <2>3. QED
    BY <1>11, <2>1, <2>2 DEF TypeOK, Counterexample
<1>12. CASE Verified
  <2>1. pair' \in Harnesses
    BY <1>12, PairsType DEF TypeOK, Verified
  <2>2. QED
    BY <1>12, <2>1 DEF TypeOK, Verified, Phases
<1>13. CASE Reset
  <2>1. Conflict \in SUBSET Facts
    BY ConflictType
  <2>2. clauses' \subseteq SUBSET Facts /\ okay' \in BOOLEAN
    BY <1>13, <2>1 DEF Reset, Learnt, TypeOK, Conflicting
  <2>3. attempt \in Nat /\ Attempts \in Nat /\ attempt < Attempts
    BY <1>13, PairsAssumption DEF Reset, TypeOK
  <2>4. /\ attempt' \in 0 .. Attempts
        /\ phase' \in {"unsat", "unknown", "next"}
        /\ phase' = "next" => attempt' < Attempts
    BY <1>13, <2>3 DEF Reset, AttemptsDone
  <2>5. TypeOK'
    <3>1. /\ trail' \in Seq(Facts)
          /\ randholes' \in [Holes -> Vals \cup {None}]
          /\ decisions' \in [Harnesses -> SUBSET Facts]
          /\ holesOf' \in [Harnesses -> SUBSET Holes]
          /\ pins' \in [Harnesses -> SUBSET Facts]
      BY <1>13 DEF Reset
    <3>2. QED
      BY <1>13, <2>2, <2>4, <3>1, PairsType DEF TypeOK, Reset, Phases
  <2>6. QED
    BY <2>4, <2>5
<1>14. CASE UNCHANGED vars
  BY <1>14 DEF TypeOK, vars
<1>15. QED
  BY <1>1, <1>2, <1>3, <1>4, <1>5, <1>6, <1>7, <1>8, <1>9, <1>10, <1>11, <1>12,
     <1>13, <1>14 DEF Next, FixValue

(* The type invariant, and what control keeps apart. *)
THEOREM TypeCorrect == Spec => []TypeOK
<1>1. Init => TypeOK /\ ControlInv
  BY InitTypes
<1>2. TypeOK /\ ControlInv /\ [Next]_vars => (TypeOK /\ ControlInv)'
  BY NextTypes
<1>3. QED
  BY <1>1, <1>2, PTL DEF Spec

---------------------------------------------------------------------------
(* The values chosen for holes, in the finder and in the answer. *)

ChoiceInv == FinderKnowsChoices /\ PinsStand /\ CandidateInv

LEMMA NoneType == None \notin Vals
BY ValsAssumption, Finite DEF None

(* What any step of fixValue does to the values chosen: it gives none, or  *)
(* it gives one to the hole at hand, which the finder is told if it has    *)
(* the hole.                                                               *)
LEMMA FixChooses ==
  ASSUME TypeOK, ControlInv, FixValue
  PROVE  /\ phase = "fix" /\ fix.hole \in Holes /\ randholes[fix.hole] = None
         /\ phase' \in {"inline", "fix", "failed", "crashed"}
         /\ UNCHANGED <<correct, attempt, pair, holesOf, declared, pins,
                        curHarness, ctrl, found>>
         /\ finder' \subseteq finder
         /\ \/ UNCHANGED randholes
            \/ \E v \in Vals :
                 /\ randholes' = [randholes EXCEPT ![fix.hole] = v]
                 /\ fix.hole \in declared =>
                      finder' \subseteq Agreeing({<<fix.hole, v>>})
<1> USE Frames
<1> DEFINE h == fix.hole
           v == Head(fix.left)
           Given == \/ UNCHANGED randholes
                    \/ /\ v \in Vals
                       /\ randholes' = [randholes EXCEPT ![h] = v]
                       /\ h \in declared => finder' \subseteq Agreeing({<<h, v>>})
<1>1. /\ phase = "fix" /\ fix.hole \in Holes /\ randholes[fix.hole] = None
      /\ fix.left # <<>> => v \in Vals
  BY FixTypes DEF FixValue, TryFreeValue, TryLocalValue, TakeImplied,
     SkipExcluded, GiveUp, ControlInv
<1>2. UNCHANGED <<correct, attempt, pair, holesOf, declared, pins,
                  curHarness, ctrl, found>>
  BY DEF FixValue, TryFreeValue, TryLocalValue, TakeImplied, SkipExcluded, GiveUp
<1>3. CASE TryFreeValue
  <2>1. phase' \in {"inline", "fix"} /\ finder' \subseteq finder
    BY <1>1, <1>3 DEF TryFreeValue, Take, Skip
  <2>2. Given
    BY <1>1, <1>3 DEF TryFreeValue, Take, Skip, Local
  <2>3. QED
    BY <1>1, <1>2, <2>1, <2>2
<1>4. CASE TryLocalValue
  <2>1. /\ phase' \in {"inline", "fix", "failed", "crashed"}
        /\ finder' \subseteq finder
    BY <1>1, <1>4 DEF TryLocalValue, Take, Skip, Throw, BadConcretization, Asserted
  <2>2. Given
    BY <1>1, <1>4 DEF TryLocalValue, Take, Skip, Throw, Asserted
  <2>3. QED
    BY <1>1, <1>2, <2>1, <2>2
<1>5. CASE TakeImplied
  <2>1. /\ phase' \in {"inline", "failed", "crashed"}
        /\ finder' \subseteq finder
    BY <1>1, <1>5 DEF TakeImplied, Take, Throw, BadConcretization, Asserted
  <2>2. Given
    BY <1>1, <1>5 DEF TakeImplied, Take, Throw, Local, Asserted
  <2>3. QED
    BY <1>1, <1>2, <2>1, <2>2
<1>6. CASE SkipExcluded \/ GiveUp
  BY <1>1, <1>2, <1>6 DEF SkipExcluded, GiveUp, Skip, Throw, BadConcretization
<1>7. QED
  BY <1>3, <1>4, <1>5, <1>6 DEF FixValue

LEMMA InitChoices == Init => ChoiceInv
<1> SUFFICES ASSUME Init PROVE ChoiceInv
  OBVIOUS
<1>1. FinderKnowsChoices
  BY DEF Init, FinderKnowsChoices
<1>2. \A i \in Harnesses : ~ WasAsserted(i)
  BY PairsType DEF Init, WasAsserted
<1>3. QED
  BY <1>1, <1>2 DEF Init, ChoiceInv, PinsStand, CandidateInv

(* Steps that leave choices alone. *)
LEMMA SameChoices ==
  ASSUME TypeOK, ChoiceInv,
         UNCHANGED <<randholes, declared, pins>>, finder' \subseteq finder,
         \A i \in Harnesses : WasAsserted(i)' => WasAsserted(i)
  PROVE  FinderKnowsChoices' /\ PinsStand'
<1>1. FinderKnowsChoices'
  BY DEF ChoiceInv, FinderKnowsChoices
<1>2. PinsStand'
  BY DEF ChoiceInv, PinsStand
<1>3. QED
  BY <1>1, <1>2

LEMMA NextChoices ==
  ASSUME TypeOK, ControlInv, ChoiceInv, [Next]_vars
  PROVE  ChoiceInv'
<1> USE Frames
<1>1. CASE StartHarness \/ VisitHole \/ ConcretizeHole \/ FoldsToFalse
  <2>1. /\ UNCHANGED <<pair, randholes, declared, pins, finder>>
        /\ phase' \notin {"solve", "answered"}
    BY <1>1 DEF StartHarness, VisitHole, ConcretizeHole, FoldsToFalse, BadConcretization
  <2>2. \A i \in Harnesses : WasAsserted(i)' => WasAsserted(i)
    BY <2>1 DEF WasAsserted
  <2>3. QED
    BY <2>1, <2>2, SameChoices DEF ChoiceInv, CandidateInv
<1>2. CASE FixValue
  <2>1. /\ phase = "fix" /\ fix.hole \in Holes /\ randholes[fix.hole] = None
        /\ phase' \notin {"solve", "answered"}
        /\ UNCHANGED <<pair, declared, pins>>
        /\ finder' \subseteq finder
    BY <1>2, FixChooses
  <2>2. \A i \in Harnesses : WasAsserted(i)' => WasAsserted(i)
    BY <2>1 DEF WasAsserted
  <2>3. CASE UNCHANGED randholes
    BY <2>1, <2>2, <2>3, SameChoices DEF ChoiceInv, CandidateInv
  <2>4. CASE \E v \in Vals :
               /\ randholes' = [randholes EXCEPT ![fix.hole] = v]
               /\ fix.hole \in declared =>
                    finder' \subseteq Agreeing({<<fix.hole, v>>})
    <3>1. PICK v \in Vals :
            /\ randholes' = [randholes EXCEPT ![fix.hole] = v]
            /\ fix.hole \in declared =>
                 finder' \subseteq Agreeing({<<fix.hole, v>>})
      BY <2>4
    <3>2. randholes \in [Holes -> Vals \cup {None}] /\ declared \subseteq Holes
      BY DEF TypeOK
    <3>3. \A h \in Holes : randholes'[h] = IF h = fix.hole THEN v ELSE randholes[h]
      BY <3>1, <3>2
    <3>4. FinderKnowsChoices'
      BY <2>1, <3>1, <3>2, <3>3 DEF ChoiceInv, FinderKnowsChoices
    <3>5. PinsStand'
      <4>1. ASSUME NEW i \in Harnesses, WasAsserted(i), NEW p \in pins[i]
            PROVE  p[1] \in Holes /\ randholes'[p[1]] = p[2]
        <5>1. p[1] \in Holes /\ randholes[p[1]] = p[2]
          BY <4>1 DEF ChoiceInv, PinsStand
        <5>2. p[2] \in Vals
          BY DEF TypeOK, Facts
        <5>3. QED
          BY <2>1, <3>3, <5>1, <5>2, NoneType
      <4>2. QED
        BY <2>1, <2>2, <4>1 DEF ChoiceInv, PinsStand
    <3>6. QED
      BY <2>1, <3>4, <3>5 DEF ChoiceInv, CandidateInv
  <2>5. QED
    BY <1>2, <2>3, <2>4, FixChooses
<1>3. CASE AssertHarness
  <2>1. FinderKnowsChoices'
    BY <1>3 DEF AssertHarness, ChoiceInv, FinderKnowsChoices
  <2>2. PinsStand'
    <3>1. ASSUME NEW i \in Harnesses, WasAsserted(i)'
          PROVE  i = pair \/ (WasAsserted(i) /\ pins'[i] = pins[i])
      <4>1. pair' = pair
        BY <1>3 DEF AssertHarness
      <4>2. i # pair => WasAsserted(i)
        BY <3>1, <4>1 DEF WasAsserted
      <4>3. i # pair => pins'[i] = pins[i]
        BY <1>3 DEF AssertHarness, TypeOK
      <4>4. QED
        BY <4>2, <4>3
    <3>2. pair \in Harnesses /\ pins'[pair] = Chosen(Uses[pair])
      BY <1>3, PairsType DEF AssertHarness, TypeOK
    <3>3. Uses[pair] \subseteq Holes
      BY <3>2, UsesAssumption
    <3>4. /\ \A p \in Chosen(Uses[pair]) : p[1] \in Holes /\ randholes[p[1]] = p[2]
          /\ \A h \in Uses[pair] :
               randholes[h] = None \/ \E p \in Chosen(Uses[pair]) : p[1] = h
      <4>1. ASSUME NEW h \in Uses[pair], randholes[h] # None
            PROVE  \E p \in Chosen(Uses[pair]) : p[1] = h
        <5>1. <<h, randholes[h]>> \in Chosen(Uses[pair])
          BY <4>1 DEF Chosen
        <5>2. QED
          BY <5>1
      <4>2. QED
        BY <3>3, <4>1 DEF Chosen
    <3>5. QED
      BY <1>3, <3>1, <3>2, <3>4 DEF AssertHarness, ChoiceInv, PinsStand
  <2>3. QED
    BY <1>3, <2>1, <2>2 DEF AssertHarness, ChoiceInv, CandidateInv
<1>4. CASE Counterexample
  <2>1. /\ UNCHANGED <<pair, randholes, declared, pins>>
        /\ finder' \subseteq finder
        /\ phase' = "failed" \/ (phase' = "solve" /\ ctrl' \in finder')
    <3>1. UNCHANGED <<pair, randholes, declared, pins>>
      BY <1>4 DEF Counterexample
    <3>2. finder' \subseteq finder
      BY <1>4 DEF Counterexample
    <3>3. phase' = "failed" \/ (phase' = "solve" /\ ctrl' \in finder')
      BY <1>4 DEF Counterexample
    <3>4. QED
      BY <3>1, <3>2, <3>3
  <2>2. \A i \in Harnesses : WasAsserted(i)' => WasAsserted(i)
    BY <1>4, <2>1 DEF Counterexample, WasAsserted
  <2>3. QED
    BY <2>1, <2>2, SameChoices DEF ChoiceInv, CandidateInv
<1>5. CASE Verified
  <2>1. /\ UNCHANGED <<randholes, declared, pins, finder, ctrl, found, okay, correct>>
        /\ \/ phase' = "answered" /\ pair' = pair /\ (okay => pair = Pairs - 1)
           \/ phase' = "next" /\ pair' = pair + 1
    BY <1>5 DEF Verified
  <2>2. \A i \in Harnesses : WasAsserted(i)' => WasAsserted(i)
    BY <1>5, <2>1, PairsType DEF Verified, WasAsserted, TypeOK
  <2>3. FinderKnowsChoices' /\ PinsStand'
    BY <2>1, <2>2, SameChoices
  <2>4. CandidateInv'
    <3>1. \A i \in 0 .. pair : PassesWith(i, pins[i], ctrl)
      BY <1>5 DEF Verified, Fails
    <3>2. \A i \in 0 .. pair : PassesWith(i, pins[i], ctrl)'
      BY <2>1, <3>1 DEF PassesWith
    <3>3. QED
      BY <1>5, <2>1, <3>2 DEF ChoiceInv, CandidateInv, Verified
  <2>5. QED
    BY <2>3, <2>4 DEF ChoiceInv
<1>6. CASE Reset
  <2>1. \A i \in Harnesses : ~ WasAsserted(i)'
    BY <1>6, PairsType DEF Reset, WasAsserted
  <2>2. QED
    BY <1>6, <2>1 DEF Reset, ChoiceInv, FinderKnowsChoices, PinsStand, CandidateInv
<1>7. CASE UNCHANGED vars
  BY <1>7 DEF vars, ChoiceInv, FinderKnowsChoices, PinsStand, CandidateInv,
     WasAsserted, PassesWith
<1>8. QED
  BY <1>1, <1>2, <1>3, <1>4, <1>5, <1>6, <1>7 DEF Next

(* A harness that passes with constants in the place of some holes passes  *)
(* as it was written with an assignment that has these constants.          *)
LEMMA PassesAsWritten ==
  ASSUME NEW i, NEW P, NEW x, NEW y, PassesWith(i, P, x),
         \A h \in Uses[i] :
           \/ \E v \in Vals : <<h, v>> \in P
           \/ y[h] = x[h],
         \A p \in P : y[p[1]] = p[2]
  PROVE  PassesWith(i, {}, y)
<1>1. PICK c \in correct[i] : \A h \in Uses[i] :
        IF \E v \in Vals : <<h, v>> \in P THEN <<h, c[h]>> \in P ELSE c[h] = x[h]
  BY DEF PassesWith
<1>2. ASSUME NEW h \in Uses[i] PROVE c[h] = y[h]
  <2>1. CASE \E v \in Vals : <<h, v>> \in P
    <3>1. <<h, c[h]>> \in P
      BY <1>1, <2>1
    <3>2. QED
      BY <3>1
  <2>2. CASE ~ \E v \in Vals : <<h, v>> \in P
    BY <1>1, <2>2
  <2>3. QED
    BY <2>1, <2>2
<1>3. QED
  BY <1>2 DEF PassesWith

(* And the other way round. *)
LEMMA PassesPinned ==
  ASSUME NEW i, NEW P, NEW x, PassesWith(i, {}, x),
         \A h \in Uses[i] : \A v \in Vals : <<h, v>> \in P => x[h] = v
  PROVE  PassesWith(i, P, x)
<1>1. PICK c \in correct[i] : \A h \in Uses[i] : c[h] = x[h]
  BY DEF PassesWith
<1>2. ASSUME NEW h \in Uses[i], NEW v \in Vals, <<h, v>> \in P
      PROVE  <<h, c[h]>> \in P
  BY <1>1, <1>2
<1>3. QED
  BY <1>1, <1>2 DEF PassesWith

LEMMA AnswersRight ==
  ASSUME TypeOK, ChoiceInv
  PROVE  AnswerCorrect
<1> SUFFICES ASSUME phase = "answered", found
             PROVE  /\ \A i \in 0 .. pair : PassesWith(i, {}, Recorded)
                    /\ okay => Recorded \in Correct
  BY DEF AnswerCorrect
<1>1. ctrl \in finder /\ ctrl \in Assignments
  BY DEF TypeOK, ChoiceInv, CandidateInv
<1>2. ASSUME NEW i \in 0 .. pair
      PROVE  PassesWith(i, {}, Recorded)
  <2>1. i \in Harnesses /\ WasAsserted(i)
    BY PairsType DEF TypeOK, WasAsserted
  <2>2. /\ PassesWith(i, pins[i], ctrl)
        /\ Uses[i] \subseteq Holes
        /\ pins[i] \in SUBSET Facts
    BY <2>1, UsesAssumption DEF ChoiceInv, CandidateInv, TypeOK
  <2>3. ASSUME NEW p \in pins[i] PROVE Recorded[p[1]] = p[2]
    <3>1. p[1] \in Holes /\ randholes[p[1]] = p[2] /\ p[2] # None
      BY <2>1, <2>2, NoneType DEF ChoiceInv, PinsStand, Facts
    <3>2. CASE p[1] \in declared
      <4>1. ctrl \in Agreeing({<<p[1], randholes[p[1]]>>})
        BY <1>1, <3>1, <3>2 DEF ChoiceInv, FinderKnowsChoices
      <4>2. ctrl[p[1]] = p[2]
        BY <3>1, <4>1 DEF Agreeing
      <4>3. QED
        BY <3>1, <3>2, <4>2 DEF Recorded
    <3>3. CASE p[1] \notin declared
      BY <3>1, <3>3 DEF Recorded
    <3>4. QED
      BY <3>2, <3>3
  <2>4. ASSUME NEW h \in Uses[i]
        PROVE  (\E v \in Vals : <<h, v>> \in pins[i]) \/ Recorded[h] = ctrl[h]
    <3>1. CASE h \in declared
      BY <2>2, <3>1 DEF Recorded
    <3>2. CASE \E p \in pins[i] : p[1] = h
      <4>1. PICK p \in pins[i] : p[1] = h
        BY <3>2
      <4>2. p = <<h, p[2]>> /\ p[2] \in Vals
        BY <2>2, <4>1 DEF Facts
      <4>3. QED
        BY <4>1, <4>2
    <3>3. QED
      BY <2>1, <3>1, <3>2 DEF ChoiceInv, PinsStand
  <2>5. QED
    BY <2>2, <2>3, <2>4, PassesAsWritten
<1>3. ASSUME okay PROVE Recorded \in Correct
  <2>1. 0 .. pair = Harnesses
    BY <1>3 DEF ChoiceInv, CandidateInv, Harnesses
  <2>2. Recorded \in Assignments
    <3>1. ASSUME NEW h \in Holes
          PROVE  (IF h \in declared \/ randholes[h] = None THEN ctrl[h]
                  ELSE randholes[h]) \in Vals
      BY <1>1 DEF TypeOK, Assignments
    <3>2. QED
      BY <3>1 DEF Recorded, Assignments
  <2>3. QED
    BY <1>2, <2>1, <2>2 DEF Correct
<1>4. QED
  BY <1>2, <1>3

(* The harnesses that have a hole in the finder are told when a later one  *)
(* concretizes it.                                                         *)
THEOREM ChoicesKnown == Spec => []FinderKnowsChoices
<1>1. Init => TypeOK /\ ControlInv /\ ChoiceInv
  BY InitTypes, InitChoices
<1>2. TypeOK /\ ControlInv /\ ChoiceInv /\ [Next]_vars
        => (TypeOK /\ ControlInv /\ ChoiceInv)'
  BY NextTypes, NextChoices
<1>3. ChoiceInv => FinderKnowsChoices
  BY DEF ChoiceInv
<1>4. QED
  BY <1>1, <1>2, <1>3, PTL DEF Spec

(* Every answer that comes from the finder is correct for the harnesses    *)
(* that were asserted, and for the sketch if globalSat is satisfiable.     *)
THEOREM AnswersCorrect == Spec => []AnswerCorrect
<1>1. Init => TypeOK /\ ControlInv /\ ChoiceInv
  BY InitTypes, InitChoices
<1>2. TypeOK /\ ControlInv /\ ChoiceInv /\ [Next]_vars
        => (TypeOK /\ ControlInv /\ ChoiceInv)'
  BY NextTypes, NextChoices
<1>3. TypeOK /\ ChoiceInv => AnswerCorrect
  BY AnswersRight
<1>4. QED
  BY <1>1, <1>2, <1>3, PTL DEF Spec

---------------------------------------------------------------------------
(* What was excluded is not tried again. *)

(* What globalSat's next state says of its levels. *)
LEMMA PrimedPropagation ==
  Conflicting(Propagate(clauses, Levels(Len(trail))))'
    <=> Conflicting(Propagate(clauses', Levels(Len(trail))'))
BY DEF Conflicting, Left, Propagate, Shrink, Possible, Levels

LEMMA TryKeepsGlobal ==
  ASSUME TypeOK, GlobalInv, {} \notin clauses,
         NEW p \in Facts, TrySucceeds(p) \/ TryFails(p)
  PROVE  /\ (okay => ~ Conflicting(Propagate(clauses, Levels(Len(trail)))))'
         /\ (~ okay => trail = <<>>)'
         /\ {} \notin clauses'
<1>0. /\ trail \in Seq(Facts) /\ Len(trail) \in Nat /\ okay \in BOOLEAN
      /\ okay => ~ Conflicting(Propagate(clauses, Levels(Len(trail))))
      /\ ~ okay => trail = <<>>
  BY DEF TypeOK, GlobalInv
<1>1. CASE TrySucceeds(p)
  <2>1. trail' = Append(trail, p) /\ UNCHANGED <<clauses, okay>> /\ okay
    BY <1>1 DEF TrySucceeds
  <2>2. Levels(Len(trail))' = Levels(Len(trail)) \cup {p}
    BY <1>0, <2>1, AppendLevels
  <2>3. ~ Conflicting(Propagate(clauses, Levels(Len(trail)) \cup {p}))
    BY <1>1 DEF TrySucceeds
  <2>4. (~ Conflicting(Propagate(clauses, Levels(Len(trail)))))'
    BY <2>1, <2>2, <2>3, PrimedPropagation
  <2>5. QED
    BY <2>1, <2>4
<1>2. CASE ~ okay /\ UNCHANGED globalVars
  BY <1>0, <1>2 DEF globalVars
<1>3. ASSUME NEW b \in 0 .. Len(trail),
             NEW L \in SUBSET (Levels(Len(trail)) \cup {p}),
             okay,
             Cardinality(L \ Levels(b)) = 1,
             clauses' = clauses \cup {L},
             trail' = SubSeq(trail, 1, b),
             LET left == Propagate(clauses \cup {L}, Levels(b))
             IN  IF b > 0 THEN ~ Conflicting(left) /\ UNCHANGED okay
                 ELSE okay' = ~ Conflicting(left)
      PROVE  /\ (okay => ~ Conflicting(Propagate(clauses, Levels(Len(trail)))))'
             /\ (~ okay => trail = <<>>)'
             /\ {} \notin clauses'
  <2>1. L # {}
    <3>1. L = {} => Cardinality(L \ Levels(b)) = 0
      BY FS_EmptySet
    <3>2. QED
      BY <3>1, <1>3
  <2>2. Levels(Len(trail))' = Levels(b)
    <3>1. /\ Len(trail') = b
          /\ \A k \in 1 .. b : trail'[k] = trail[k]
      BY <1>0, <1>3
    <3>2. QED
      BY <3>1 DEF Levels
  <2>3. okay' => ~ Conflicting(Propagate(clauses \cup {L}, Levels(b)))
    BY <1>3
  <2>4. (okay => ~ Conflicting(Propagate(clauses, Levels(Len(trail)))))'
    BY <1>3, <2>2, <2>3, PrimedPropagation
  <2>5. ~ okay' => trail' = <<>>
    <3>1. ~ okay' => ~ (b > 0)
      BY <1>3
    <3>2. b = 0 => trail' = <<>>
      BY <1>0, <1>3
    <3>3. QED
      BY <1>0, <3>1, <3>2
  <2>6. QED
    BY <1>3, <2>1, <2>4, <2>5
<1>4. QED
  BY <1>1, <1>2, <1>3 DEF TryFails

LEMMA InitGlobal == Init => GlobalInv
<1> SUFFICES ASSUME Init PROVE GlobalInv
  OBVIOUS
<1>1. clauses = {} /\ Levels(Len(trail)) = {}
  BY DEF Init, Levels
<1>2. Propagate(clauses, Levels(Len(trail))) = Facts
  BY <1>1, PropagateNothing
<1>3. \A h \in Holes : Left(Facts, h) = Vals
  BY DEF Left, Facts
<1>4. QED
  BY <1>1, <1>2, <1>3, ValsAssumption DEF Init, GlobalInv, Conflicting

LEMMA SameGlobal ==
  ASSUME GlobalInv, UNCHANGED globalVars, phase # "unsat"
  PROVE  GlobalInv'
BY DEF GlobalInv, globalVars, Conflicting, Left, Propagate, Shrink, Possible, Levels

LEMMA NextGlobal ==
  ASSUME TypeOK, ControlInv, GlobalInv, [Next]_vars
  PROVE  GlobalInv'
<1> USE Frames
<1>1. CASE StartHarness \/ VisitHole \/ ConcretizeHole \/ FoldsToFalse
           \/ AssertHarness \/ Counterexample \/ Verified
  <2>1. UNCHANGED globalVars /\ phase # "unsat"
    BY <1>1 DEF StartHarness, VisitHole, ConcretizeHole, FoldsToFalse,
       AssertHarness, Counterexample, Verified
  <2>2. QED
    BY <2>1, SameGlobal
<1>2. CASE FixValue
  <2>1. phase = "fix" /\ {} \notin clauses
    BY <1>2, FixChooses DEF GlobalInv
  <2>2. CASE UNCHANGED globalVars
    BY <2>1, <2>2, SameGlobal
  <2>3. CASE ~ UNCHANGED globalVars
    <3>1. /\ fix.left # <<>>
          /\ \/ TrySucceeds(<<fix.hole, Head(fix.left)>>)
             \/ TryFails(<<fix.hole, Head(fix.left)>>)
      BY <1>2, <2>3 DEF FixValue, TryFreeValue, TryLocalValue, TakeImplied,
         SkipExcluded, GiveUp
    <3>2. <<fix.hole, Head(fix.left)>> \in Facts
      BY <2>1, <3>1, FixTypes
    <3>3. QED
      BY <2>1, <3>1, <3>2, TryKeepsGlobal DEF GlobalInv
  <2>4. QED
    BY <2>2, <2>3
<1>3. CASE Reset
  <2>1. /\ clauses' = clauses \cup {Conflict} /\ trail' = <<>>
        /\ okay' = (/\ okay
                    /\ Conflict # {}
                    /\ ~ Conflicting(Propagate(clauses \cup {Conflict}, {})))
        /\ ~ okay' => phase' = "unsat"
        /\ {} \notin clauses
    BY <1>3 DEF Reset, Learnt, GlobalInv
  <2>2. Levels(Len(trail))' = {}
    BY <2>1 DEF Levels
  <2>3. (okay => ~ Conflicting(Propagate(clauses, Levels(Len(trail)))))'
    BY <2>1, <2>2, PrimedPropagation
  <2>4. {} \in clauses' => phase' = "unsat"
    BY <2>1
  <2>5. QED
    BY <2>1, <2>3, <2>4 DEF GlobalInv
<1>4. CASE UNCHANGED vars
  BY <1>4 DEF vars, GlobalInv, globalVars, Conflicting, Left, Propagate,
     Shrink, Possible, Levels
<1>5. QED
  BY <1>1, <1>2, <1>3, <1>4 DEF Next

(* The decisions of a failed attempt were excluded by no clause before and *)
(* are excluded from then on, as long as they stand.                       *)
LEMMA ResetExcludes ==
  ASSUME TypeOK, GlobalInv, Reset, DecisionsStand
  PROVE  /\ \A c \in clauses : ~ (c \subseteq Conflict)
         /\ \E c \in clauses' : c \subseteq Conflict
<1>1. Conflict \subseteq Levels(Len(trail))
  BY PairsType, ComponentType DEF Conflict, DecisionsStand, TypeOK
<1>2. ASSUME NEW c \in clauses, c \subseteq Conflict PROVE FALSE
  <2>1. c # {}
    BY DEF GlobalInv, Reset
  <2>2. c \subseteq Facts /\ c \subseteq Levels(Len(trail))
    BY <1>1, <1>2 DEF TypeOK
  <2>3. okay
    <3>1. Levels(Len(<<>>)) = {}
      BY DEF Levels
    <3>2. ~ okay => Levels(Len(trail)) = {}
      BY <3>1 DEF GlobalInv, Levels
    <3>3. QED
      BY <2>1, <2>2, <3>2
  <2>4. Conflicting(Propagate(clauses, Levels(Len(trail))))
    BY <2>1, <2>2, ExcludedConflicts
  <2>5. QED
    BY <2>3, <2>4 DEF GlobalInv
<1>3. Conflict \in clauses'
  BY DEF Reset, Learnt
<1>4. QED
  BY <1>2, <1>3

(* "We never try the same concretization twice", for decisions that stand. *)
THEOREM NoConcretizationRetried == Spec => NothingRetried
<1> DEFINE Excluded == attempt' # attempt /\ DecisionsStand =>
                         /\ \A c \in clauses : ~ (c \subseteq Conflict)
                         /\ \E c \in clauses' : c \subseteq Conflict
<1>1. Init => TypeOK /\ ControlInv /\ GlobalInv
  BY InitTypes, InitGlobal
<1>2. TypeOK /\ ControlInv /\ GlobalInv /\ [Next]_vars
        => (TypeOK /\ ControlInv /\ GlobalInv)'
  BY NextTypes, NextGlobal
<1>3. ASSUME TypeOK, ControlInv, GlobalInv, [Next]_vars, attempt' # attempt
      PROVE  Reset
  <2>1. FixValue => attempt' = attempt
    BY <1>3, FixChooses
  <2>2. QED
    BY <1>3, <2>1 DEF Next, StartHarness, VisitHole, ConcretizeHole, FoldsToFalse,
       AssertHarness, Counterexample, Verified, vars
<1>4. TypeOK /\ ControlInv /\ GlobalInv /\ [Next]_vars => Excluded
  BY <1>3, ResetExcludes
<1>5. QED
  BY <1>1, <1>2, <1>4, PTL DEF Spec, NothingRetried

---------------------------------------------------------------------------
(* What a failed attempt is blamed on. *)

LEMMA FixBlames ==
  ASSUME TypeOK, ControlInv, FixValue
  PROVE  /\ \A i \in Harnesses : i # pair => decisions'[i] = decisions[i]
         /\ pending' \/ UNCHANGED <<pending, finder>>
<1> USE Frames
<1>1. curHarness = pair /\ decisions \in [Harnesses -> SUBSET Facts]
  BY FixChooses DEF ControlInv, TypeOK
<1>2. \/ UNCHANGED decisions
      \/ decisions' = Recording(fix.hole, Head(fix.left))
  BY DEF FixValue, TryFreeValue, TryLocalValue, TakeImplied, SkipExcluded,
     GiveUp, Take, Skip, Throw
<1>3. \A i \in Harnesses : i # pair => decisions'[i] = decisions[i]
  BY <1>1, <1>2 DEF Recording
<1>4. pending' \/ UNCHANGED <<pending, finder>>
  BY DEF FixValue, TryFreeValue, TryLocalValue, TakeImplied, SkipExcluded, GiveUp
<1>5. QED
  BY <1>3, <1>4

LEMMA InitBlame == Init => BlameInv
BY DEF Init, BlameInv

LEMMA NextBlame ==
  ASSUME TypeOK, ControlInv, BlameInv, [Next]_vars
  PROVE  BlameInv'
<1> USE Frames
<1> DEFINE Passing(x) == \A i \in Harnesses :
                           WasAsserted(i) => PassesWith(i, pins[i], x)
           Keeps == ~ pending /\ phase \in {"next", "inline", "fix", "solve"} =>
                      \A x \in Assignments : Passing(x) => x \in finder
           Later0 == \A i \in Harnesses : i > pair => decisions[i] = {}
<1>0. /\ Keeps /\ Later0
      /\ pair \in Nat /\ decisions \in [Harnesses -> SUBSET Facts]
      /\ \A i \in Harnesses : i \in Nat
  BY PairsType DEF BlameInv, TypeOK
<1>1. CASE StartHarness \/ VisitHole \/ ConcretizeHole \/ FoldsToFalse
  <2>1. /\ UNCHANGED <<correct, pair, pending, decisions, finder, pins>>
        /\ phase \in {"next", "inline"}
        /\ phase' \notin {"solve", "answered"}
    BY <1>1 DEF StartHarness, VisitHole, ConcretizeHole, FoldsToFalse, BadConcretization
  <2>2. ASSUME NEW i \in Harnesses
        PROVE  WasAsserted(i)' <=> WasAsserted(i)
    BY <2>1 DEF WasAsserted
  <2>3. QED
    BY <1>0, <2>1, <2>2 DEF BlameInv, PassesWith
<1>2. CASE FixValue
  <2>1. /\ UNCHANGED <<correct, pair, pins>>
        /\ phase = "fix" /\ phase' \notin {"solve", "answered"}
    BY <1>2, FixChooses
  <2>2. ASSUME NEW i \in Harnesses
        PROVE  WasAsserted(i)' <=> WasAsserted(i)
    BY <2>1 DEF WasAsserted
  <2>3. Later0'
    BY <1>0, <1>2, <2>1, FixBlames
  <2>4. CASE pending'
    BY <2>3, <2>4 DEF BlameInv
  <2>5. CASE UNCHANGED <<pending, finder>>
    <3>1. Keeps'
      <4>1. ASSUME NEW i \in Harnesses, NEW x
            PROVE  PassesWith(i, pins[i], x)' <=> PassesWith(i, pins[i], x)
        BY <2>1 DEF PassesWith
      <4>2. \A x : Passing(x)' <=> Passing(x)
        BY <2>2, <4>1
      <4>3. QED
        BY <1>0, <2>1, <2>5, <4>2
    <3>2. QED
      BY <2>3, <3>1 DEF BlameInv
  <2>6. QED
    BY <1>2, <2>4, <2>5, FixBlames
<1>3. CASE AssertHarness
  <2>1. /\ UNCHANGED <<correct, pair, pending, decisions, finder>>
        /\ phase = "inline" /\ phase' = "solve"
        /\ pins' = [pins EXCEPT ![pair] = Chosen(Uses[pair])]
    BY <1>3 DEF AssertHarness
  <2>2. ASSUME NEW i \in Harnesses, WasAsserted(i)
        PROVE  WasAsserted(i)' /\ pins'[i] = pins[i]
    <3>1. i # pair /\ WasAsserted(i)'
      BY <1>0, <2>1, <2>2 DEF WasAsserted
    <3>2. QED
      BY <2>1, <3>1 DEF TypeOK
  <2>3. ASSUME NEW x \in Assignments, Passing(x)' PROVE Passing(x)
    <3>1. ASSUME NEW i \in Harnesses, WasAsserted(i)
          PROVE  PassesWith(i, pins[i], x)
      <4>1. WasAsserted(i)' /\ pins'[i] = pins[i]
        BY <2>2, <3>1
      <4>2. PassesWith(i, pins[i], x)'
        BY <2>3, <4>1
      <4>3. QED
        BY <2>1, <4>1, <4>2 DEF PassesWith
    <3>2. QED
      BY <3>1
  <2>4. Keeps'
    BY <1>0, <2>1, <2>3
  <2>5. QED
    BY <1>0, <2>1, <2>4 DEF BlameInv
<1>4. CASE Counterexample
  <2>1. /\ UNCHANGED <<correct, pair, pending, decisions, pins>>
        /\ phase = "solve" /\ phase' \in {"failed", "solve"}
    BY <1>4 DEF Counterexample
  <2>2. Later0'
    BY <1>0, <2>1
  <2>3. ASSUME NEW x \in Assignments, Passing(x)', ~ pending', phase' = "solve"
        PROVE  x \in finder'
    <3>1. PICK k \in 0 .. pair : curHarness' = Later(k)
      BY <1>4 DEF Counterexample
    <3>2. curHarness' \in 0 .. pair
      <4>1. curHarness \in Nat /\ k \in Nat
        BY PairsType, <1>0 DEF TypeOK
      <4>2. QED
        BY <1>0, <3>1, <4>1 DEF Later
    <3>3. curHarness' \in Harnesses /\ WasAsserted(curHarness')
      BY <1>0, <2>1, <3>2, PairsType DEF WasAsserted, TypeOK
    <3>4. ASSUME NEW i \in Harnesses, WasAsserted(i)
          PROVE  PassesWith(i, pins[i], x)
      <4>1. WasAsserted(i)'
        BY <2>1, <2>3, <3>4 DEF WasAsserted
      <4>2. PassesWith(i, pins[i], x)'
        BY <2>3, <4>1
      <4>3. QED
        BY <2>1, <4>2 DEF PassesWith
    <3>5. x \in finder /\ PassesWith(curHarness', pins[curHarness'], x)
      BY <1>0, <2>1, <2>3, <3>3, <3>4
    <3>6. PICK lost \in SUBSET {y \in finder :
                          ~ PassesWith(curHarness', pins[curHarness'], y)} :
            finder' = finder \ lost
      BY <1>4 DEF Counterexample
    <3>7. QED
      BY <3>5, <3>6
  <2>4. Keeps'
    BY <2>1, <2>3
  <2>5. QED
    BY <2>2, <2>4 DEF BlameInv
<1>5. CASE Verified
  <2>1. /\ UNCHANGED <<correct, pending, decisions, finder, pins>>
        /\ phase = "solve"
        /\ \/ phase' = "answered" /\ pair' = pair
           \/ phase' = "next" /\ pair' = pair + 1
    BY <1>5 DEF Verified
  <2>2. Later0'
    BY <1>0, <2>1
  <2>3. ASSUME NEW i \in Harnesses
        PROVE  WasAsserted(i)' <=> WasAsserted(i)
    BY <1>0, <2>1 DEF WasAsserted
  <2>4. Keeps'
    BY <1>0, <2>1, <2>3 DEF PassesWith
  <2>5. QED
    BY <2>2, <2>4 DEF BlameInv
<1>6. CASE Reset
  BY <1>6 DEF Reset, BlameInv
<1>7. CASE UNCHANGED vars
  BY <1>7 DEF vars, BlameInv, WasAsserted, PassesWith
<1>8. QED
  BY <1>1, <1>2, <1>3, <1>4, <1>5, <1>6, <1>7 DEF Next

(* When the finder runs out of candidates without constraints of its own,  *)
(* no correct assignment has the values that were chosen: those that pass  *)
(* what was asserted are all gone.                                         *)
LEMMA FinderExhausted ==
  ASSUME TypeOK, ChoiceInv, BlameInv,
         Counterexample, phase' = "failed", ~ pending,
         NEW x \in Correct,
         \A h \in Holes : randholes[h] # None => x[h] = randholes[h]
  PROVE  FALSE
<1>1. /\ phase = "solve"
      /\ finder' = {}
      /\ \E k \in 0 .. pair : curHarness' = Later(k)
      /\ \E lost \in SUBSET {y \in finder :
                       ~ PassesWith(curHarness', pins[curHarness'], y)} :
           finder' = finder \ lost
  BY DEF Counterexample
<1>2. /\ pair \in Nat /\ 0 .. pair \subseteq Harnesses
      /\ curHarness \in Nat
  BY PairsType DEF TypeOK
<1>3. curHarness' \in 0 .. pair
  BY <1>1, <1>2 DEF Later
<1>4. ASSUME NEW i \in Harnesses, WasAsserted(i)
      PROVE  PassesWith(i, pins[i], x)
  <2>1. PassesWith(i, {}, x)
    BY DEF Correct
  <2>2. ASSUME NEW h \in Uses[i], NEW v \in Vals, <<h, v>> \in pins[i]
        PROVE  x[h] = v
    <3>1. h \in Holes /\ randholes[h] = v
      BY <1>4, <2>2 DEF ChoiceInv, PinsStand
    <3>2. QED
      BY <3>1, NoneType
  <2>3. QED
    BY <2>1, <2>2, PassesPinned
<1>5. x \in finder
  BY <1>1, <1>4 DEF BlameInv, Correct
<1>6. PassesWith(curHarness', pins[curHarness'], x)
  <2>1. curHarness' \in Harnesses /\ WasAsserted(curHarness')
    BY <1>1, <1>2, <1>3 DEF WasAsserted
  <2>2. QED
    BY <1>4, <2>1
<1>7. QED
  BY <1>1, <1>5, <1>6

(* If the harnesses are linked and all values chosen are decisions, the    *)
(* decisions blamed are all there are.                                     *)
LEMMA ConflictSuffices ==
  ASSUME TypeOK, ControlInv, ChoiceInv, BlameInv, Next,
         phase = "solve", phase' = "failed", ~ pending, Linked',
         \A h \in Holes : randholes[h] # None =>
           \E i \in Harnesses : <<h, randholes[h]>> \in decisions[i],
         NEW x \in Correct, x \in Agreeing(Conflict')
  PROVE  FALSE
<1>1. Counterexample
  <2>1. ~ FixValue
    BY FixChooses
  <2>2. QED
    BY <2>1 DEF Next, StartHarness, VisitHole, ConcretizeHole, FoldsToFalse,
       AssertHarness, Verified, Reset
<1>2. UNCHANGED <<pair, decisions>>
  BY <1>1, Frames DEF Counterexample
<1>3. \A i \in 0 .. pair : decisions[i] \subseteq Conflict'
  <2>1. (0 .. pair) \subseteq Component(curHarness)'
    BY <1>2 DEF Linked
  <2>2. Conflict' = UNION {decisions[i] : i \in Component(curHarness)'}
    BY <1>2 DEF Conflict
  <2>3. QED
    BY <2>1, <2>2
<1>4. ASSUME NEW h \in Holes, randholes[h] # None PROVE x[h] = randholes[h]
  <2>1. PICK i \in Harnesses : <<h, randholes[h]>> \in decisions[i]
    BY <1>4
  <2>2. i \in 0 .. pair
    BY <2>1, PairsType DEF BlameInv, TypeOK
  <2>3. <<h, randholes[h]>> \in Conflict'
    BY <1>3, <2>1, <2>2
  <2>4. QED
    BY <2>3 DEF Agreeing
<1>5. QED
  BY <1>1, <1>4, FinderExhausted

(* The decisions of linked harnesses explain why the finder gave up. *)
THEOREM BlameJustified == Spec => BlameSuffices
<1> DEFINE IInv == TypeOK /\ ControlInv /\ ChoiceInv /\ BlameInv
           Fails0 == /\ phase = "solve" /\ phase' = "failed"
                     /\ ~ pending
                     /\ Linked'
                     /\ \A h \in Holes : randholes[h] # None =>
                          \E i \in Harnesses : <<h, randholes[h]>> \in decisions[i]
           Suffices == Fails0 => Agreeing(Conflict') \cap Correct = {}
<1>1. Init => IInv
  BY InitTypes, InitChoices, InitBlame
<1>2. IInv /\ [Next]_vars => IInv'
  BY NextTypes, NextChoices, NextBlame
<1>3. IInv /\ [Next]_vars => [Suffices]_vars
  <2>1. ASSUME IInv, Next, Fails0, NEW x \in Agreeing(Conflict') \cap Correct
        PROVE  FALSE
    BY <2>1, ConflictSuffices
  <2>2. QED
    BY <2>1
<1>4. QED
  BY <1>1, <1>2, <1>3, PTL DEF Spec, BlameSuffices

---------------------------------------------------------------------------
(* One harness: what is excluded is bad, and UNSAT is true. *)

(* What globalSat implies holds for the assignments that it allows.        *)
LEMMA OpinionsSound ==
  ASSUME TypeOK, NEW x \in Models(clauses), x \in Agreeing(Levels(Len(trail))),
         NEW h \in Holes, NEW v \in Vals
  PROVE  /\ 1 \in Opinions(h, v) => x[h] = v
         /\ -1 \in Opinions(h, v) => x[h] # v
<1> DEFINE D == Left(Propagate(clauses, Levels(Len(trail))), h)
<1>1. Levels(Len(trail)) \in SUBSET Facts
  BY LevelsType DEF TypeOK
<1>2. x[h] \in Vals
  BY DEF Models, Assignments
<1>3. x[h] \in D
  BY <1>1, <1>2, PropagateSound DEF Left
<1>4. 1 \in Opinions(h, v) => D = {v}
  BY <1>3 DEF Opinions
<1>5. -1 \in Opinions(h, v) => v \notin D
  BY <1>3 DEF Opinions
<1>6. QED
  BY <1>3, <1>4, <1>5

(* tryAssignment refuses what no such assignment has, and learns nothing   *)
(* that does not follow from the clauses.                                  *)
LEMMA TrySound ==
  ASSUME TypeOK, NEW p \in Facts, TryFails(p), NEW x \in Models(clauses)
  PROVE  /\ okay /\ x \in Agreeing(Levels(Len(trail))) => x[p[1]] # p[2]
         /\ x \in Models(clauses')
         /\ okay => okay'
<1>0. trail \in Seq(Facts) /\ Len(trail) \in Nat /\ Levels(Len(trail)) \in SUBSET Facts
  BY LevelsType DEF TypeOK
<1>1. CASE ~ okay /\ UNCHANGED globalVars
  BY <1>1 DEF globalVars
<1>2. ASSUME okay,
             Conflicting(Propagate(clauses, Levels(Len(trail)) \cup {p})),
             NEW b \in 0 .. Len(trail),
             NEW L \in SUBSET (Levels(Len(trail)) \cup {p}),
             Agreeing(L) \cap Models(clauses) = {},
             clauses' = clauses \cup {L},
             trail' = SubSeq(trail, 1, b),
             LET left == Propagate(clauses \cup {L}, Levels(b))
             IN  IF b > 0 THEN ~ Conflicting(left) /\ UNCHANGED okay
                 ELSE okay' = ~ Conflicting(left)
      PROVE  /\ x \in Agreeing(Levels(Len(trail))) => x[p[1]] # p[2]
             /\ x \in Models(clauses')
             /\ okay'
  <2>1. ASSUME x \in Agreeing(Levels(Len(trail))), x[p[1]] = p[2] PROVE FALSE
    <3>1. x \in Agreeing(Levels(Len(trail)) \cup {p})
      BY <2>1 DEF Agreeing
    <3>2. \A h \in Holes : <<h, x[h]>> \in Propagate(clauses, Levels(Len(trail)) \cup {p})
      BY <1>0, <3>1, PropagateSound
    <3>3. \A h \in Holes : x[h] \in Vals
      BY DEF Models, Assignments
    <3>4. QED
      BY <1>2, <3>2, <3>3 DEF Conflicting, Left
  <2>2. x \in Models(clauses')
    <3>1. x \in Assignments /\ x \notin Agreeing(L)
      BY <1>2 DEF Models
    <3>2. \E q \in L : x[q[1]] # q[2]
      BY <3>1 DEF Agreeing
    <3>3. QED
      BY <1>2, <3>2 DEF Models
  <2>3. okay'
    <3>1. CASE b > 0
      BY <1>2, <3>1
    <3>2. CASE ~ (b > 0)
      <4>1. Levels(b) = {}
        BY <3>2 DEF Levels
      <4>2. x \in Agreeing({}) /\ x \in Models(clauses \cup {L})
        BY <1>2, <2>2 DEF Agreeing, Models
      <4>3. \A h \in Holes : <<h, x[h]>> \in Propagate(clauses \cup {L}, {})
        BY <4>2, PropagateSound
      <4>4. \A h \in Holes : x[h] \in Vals
        BY DEF Models, Assignments
      <4>5. ~ Conflicting(Propagate(clauses \cup {L}, {}))
        BY <4>3, <4>4 DEF Conflicting, Left
      <4>6. QED
        BY <1>2, <3>2, <4>1, <4>5
    <3>3. QED
      BY <3>1, <3>2
  <2>4. QED
    BY <2>1, <2>2, <2>3
<1>3. QED
  BY <1>1, <1>2 DEF TryFails

LEMMA TryLevels ==
  ASSUME TypeOK, NEW p \in Facts, TryFails(p)
  PROVE  Levels(Len(trail))' \subseteq Levels(Len(trail))
<1>1. CASE UNCHANGED globalVars
  BY <1>1 DEF globalVars, Levels
<1>2. ASSUME NEW b \in 0 .. Len(trail), trail' = SubSeq(trail, 1, b)
      PROVE  Levels(Len(trail))' \subseteq Levels(Len(trail))
  <2>1. trail \in Seq(Facts) /\ Len(trail) \in Nat
    BY DEF TypeOK
  <2>2. Len(trail') = b /\ \A k \in 1 .. b : trail'[k] = trail[k]
    BY <1>2, <2>1
  <2>3. QED
    BY <2>1, <2>2 DEF Levels
<1>3. QED
  BY <1>1, <1>2 DEF TryFails

(* The cyclic order in which fixValue tries values has them all.           *)
LEMMA AllValuesTried ==
  ASSUME NEW rv \in Vals, NEW v \in Vals
  PROVE  \E k \in 1 .. Cardinality(Vals) : (k - 1 + rv) % Cardinality(Vals) = v
<1> DEFINE n == Cardinality(Vals)
           k == IF v >= rv THEN v - rv + 1 ELSE v - rv + n + 1
<1>1. n \in Nat \ {0} /\ rv \in 0 .. (n - 1) /\ v \in 0 .. (n - 1)
  BY ValsAssumption, Finite
<1> HIDE DEF n
<1>2. k \in 1 .. n
  BY <1>1
<1>3. k - 1 + rv = v \/ k - 1 + rv = v + n
  BY <1>1
<1>4. v % n = v /\ (v + n) % n = v
  BY <1>1
<1>5. (k - 1 + rv) % n = v
  BY <1>3, <1>4
<1>6. QED
  BY <1>2, <1>5 DEF n

(* With one harness, all decisions are blamed. *)
LEMMA OneConflict ==
  ASSUME TypeOK, Pairs = 1
  PROVE  /\ Harnesses = {0} /\ pair = 0 /\ curHarness = 0
         /\ Conflict = decisions[0]
<1>1. Harnesses = {0}
  BY PairsType
<1>2. pair = 0 /\ curHarness = 0
  BY <1>1 DEF TypeOK
<1>3. Component(0) = {0}
  BY <1>1, ComponentType
<1>4. QED
  BY <1>1, <1>2, <1>3 DEF Conflict

LEMMA InitSingle == Init /\ Pairs = 1 => SingleInv
<1> SUFFICES ASSUME Init, Pairs = 1 PROVE SingleInv
  OBVIOUS
<1>1. Levels(Len(trail)) = {}
  BY DEF Init, Levels
<1>2. Correct \subseteq Models(clauses)
  BY DEF Init, Correct, Models
<1>3. \A h \in Holes : randholes[h] = None
  BY DEF Init
<1>4. QED
  BY <1>1, <1>2, <1>3 DEF Init, SingleInv

(* Steps that leave globalSat and the choices alone. *)
LEMMA SameSingle ==
  ASSUME SingleInv,
         UNCHANGED <<correct, pending, clauses, trail, okay, randholes, decisions>>,
         phase' # "unsat",
         phase' \in {"next", "inline", "fix"} =>
           phase \in {"next", "inline", "fix"} /\ UNCHANGED declared,
         phase' = "fix" =>
           \A x \in Repeaters : \E k \in 1 .. Len(fix'.left) :
             fix'.left[k] = x[fix'.hole],
         phase' = "failed" => Repeaters = {}
  PROVE  SingleInv'
<1>1. /\ Correct' = Correct
      /\ Models(clauses)' = Models(clauses)
      /\ Repeaters' = Repeaters
      /\ Levels(Len(trail))' = Levels(Len(trail))
  BY DEF Correct, PassesWith, Models, Repeaters, Agreeing, Levels
<1>2. QED
  BY <1>1 DEF SingleInv

LEMMA FixSingle ==
  ASSUME TypeOK, ControlInv, SingleInv, Pairs = 1, FixValue
  PROVE  SingleInv'
<1> USE Frames
<1> DEFINE h == fix.hole
           v == Head(fix.left)
<1>0. /\ phase = "fix" /\ h \in Holes /\ randholes[h] = None
      /\ declared = {} /\ ~ Local(h) /\ ~ pending
      /\ Correct \subseteq Models(clauses)
      /\ ~ okay => Correct = {}
      /\ Levels(Len(trail)) \subseteq decisions[0]
      /\ \A x \in Repeaters, g \in Holes : randholes[g] # None => x[g] = randholes[g]
      /\ \A x \in Repeaters : \E k \in 1 .. Len(fix.left) : fix.left[k] = x[h]
      /\ phase' \in {"inline", "fix", "failed", "crashed"}
      /\ UNCHANGED <<correct, declared>>
  BY FixChooses DEF SingleInv, Local
<1>1. /\ fix.left \in Seq(Vals) /\ trail \in Seq(Facts)
      /\ Harnesses = {0} /\ curHarness = 0
      /\ randholes \in [Holes -> Vals \cup {None}]
      /\ decisions \in [Harnesses -> SUBSET Facts]
  BY OneConflict DEF TypeOK
<1>2. Correct' = Correct
  BY <1>0 DEF Correct, PassesWith
<1>3. \A x \in Repeaters : x \in Correct /\ x \in Models(clauses)
                           /\ x \in Agreeing(Levels(Len(trail)))
  BY <1>0 DEF Repeaters, Agreeing
<1>4. ASSUME fix.left # <<>>
      PROVE  h \in Holes /\ v \in Vals /\ <<h, v>> \in Facts
  BY <1>0, <1>4, FixTypes
(* A value is passed over that no assignment at issue has. *)
<1>5. ASSUME fix.left # <<>>, \A x \in Repeaters : x[h] # v
      PROVE  \A x \in Repeaters : \E k \in 1 .. Len(Tail(fix.left)) :
               Tail(fix.left)[k] = x[h]
  <2>1. ASSUME NEW x \in Repeaters
        PROVE  \E k \in 1 .. Len(Tail(fix.left)) : Tail(fix.left)[k] = x[h]
    <3>1. PICK k \in 1 .. Len(fix.left) : fix.left[k] = x[h]
      BY <1>0
    <3>2. k # 1
      BY <1>5, <3>1
    <3>3. /\ Len(Tail(fix.left)) = Len(fix.left) - 1
          /\ k - 1 \in 1 .. Len(Tail(fix.left))
          /\ Tail(fix.left)[k - 1] = fix.left[k]
      BY <1>1, <1>5, <3>1, <3>2
    <3>4. QED
      BY <3>1, <3>3
  <2>2. QED
    BY <2>1
(* The value is taken, by those at issue as well. *)
<1>6. ASSUME fix.left # <<>>, NEW q \in BOOLEAN, Take(h, v, q),
             ~ q => \A x \in Repeaters : x[h] = v
      PROVE  /\ \A x \in Repeaters' : /\ x \in Repeaters
                                      /\ \A g \in Holes : randholes'[g] # None =>
                                           x[g] = randholes'[g]
             /\ decisions'[0] = IF q THEN decisions[0] \cup {<<h, v>>}
                                ELSE decisions[0]
             /\ phase' = "inline"
  <2>1. decisions'[0] = IF q THEN decisions[0] \cup {<<h, v>>} ELSE decisions[0]
    BY <1>1, <1>6 DEF Take, Recording
  <2>2. ASSUME NEW x \in Repeaters'
        PROVE  x \in Repeaters /\ x[h] = v
    <3>1. x \in Correct /\ x \in Agreeing(decisions'[0])
      BY <1>2, <2>2 DEF Repeaters, Agreeing
    <3>2. x \in Repeaters
      BY <2>1, <3>1 DEF Repeaters, Agreeing
    <3>3. q => x[h] = v
      <4>1. q => <<h, v>> \in decisions'[0]
        BY <2>1
      <4>2. \A p \in decisions'[0] : x[p[1]] = p[2]
        BY <3>1 DEF Agreeing
      <4>3. QED
        BY <4>1, <4>2
    <3>4. QED
      BY <1>6, <3>2, <3>3
  <2>3. \A g \in Holes : randholes'[g] = IF g = h THEN v ELSE randholes[g]
    BY <1>1, <1>6 DEF Take
  <2>4. QED
    BY <1>0, <1>6, <2>1, <2>2, <2>3 DEF Take
<1>7. CASE TryFreeValue
  <2>1. /\ fix.left # <<>>
        /\ UNCHANGED <<pending, finder>>
        /\ \/ TrySucceeds(<<h, v>>) /\ Take(h, v, TRUE)
           \/ TryFails(<<h, v>>) /\ Skip
    BY <1>7 DEF TryFreeValue
  <2>2. CASE TrySucceeds(<<h, v>>) /\ Take(h, v, TRUE)
    <3>1. /\ UNCHANGED <<clauses, okay>>
          /\ trail' = Append(trail, <<h, v>>)
      BY <2>2 DEF TrySucceeds
    <3>2. Levels(Len(trail))' \subseteq Levels(Len(trail)) \cup {<<h, v>>}
      BY <1>1, <1>4, <2>1, <3>1, AppendLevels
    <3>3. /\ \A x \in Repeaters', g \in Holes :
               randholes'[g] # None => x[g] = randholes'[g]
          /\ decisions'[0] = decisions[0] \cup {<<h, v>>}
          /\ phase' = "inline"
      BY <1>6, <2>1, <2>2
    <3>4. Models(clauses)' = Models(clauses)
      BY <3>1 DEF Models
    <3>5. QED
      BY <1>0, <1>2, <2>1, <3>1, <3>2, <3>3, <3>4 DEF SingleInv
  <2>3. CASE TryFails(<<h, v>>) /\ Skip
    <3>1. ASSUME NEW x \in Correct
          PROVE  /\ x \in Agreeing(Levels(Len(trail))) => x[h] # v
                 /\ x \in Models(clauses')
                 /\ okay'
      <4>1. x \in Models(clauses) /\ okay /\ <<h, v>> \in Facts
        BY <1>0, <1>4, <2>1, <3>1
      <4>2. QED
        BY <2>3, <4>1, TrySound
    <3>2. /\ UNCHANGED <<randholes, decisions>> /\ phase' = "fix"
          /\ fix'.hole = h /\ fix'.left = Tail(fix.left)
      BY <1>0, <2>1, <2>3, FixTypes
    <3>3. Repeaters' = Repeaters
      BY <1>2, <3>2 DEF Repeaters, Agreeing
    <3>4. \A x \in Repeaters : x[h] # v
      BY <1>3, <3>1
    <3>5. Levels(Len(trail))' \subseteq Levels(Len(trail))
      BY <1>4, <2>1, <2>3, TryLevels
    <3>6. Correct' \subseteq Models(clauses)'
      BY <1>2, <3>1 DEF Models
    <3>7. ~ okay' => Correct' = {}
      BY <1>2, <3>1
    <3>8. \A x \in Repeaters' : \E k \in 1 .. Len(fix'.left) :
            fix'.left[k] = x[fix'.hole]
      BY <1>5, <2>1, <3>2, <3>3, <3>4
    <3>9. QED
      BY <1>0, <2>1, <3>2, <3>3, <3>5, <3>6, <3>7, <3>8 DEF SingleInv
  <2>4. QED
    BY <2>1, <2>2, <2>3
<1>8. CASE TryLocalValue
  BY <1>0, <1>8 DEF TryLocalValue
<1>9. CASE TakeImplied
  <2>1. /\ fix.left # <<>> /\ 1 \in Opinions(h, v)
        /\ Take(h, v, FALSE)
        /\ UNCHANGED <<pending, clauses, trail, okay>>
    BY <1>0, <1>9 DEF TakeImplied
  <2>2. \A x \in Repeaters : x[h] = v
    BY <1>3, <1>4, <2>1, OpinionsSound
  <2>3. /\ \A x \in Repeaters', g \in Holes :
             randholes'[g] # None => x[g] = randholes'[g]
        /\ decisions'[0] = decisions[0]
        /\ phase' = "inline"
    BY <1>6, <2>1, <2>2
  <2>4. Models(clauses)' = Models(clauses) /\ Levels(Len(trail))' = Levels(Len(trail))
    BY <2>1 DEF Models, Levels
  <2>5. QED
    BY <1>0, <1>2, <2>1, <2>3, <2>4 DEF SingleInv
<1>10. CASE SkipExcluded
  <2>1. /\ fix.left # <<>> /\ -1 \in Opinions(h, v)
        /\ Skip
        /\ UNCHANGED <<pending, clauses, trail, okay>>
    BY <1>0, <1>10 DEF SkipExcluded
  <2>2. \A x \in Repeaters : x[h] # v
    BY <1>3, <1>4, <2>1, OpinionsSound
  <2>3. /\ UNCHANGED <<randholes, decisions>> /\ phase' = "fix"
        /\ fix'.hole = h /\ fix'.left = Tail(fix.left)
    BY <1>0, <2>1, FixTypes
  <2>4. QED
    BY <1>0, <1>5, <2>1, <2>2, <2>3, SameSingle
<1>11. CASE GiveUp
  <2>1. /\ fix.left = <<>> /\ phase' \in {"failed", "crashed"}
        /\ UNCHANGED <<randholes, decisions, pending, clauses, trail, okay>>
    BY <1>11 DEF GiveUp, Throw, BadConcretization
  <2>2. Repeaters = {}
    BY <1>0, <2>1
  <2>3. QED
    BY <1>0, <2>1, <2>2, SameSingle
<1>12. QED
  BY <1>7, <1>8, <1>9, <1>10, <1>11 DEF FixValue

LEMMA NextSingle ==
  ASSUME TypeOK, ControlInv, ChoiceInv, BlameInv, SingleInv, Pairs = 1,
         [Next]_vars
  PROVE  SingleInv'
<1> USE Frames
<1>0. /\ Harnesses = {0} /\ pair = 0 /\ curHarness = 0
      /\ Conflict = decisions[0]
  BY OneConflict
<1>a. \A x \in Repeaters : /\ x \in Correct /\ PassesWith(0, {}, x)
                           /\ \A h \in Holes : randholes[h] # None =>
                                x[h] = randholes[h]
  BY <1>0 DEF SingleInv, Repeaters, Correct
<1>1. CASE StartHarness \/ VisitHole \/ AssertHarness
  <2>1. /\ UNCHANGED <<correct, pending, clauses, trail, okay, randholes, decisions>>
        /\ phase' \notin {"unsat", "fix", "failed"}
        /\ phase' \in {"next", "inline"} =>
             phase \in {"next", "inline"} /\ UNCHANGED declared
    BY <1>1 DEF StartHarness, VisitHole, AssertHarness
  <2>2. QED
    BY <2>1, SameSingle
<1>2. CASE ConcretizeHole
  <2>1. /\ UNCHANGED <<correct, pending, clauses, trail, okay, randholes,
                       decisions, declared>>
        /\ phase = "inline" /\ phase' = "fix"
    BY <1>2 DEF ConcretizeHole
  <2>2. PICK h \in Uses[pair], rv \in Vals :
          fix' = [hole |-> h,
                  left |-> [k \in 1 .. Cardinality(Vals) |->
                              (k - 1 + rv) % Cardinality(Vals)]]
    BY <1>2 DEF ConcretizeHole
  <2>3. h \in Holes
    BY <1>0, UsesAssumption
  <2>4. ASSUME NEW x \in Repeaters
        PROVE  \E k \in 1 .. Len(fix'.left) : fix'.left[k] = x[fix'.hole]
    <3>1. x[h] \in Vals
      BY <2>3 DEF Repeaters, Correct, Assignments
    <3>2. PICK k \in 1 .. Cardinality(Vals) : (k - 1 + rv) % Cardinality(Vals) = x[h]
      BY <3>1, AllValuesTried
    <3>3. Len(fix'.left) = Cardinality(Vals) /\ fix'.hole = h
      BY <2>2, Finite
    <3>4. fix'.left[k] = x[h]
      BY <2>2, <3>2
    <3>5. QED
      BY <3>2, <3>3, <3>4
  <2>5. QED
    BY <2>1, <2>4, SameSingle
<1>3. CASE FixValue
  BY <1>3, FixSingle
<1>4. CASE FoldsToFalse
  <2>1. /\ UNCHANGED <<correct, pending, clauses, trail, okay, randholes,
                       decisions, declared>>
        /\ phase = "inline" /\ phase' \in {"crashed", "failed"}
        /\ \A x \in Assignments : ~ PassesWith(0, Chosen(holesOf[0]), x)
    BY <1>0, <1>4 DEF FoldsToFalse, BadConcretization
  <2>2. ASSUME NEW x \in Repeaters PROVE FALSE
    <3>1. x \in Assignments /\ holesOf[0] \subseteq Holes
      BY <1>0 DEF Repeaters, Correct, TypeOK
    <3>2. ASSUME NEW h, NEW v, <<h, v>> \in Chosen(holesOf[0])
          PROVE  x[h] = v
      <4>1. h \in Holes /\ randholes[h] # None /\ v = randholes[h]
        BY <3>1, <3>2 DEF Chosen
      <4>2. QED
        BY <1>a, <4>1
    <3>3. PassesWith(0, Chosen(holesOf[0]), x)
      BY <1>a, <3>2, PassesPinned
    <3>4. QED
      BY <2>1, <3>1, <3>3
  <2>3. QED
    BY <2>1, <2>2, SameSingle
<1>5. CASE Counterexample
  <2>1. /\ UNCHANGED <<correct, pending, clauses, trail, okay, randholes, decisions>>
        /\ phase' \in {"solve", "failed"}
        /\ ~ pending
    BY <1>5 DEF Counterexample, SingleInv
  <2>2. phase' = "failed" => Repeaters = {}
    BY <1>a, <1>5, <2>1, FinderExhausted
  <2>3. QED
    BY <2>1, <2>2, SameSingle
<1>6. CASE Verified
  <2>1. /\ UNCHANGED <<correct, pending, clauses, trail, okay, randholes, decisions>>
        /\ phase' = "answered"
    BY <1>0, <1>6 DEF Verified
  <2>2. QED
    BY <2>1, SameSingle
<1>7. CASE Reset
  <2>1. /\ clauses' = clauses \cup {decisions[0]} /\ trail' = <<>>
        /\ okay' = (/\ okay
                    /\ decisions[0] # {}
                    /\ ~ Conflicting(Propagate(clauses \cup {decisions[0]}, {})))
        /\ randholes' = [h \in Holes |-> None]
        /\ decisions' = [i \in Harnesses |-> {}]
        /\ pending' = FALSE /\ declared' = {}
        /\ phase' \in {"unsat", "unknown", "next"} /\ (phase' = "unsat" <=> ~ okay')
        /\ correct' = correct
    BY <1>0, <1>7 DEF Reset, Learnt
  <2>2. Correct' = Correct
    BY <2>1 DEF Correct, PassesWith
  <2>3. Repeaters = {} /\ Correct \subseteq Models(clauses)
    BY <1>7 DEF Reset, SingleInv
  <2>4. ASSUME NEW x \in Correct PROVE x \in Models(clauses') /\ okay'
    <3>1. x \notin Agreeing(decisions[0]) /\ x \in Assignments /\ x \in Models(clauses)
      BY <2>3 DEF Repeaters, Correct
    <3>2. PICK p \in decisions[0] : x[p[1]] # p[2]
      BY <3>1 DEF Agreeing
    <3>3. x \in Models(clauses \cup {decisions[0]})
      BY <3>1, <3>2 DEF Models
    <3>4. x \in Agreeing({})
      BY <3>1 DEF Agreeing
    <3>5. \A h \in Holes : <<h, x[h]>> \in Propagate(clauses \cup {decisions[0]}, {})
      BY <3>3, <3>4, PropagateSound
    <3>6. \A h \in Holes : x[h] \in Vals
      BY <3>1 DEF Assignments
    <3>7. ~ Conflicting(Propagate(clauses \cup {decisions[0]}, {}))
      BY <3>5, <3>6 DEF Conflicting, Left
    <3>8. okay
      BY DEF SingleInv
    <3>9. QED
      BY <2>1, <3>2, <3>3, <3>7, <3>8
  <2>5. Levels(Len(trail))' = {}
    BY <2>1 DEF Levels
  <2>6. Correct' \subseteq Models(clauses)' /\ (~ okay' => Correct' = {})
    BY <2>2, <2>4 DEF Models
  <2>7. \A h \in Holes : randholes'[h] = None
    BY <2>1
  <2>8. QED
    BY <2>1, <2>5, <2>6, <2>7 DEF SingleInv
<1>8. CASE UNCHANGED vars
  BY <1>8 DEF vars, SingleInv, Correct, PassesWith, Models, Repeaters, Agreeing, Levels
<1>9. QED
  BY <1>1, <1>2, <1>3, <1>4, <1>5, <1>6, <1>7, <1>8 DEF Next

LEMMA SingleInvariant == Spec => [](Pairs = 1 => SingleInv)
<1> DEFINE IInv == /\ TypeOK /\ ControlInv /\ ChoiceInv /\ BlameInv
                   /\ Pairs = 1 => SingleInv
<1>1. Init => IInv
  BY InitTypes, InitChoices, InitBlame, InitSingle
<1>2. IInv /\ [Next]_vars => IInv'
  BY NextTypes, NextChoices, NextBlame, NextSingle
<1>3. IInv => (Pairs = 1 => SingleInv)
  OBVIOUS
<1>4. QED
  BY <1>1, <1>2, <1>3, PTL DEF Spec

(* In a sketch with one harness, what failed attempts have excluded is     *)
(* known to be bad.                                                        *)
THEOREM ExcludedIsBad == Spec => [](Pairs = 1 => OnlyBadExcluded)
<1>1. (Pairs = 1 => SingleInv) => (Pairs = 1 => OnlyBadExcluded)
  BY DEF SingleInv, OnlyBadExcluded
<1>2. QED
  BY <1>1, SingleInvariant, PTL

(* And when it is reported that it has no solution, it has none.           *)
THEOREM UnsatIsTrue == Spec => [](Pairs = 1 => UnsatJustified)
<1>1. (Pairs = 1 => SingleInv) => (Pairs = 1 => UnsatJustified)
  BY DEF SingleInv, UnsatJustified
<1>2. QED
  BY <1>1, SingleInvariant, PTL
=============================================================================
