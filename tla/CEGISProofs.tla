----------------------------- MODULE CEGISProofs -----------------------------
(***************************************************************************)
(* Proofs about CEGIS, for any number of harnesses, controls, inputs and   *)
(* sizes, and for any setting of the options.                              *)
(***************************************************************************)
EXTENDS CEGIS, TLAPS

InLoop == {"check", "solve", "adjust", "checked", "find"}
InCheck == {"solve", "adjust"}

(* Harness h will not be grown any more. *)
Full(h) == h \in FileProblems \/ size[h] >= NINPUTS

(* Harness h is one of the toVerify harnesses from cur on, cyclically. *)
ToCheck(h) ==
  \/ cur <= h /\ h < cur + toVerify
  \/ h + added < cur + toVerify

(* The checker answers for harness h, and the candidate passes it. *)
Trusted(h) == LightVerif \/ h \in AssumeProblems \/ Passes(h, ctrl)

(* Where the stack stands in each phase. *)
Position ==
  /\ phase \in InLoop => added > 0 /\ cur < added
  /\ phase \in InLoop /\ IterLimit > 0 => iter < IterLimit
  /\ phase = "idle" => level = 0
  /\ phase = "check" /\ level = 0 => cur = added - 1
  /\ phase \in {"check", "find"} /\ level > 0 => clone.problem = cur
  /\ phase = "checked" /\ cex # {} => level = 1 /\ clone.problem = cur
  /\ phase = "find" => level = 1 /\ iter > 0
  /\ phase \in InCheck =>
       /\ level = 2
       /\ clone.problem = cur
       /\ toVerify \in 1 .. added

(* The clone, the concretized DAG, the harness and the store agree. *)
Sizes ==
  /\ \A h \in Harnesses : InitSize <= size[h] /\ size[h] <= FullSize
  /\ \A h \in Harnesses : h < added => declared[h] = size[h]
  /\ phase \in {"check", "find"} /\ level > 0 => clone.size = size[cur]
  /\ phase = "checked" /\ cex # {} => clone.size = size[cur]
  /\ phase \in InCheck => clone.size = size[cur] /\ conc = size[cur]

(* Only the newest harness may still have to grow, and then only while it  *)
(* has been the current one since it was asserted.                         *)
Grown ==
  /\ \A h \in Harnesses : h < added =>
       Full(h) \/ (h = added - 1 /\ cur = h /\ phase # "idle")
  /\ phase \in InCheck => ori = "clone" \/ Full(cur)
  /\ phase = "checked" /\ cex = {} =>
       \A h \in Harnesses : h < added => Full(h)

(* The harnesses that were counted down are those the candidate passes. *)
Progress ==
  /\ phase \in InCheck =>
       \A h \in Harnesses : h < added => ToCheck(h) \/ Trusted(h)
  /\ phase = "adjust" =>
       \/ LightVerif
       \/ cur \in AssumeProblems
       \/ Refuting(cur, ctrl, conc) = {}
  /\ phase = "checked" /\ cex = {} =>
       \A h \in Harnesses : h < added => Trusted(h)
  /\ phase = "idle" => \A h \in Harnesses : h < added => Trusted(h)

(* What the finder knows is true of the sketch, and new to it. *)
Knowledge ==
  /\ \A e \in examples : e[1] < added /\ e[2] \in Visible(e[1], FullSize)
  /\ phase \in {"checked", "find"} => \A e \in cex :
       /\ e[1] < added /\ e[2] \in Visible(e[1], FullSize)
       /\ <<e[1], ctrl, e[2]>> \in fails
  /\ phase \in {"check", "solve", "adjust", "checked"} /\ iter > 0 =>
       ctrl \in Consistent(examples)
  /\ phase = "find" /\ iter > 1 => ctrl \in Consistent(examples)

IInv ==
  /\ TypeOK
  /\ Position
  /\ Sizes
  /\ Grown
  /\ Progress
  /\ Knowledge
  /\ FailureJustified

USE ProblemsAssumption, SizeAssumption, OptionAssumption DEF Harnesses

(* The size at which growing stops is a size, and not below either bound.  *)
LEMMA FullSizeType ==
  FullSize \in Nat /\ NINPUTS <= FullSize /\ InitSize <= FullSize
BY DEF FullSize

(* Growing a DAG never hides an input. *)
LEMMA VisibleMonotone ==
  ASSUME NEW h, NEW s \in Nat, NEW t \in Nat, s <= t
  PROVE  Visible(h, s) \subseteq Visible(h, t)
BY DEF Visible

(* The harness that follows h in the cyclic order of the first n. *)
LEMMA CyclicSuccessor ==
  ASSUME NEW n \in Nat, NEW h \in 0 .. (n - 1)
  PROVE  (h + 1) % n = IF h + 1 = n THEN 0 ELSE h + 1
BY Z3

(* The components of a recorded counterexample. *)
LEMMA ExampleType ==
  ASSUME TypeOK
  PROVE  /\ \A e \in examples : e[1] \in Harnesses /\ e[2] \in Inputs
         /\ \A e \in cex : e[1] \in Harnesses /\ e[2] \in Inputs
BY DEF TypeOK

(* A solver that was asked nothing satisfies the invariant.                *)
LEMMA Initially == Init => IInv
<1> SUFFICES ASSUME Init PROVE IInv
  OBVIOUS
<1>1. TypeOK
  <2>1. inputsDag \in BOOLEAN /\ finderLight \in BOOLEAN
    BY DEF Init
  <2> QED
    BY <2>1 DEF Init, TypeOK, Phases
<1>2. Position /\ Sizes /\ Grown
  BY FullSizeType DEF Init, Position, Sizes, Grown, InLoop, InCheck
<1>3. Progress /\ Knowledge /\ FailureJustified
  BY DEF Init, Progress, Knowledge, FailureJustified
<1> QED
  BY <1>1, <1>2, <1>3 DEF IInv

(* When a harness needs no more growing, its last search was at full size. *)
LEMMA LastSearch ==
  ASSUME IInv, phase = "adjust", ~ CanGrow
  PROVE  Trusted(cur)
<1>1. cur \in Harnesses /\ conc = size[cur] /\ conc \in Nat
  BY DEF IInv, TypeOK, Position, Sizes, InCheck
<1>2. Visible(cur, FullSize) \subseteq Visible(cur, conc)
  <2>1. CASE cur \in FileProblems
    BY <2>1 DEF Visible
  <2>2. CASE cur \notin FileProblems
    <3>1. FullSize <= conc
      BY <1>1, <2>2 DEF CanGrow, IInv, Sizes, FullSize
    <3> QED
      BY <1>1, <3>1, FullSizeType, VisibleMonotone
  <2> QED
    BY <2>1, <2>2
<1> QED
  BY <1>2 DEF IInv, Progress, Trusted, Passes, Refuting

(* No step of the loop breaks the invariant: an action to a case, and a    *)
(* conjunct to a step.                                                     *)
LEMMA Step == IInv /\ [Next]_vars => IInv'
<1> SUFFICES ASSUME IInv, [Next]_vars
             PROVE  IInv'
  OBVIOUS
<1> USE FullSizeType DEF IInv
<1>1. CASE AssertHarness
  <2>1. TypeOK'
    BY <1>1 DEF AssertHarness, NewIndex, TypeOK, Phases, checkVars, sizeVars,
       finderVars
  <2>2. Position'
    BY <1>1 DEF AssertHarness, NewIndex, TypeOK, Position, InCheck
  <2>3. Sizes'
    BY <1>1 DEF AssertHarness, NewIndex, TypeOK, Position, Sizes, InLoop,
       InCheck, checkVars, sizeVars, finderVars
  <2>4. Grown'
    BY <1>1 DEF AssertHarness, NewIndex, TypeOK, Grown, Full, InCheck
  <2>5. Progress'
    BY <1>1 DEF AssertHarness, Progress, InCheck
  <2>6. Knowledge'
    <3>1. \A e \in examples : e[1] < added + 1
      BY DEF TypeOK, Knowledge
    <3> QED
      BY <1>1, <3>1 DEF AssertHarness, Knowledge, finderVars
  <2>7. FailureJustified'
    BY <1>1 DEF AssertHarness, FailureJustified
  <2> QED
    BY <2>1, <2>2, <2>3, <2>4, <2>5, <2>6, <2>7
<1>2. CASE EnterCheck
  <2>1. TypeOK'
    <3>1. added - 1 \in Harnesses
      BY <1>2 DEF EnterCheck, TypeOK, Position, InLoop
    <3>2. clone' \in [problem : Nat, size : Nat]
      BY <1>2, <3>1 DEF EnterCheck, BottomDag, TypeOK
    <3>3. conc' \in Nat /\ toVerify' \in Nat
      BY <1>2, <3>2 DEF EnterCheck, AllHarnesses, TypeOK
    <3> QED
      BY <1>2, <3>2, <3>3 DEF EnterCheck, TypeOK, Phases, sizeVars, finderVars
  <2>2. Position'
    BY <1>2 DEF EnterCheck, BottomDag, AllHarnesses, TypeOK, Position, InLoop
  <2>3. Sizes'
    BY <1>2 DEF EnterCheck, BottomDag, TypeOK, Position, Sizes, InCheck,
       sizeVars
  <2>4. Grown'
    BY <1>2 DEF EnterCheck, Grown, Full, sizeVars
  <2>5. Progress'
    BY <1>2 DEF EnterCheck, AllHarnesses, TypeOK, Progress, ToCheck
  <2>6. Knowledge'
    BY <1>2 DEF EnterCheck, Knowledge, Consistent, finderVars
  <2>7. FailureJustified'
    BY <1>2 DEF EnterCheck, FailureJustified
  <2> QED
    BY <2>1, <2>2, <2>3, <2>4, <2>5, <2>6, <2>7
<1>3. CASE SearchFinds
  <2>1. TypeOK'
    <3>1. cex' \subseteq Harnesses \X Inputs
      BY <1>3 DEF SearchFinds, Refuting, Visible, TypeOK, Position, InLoop,
         InCheck
    <3> QED
      BY <1>3, <3>1 DEF SearchFinds, TypeOK, Phases, sizeVars, finderVars
  <2>2. Position'
    BY <1>3 DEF SearchFinds, Position, InLoop, InCheck
  <2>3. Sizes'
    BY <1>3 DEF SearchFinds, Sizes, InCheck, sizeVars
  <2>4. Grown'
    BY <1>3 DEF SearchFinds, Grown, Full, InCheck, sizeVars
  <2>5. Progress'
    BY <1>3 DEF SearchFinds, Progress, InCheck
  <2>6. Knowledge'
    <3>1. /\ clone.problem = cur /\ conc = size[cur]
          /\ cur \in Harnesses /\ cur < added
      BY <1>3 DEF SearchFinds, TypeOK, Position, Sizes, InLoop, InCheck
    <3>2. PICK i \in Refuting(cur, ctrl, size[cur]) : cex' = {<<cur, i>>}
      BY <1>3, <3>1 DEF SearchFinds
    <3>3. size[cur] \in Nat /\ size[cur] <= FullSize
      BY <3>1 DEF TypeOK, Sizes
    <3>4. i \in Visible(cur, FullSize) /\ <<cur, ctrl, i>> \in fails
      BY <3>3, VisibleMonotone DEF Refuting
    <3>5. \A e \in cex' : /\ e[1] < added /\ e[2] \in Visible(e[1], FullSize)
                          /\ <<e[1], ctrl, e[2]>> \in fails
      BY <3>1, <3>2, <3>4
    <3> QED
      BY <1>3, <3>5 DEF SearchFinds, Knowledge, Consistent, finderVars
  <2>7. FailureJustified'
    BY <1>3 DEF SearchFinds, FailureJustified
  <2> QED
    BY <2>1, <2>2, <2>3, <2>4, <2>5, <2>6, <2>7
<1>4. CASE SearchFindsNothing
  <2>1. TypeOK'
    BY <1>4 DEF SearchFindsNothing, TypeOK, Phases, checkVars, sizeVars,
       finderVars
  <2>2. Position'
    BY <1>4 DEF SearchFindsNothing, Position, InLoop, InCheck, checkVars
  <2>3. Sizes'
    BY <1>4 DEF SearchFindsNothing, Sizes, InCheck, checkVars, sizeVars
  <2>4. Grown'
    BY <1>4 DEF SearchFindsNothing, Grown, Full, InCheck, checkVars, sizeVars
  <2>5. Progress'
    BY <1>4 DEF SearchFindsNothing, MayMiss, Position, Progress, InCheck,
       ToCheck, Trusted, Passes, Refuting, checkVars
  <2>6. Knowledge'
    BY <1>4 DEF SearchFindsNothing, Knowledge, Consistent, finderVars
  <2>7. FailureJustified'
    BY <1>4 DEF SearchFindsNothing, FailureJustified
  <2> QED
    BY <2>1, <2>2, <2>3, <2>4, <2>5, <2>6, <2>7
<1>5. CASE CopyToFreedDag
  <2>1. TypeOK'
    BY <1>5 DEF CopyToFreedDag, TypeOK, Phases, checkVars, sizeVars,
       finderVars
  <2>2. Position'
    BY <1>5 DEF CopyToFreedDag, Position, InLoop, InCheck
  <2>3. Sizes'
    BY <1>5 DEF CopyToFreedDag, Sizes, InCheck, sizeVars
  <2>4. Grown'
    BY <1>5 DEF CopyToFreedDag, Grown, Full, checkVars, sizeVars
  <2>5. Progress'
    BY <1>5 DEF CopyToFreedDag, Progress, InCheck
  <2>6. Knowledge'
    BY <1>5 DEF CopyToFreedDag, Knowledge, finderVars
  <2>7. FailureJustified'
    BY <1>5 DEF CopyToFreedDag, FailureJustified
  <2> QED
    BY <2>1, <2>2, <2>3, <2>4, <2>5, <2>6, <2>7
<1>6. CASE GrowIn
  <2>1. TypeOK'
    <3>1. cur \in Harnesses
      BY <1>6 DEF GrowIn, TypeOK, Position, InLoop
    <3>6. size[cur] + 1 \in Nat /\ conc' \in Nat
      BY <1>6, <3>1 DEF GrowIn, TypeOK
    <3>2. clone' \in [problem : Nat, size : Nat]
      BY <1>6 DEF GrowIn, TypeOK
    <3>3. size' \in [Harnesses -> Nat]
      BY <1>6, <3>6 DEF GrowIn, HarnessesGrown, TypeOK
    <3>4. clone.size + 1 \in Nat
      BY DEF TypeOK
    <3>5. declared' \in [Harnesses -> Nat]
      BY <1>6, <3>4 DEF GrowIn, StoreGrown, TypeOK
    <3> QED
      BY <1>6, <3>6, <3>2, <3>3, <3>5 DEF GrowIn, TypeOK, Phases, finderVars
  <2>2. Position'
    BY <1>6 DEF GrowIn, TypeOK, Position, InLoop, InCheck
  <2>3. Sizes'
    <3>1. ori = "clone" /\ cur \in Harnesses /\ cur < added
      BY <1>6 DEF GrowIn, CanGrow, TypeOK, Position, Sizes, Grown, Full,
         InLoop, InCheck
    <3>2. clone.size = size[cur] /\ conc = size[cur] /\ clone.problem = cur
      BY <1>6 DEF GrowIn, Position, Sizes, InCheck
    <3>3. size' = [size EXCEPT ![cur] = size[cur] + 1]
      BY <1>6 DEF GrowIn, HarnessesGrown
    <3>4. declared' = [declared EXCEPT ![cur] = size[cur] + 1]
      BY <1>6, <3>1, <3>2 DEF GrowIn, StoreGrown
    <3>5. clone'.size = size[cur] + 1 /\ conc' = size[cur] + 1
      BY <1>6, <3>1, <3>2 DEF GrowIn, TypeOK
    <3>6. size[cur] < FullSize
      BY <1>6, <3>2 DEF GrowIn, CanGrow, TypeOK
    <3> QED
      BY <1>6, <3>1, <3>3, <3>4, <3>5, <3>6 DEF GrowIn, TypeOK, Sizes, InCheck
  <2>4. Grown'
    BY <1>6 DEF GrowIn, CanGrow, HarnessesGrown, StoreGrown, TypeOK, Position,
       Grown, Full, InLoop, InCheck, checkVars, sizeVars, finderVars
  <2>5. Progress'
    BY <1>6 DEF GrowIn, Progress, InCheck, ToCheck, Trusted, Passes, Refuting
  <2>6. Knowledge'
    BY <1>6 DEF GrowIn, Knowledge, Consistent, finderVars
  <2>7. FailureJustified'
    BY <1>6 DEF GrowIn, FailureJustified
  <2> QED
    BY <2>1, <2>2, <2>3, <2>4, <2>5, <2>6, <2>7
<1>7. CASE NextProblem
  <2>a. /\ cur' = IF cur + 1 = added THEN 0 ELSE cur + 1
        /\ cur' \in Harnesses /\ cur' < added
    <3>1. added \in Nat /\ cur \in 0 .. (added - 1)
      BY <1>7 DEF NextProblem, TypeOK, Position, InLoop
    <3>2. cur' = IF cur + 1 = added THEN 0 ELSE cur + 1
      BY <1>7, <3>1 DEF NextProblem
    <3> QED
      BY <3>1, <3>2 DEF TypeOK
  <2>1. TypeOK'
    <3>1. size[cur'] \in Nat
      BY <2>a DEF TypeOK
    <3> QED
      BY <1>7, <2>a, <3>1 DEF NextProblem, TypeOK, Phases, sizeVars,
         finderVars
  <2>2. Position'
    BY <1>7 DEF NextProblem, TypeOK, Position, InLoop, InCheck
  <2>3. Sizes'
    BY <1>7 DEF NextProblem, Sizes, sizeVars
  <2>4. Grown'
    <3>1. Full(cur)
      BY <1>7 DEF NextProblem, CanGrow, TypeOK, Sizes, Full, InCheck
    <3>2. \A h \in Harnesses : h < added => Full(h)
      BY <3>1 DEF Grown
    <3> QED
      BY <1>7, <2>a, <3>2 DEF NextProblem, Grown, Full, sizeVars
  <2>5. Progress'
    <3>1. Trusted(cur)
      BY <1>7, LastSearch DEF NextProblem
    <3>2. \A h \in Harnesses : h < added => Trusted(h)' \/ ToCheck(h)'
      <4> SUFFICES ASSUME NEW h \in Harnesses, h < added, ~ Trusted(h)
                   PROVE  ToCheck(h)'
        BY <1>7 DEF NextProblem, Trusted, Passes, Refuting
      <4>1. h # cur /\ ToCheck(h)
        BY <1>7, <3>1 DEF NextProblem, Progress, InCheck
      <4> QED
        BY <1>7, <2>a, <4>1 DEF NextProblem, ToCheck, TypeOK, Position,
           InCheck
    <3> QED
      BY <1>7, <3>2 DEF NextProblem, Progress
  <2>6. Knowledge'
    BY <1>7 DEF NextProblem, Knowledge, Consistent, finderVars
  <2>7. FailureJustified'
    BY <1>7 DEF NextProblem, FailureJustified
  <2> QED
    BY <2>1, <2>2, <2>3, <2>4, <2>5, <2>6, <2>7
<1>8. CASE Done
  <2>1. TypeOK'
    BY <1>8 DEF Done, TypeOK, Phases, sizeVars, finderVars
  <2>2. Position'
    BY <1>8 DEF Done, Position, InLoop, InCheck
  <2>3. Sizes'
    BY <1>8 DEF Done, Sizes, InCheck, sizeVars
  <2>4. Grown'
    <3>1. Full(cur)
      BY <1>8 DEF Done, CanGrow, TypeOK, Sizes, Full, InCheck
    <3> QED
      BY <1>8, <3>1 DEF Done, Grown, Full, sizeVars
  <2>5. Progress'
    <3>1. Trusted(cur)
      BY <1>8, LastSearch DEF Done
    <3>2. \A h \in Harnesses : h < added => Trusted(h)
      BY <1>8, <3>1 DEF Done, Progress, ToCheck, TypeOK, Position, InLoop,
         InCheck
    <3> QED
      BY <1>8, <3>2 DEF Done, Progress, Trusted, Passes, Refuting
  <2>6. Knowledge'
    BY <1>8 DEF Done, Knowledge, Consistent, finderVars
  <2>7. FailureJustified'
    BY <1>8 DEF Done, FailureJustified
  <2> QED
    BY <2>1, <2>2, <2>3, <2>4, <2>5, <2>6, <2>7
<1>9. CASE BailOut
  <2>1. TypeOK'
    <3>1. inputsDag' \in BOOLEAN /\ finderLight' \in BOOLEAN
      BY <1>9, Zenon DEF BailOut, Leave, TypeOK
    <3> QED
      BY <1>9, <3>1 DEF BailOut, LimitReached, Leave, TypeOK, Phases,
         checkVars, sizeVars
  <2>2. Position'
    BY <1>9 DEF BailOut, Leave, Position, InLoop, InCheck
  <2>3. Sizes'
    BY <1>9 DEF BailOut, Leave, Sizes, InCheck, sizeVars
  <2>4. Grown'
    BY <1>9 DEF BailOut, Leave, Grown, Full, InCheck, sizeVars
  <2>5. Progress'
    BY <1>9 DEF BailOut, Leave, Progress, InCheck
  <2>6. Knowledge'
    BY <1>9 DEF BailOut, Leave, Knowledge
  <2>7. FailureJustified'
    <3>1. iter + 1 = IterLimit
      BY <1>9 DEF BailOut, LimitReached, TypeOK, Position, InLoop
    <3> QED
      BY <1>9, <3>1 DEF BailOut, FailureJustified
  <2> QED
    BY <2>1, <2>2, <2>3, <2>4, <2>5, <2>6, <2>7
<1>10. CASE Counterexample
  <2>1. TypeOK'
    BY <1>10 DEF Counterexample, LimitReached, TypeOK, Phases, checkVars,
       sizeVars, finderVars
  <2>2. Position'
    BY <1>10 DEF Counterexample, LimitReached, TypeOK, Position, InLoop,
       InCheck, checkVars
  <2>3. Sizes'
    BY <1>10 DEF Counterexample, Sizes, InCheck, checkVars, sizeVars
  <2>4. Grown'
    BY <1>10 DEF Counterexample, Grown, Full, InCheck, checkVars, sizeVars
  <2>5. Progress'
    BY <1>10 DEF Counterexample, Progress, InCheck
  <2>6. Knowledge'
    <3>1. iter + 1 > 1 => ctrl \in Consistent(examples)
      BY <1>10 DEF Counterexample, TypeOK, Knowledge
    <3> QED
      BY <1>10, <3>1 DEF Counterexample, Knowledge, Consistent, checkVars,
         finderVars
  <2>7. FailureJustified'
    BY <1>10 DEF Counterexample, FailureJustified
  <2> QED
    BY <2>1, <2>2, <2>3, <2>4, <2>5, <2>6, <2>7
<1>11. CASE Verified
  <2>1. TypeOK'
    <3>1. inputsDag' \in BOOLEAN /\ finderLight' \in BOOLEAN
      BY <1>11, Zenon DEF Verified, Leave, TypeOK
    <3> QED
      BY <1>11, <3>1 DEF Verified, Leave, TypeOK, Phases, sizeVars
  <2>2. Position'
    BY <1>11 DEF Verified, Leave, Position, InLoop, InCheck
  <2>3. Sizes'
    BY <1>11 DEF Verified, Leave, Sizes, InCheck, sizeVars
  <2>4. Grown'
    BY <1>11 DEF Verified, TypeOK, Position, Grown, Full, InLoop, sizeVars
  <2>5. Progress'
    BY <1>11 DEF Verified, Leave, Progress, Trusted, Passes, Refuting
  <2>6. Knowledge'
    BY <1>11 DEF Verified, Leave, Knowledge
  <2>7. FailureJustified'
    BY <1>11 DEF Verified, Leave, FailureJustified
  <2> QED
    BY <2>1, <2>2, <2>3, <2>4, <2>5, <2>6, <2>7
<1>12. CASE Minimize
  <2>1. TypeOK'
    <3>1. inputsDag' \in BOOLEAN /\ finderLight' \in BOOLEAN
      BY <1>12, Zenon DEF Minimize, Leave
    <3> QED
      BY <1>12, <3>1 DEF Minimize, LimitReached, Leave, TypeOK, Phases,
         checkVars, sizeVars
  <2>2. Position'
    BY <1>12 DEF Minimize, Leave, Position, InLoop, InCheck
  <2>3. Sizes'
    BY <1>12 DEF Minimize, Leave, Sizes, InCheck, sizeVars
  <2>4. Grown'
    BY <1>12 DEF Minimize, TypeOK, Position, Grown, Full, InLoop, sizeVars
  <2>5. Progress'
    BY <1>12 DEF Minimize, Leave, Progress, Trusted, Passes, Refuting
  <2>6. Knowledge'
    BY <1>12 DEF Minimize, Leave, Knowledge
  <2>7. FailureJustified'
    BY <1>12 DEF Minimize, Leave, FailureJustified
  <2> QED
    BY <2>1, <2>2, <2>3, <2>4, <2>5, <2>6, <2>7
<1>13. CASE FindCandidate
  <2>1. TypeOK'
    <3>1. inputsDag' \in BOOLEAN /\ finderLight' \in BOOLEAN
      BY <1>13, Zenon DEF FindCandidate, TypeOK
    <3>2. ctrl' \in Controls
      BY <1>13 DEF FindCandidate, Consistent
    <3>3. examples' \subseteq Harnesses \X Inputs
      BY <1>13 DEF FindCandidate, ExampleAdded, TypeOK
    <3> QED
      BY <1>13, <3>2, <3>3 DEF FindCandidate, TypeOK, Phases, checkVars,
         sizeVars
  <2>2. Position'
    BY <1>13 DEF FindCandidate, Position, InLoop, InCheck, checkVars
  <2>3. Sizes'
    BY <1>13 DEF FindCandidate, Sizes, InCheck, checkVars, sizeVars
  <2>4. Grown'
    BY <1>13 DEF FindCandidate, Grown, Full, InCheck, checkVars, sizeVars
  <2>5. Progress'
    BY <1>13 DEF FindCandidate, Progress, InCheck
  <2>6. Knowledge'
    BY <1>13 DEF FindCandidate, ExampleAdded, Knowledge, Consistent
  <2>7. FailureJustified'
    BY <1>13 DEF FindCandidate, FailureJustified
  <2> QED
    BY <2>1, <2>2, <2>3, <2>4, <2>5, <2>6, <2>7
<1>14. CASE FindNothing
  <2>1. TypeOK'
    <3>1. inputsDag' \in BOOLEAN /\ finderLight' \in BOOLEAN
      BY <1>14, Zenon DEF FindNothing, Leave, TypeOK
    <3>2. examples' \subseteq Harnesses \X Inputs
      BY <1>14 DEF FindNothing, ExampleAdded, TypeOK
    <3> QED
      BY <1>14, <3>1, <3>2 DEF FindNothing, Leave, TypeOK, Phases, sizeVars
  <2>2. Position'
    BY <1>14 DEF FindNothing, Leave, Position, InLoop, InCheck
  <2>3. Sizes'
    BY <1>14 DEF FindNothing, Leave, Sizes, InCheck, sizeVars
  <2>4. Grown'
    BY <1>14 DEF FindNothing, Leave, Grown, Full, InCheck, sizeVars
  <2>5. Progress'
    BY <1>14 DEF FindNothing, Leave, Progress, InCheck
  <2>6. Knowledge'
    BY <1>14 DEF FindNothing, ExampleAdded, Leave, Knowledge
  <2>7. FailureJustified'
    <3> SUFFICES ASSUME ~ finderLight, NEW c \in Controls
                 PROVE  \E h \in 0 .. (added - 1) : ~ Passes(h, c)
      BY <1>14 DEF FindNothing, FailureJustified, Passes, Refuting
    <3>1. PICK e \in examples \cup cex : <<e[1], c, e[2]>> \in fails
      BY <1>14 DEF FindNothing, ExampleAdded, Consistent
    <3>2. e[1] < added /\ e[2] \in Visible(e[1], FullSize)
      BY <1>14 DEF FindNothing, Knowledge
    <3>3. e[1] \in 0 .. (added - 1)
      BY <3>1, <3>2, ExampleType DEF TypeOK
    <3> QED
      BY <3>1, <3>2, <3>3 DEF Passes, Refuting
  <2> QED
    BY <2>1, <2>2, <2>3, <2>4, <2>5, <2>6, <2>7
<1>15. CASE UNCHANGED vars
  <2>1. TypeOK'
    BY <1>15 DEF vars, loopVars, checkVars, sizeVars, finderVars, TypeOK
  <2>2. Position'
    BY <1>15 DEF vars, loopVars, checkVars, Position
  <2>3. Sizes'
    BY <1>15 DEF vars, loopVars, checkVars, sizeVars, Sizes
  <2>4. Grown'
    BY <1>15 DEF vars, loopVars, checkVars, sizeVars, Grown, Full
  <2>5. Progress'
    BY <1>15 DEF vars, loopVars, checkVars, Progress, ToCheck, Trusted,
       Passes, Refuting
  <2>6. Knowledge'
    BY <1>15 DEF vars, loopVars, checkVars, finderVars, Knowledge, Consistent
  <2>7. FailureJustified'
    BY <1>15 DEF vars, loopVars, finderVars, FailureJustified, Passes,
       Refuting
  <2> QED
    BY <2>1, <2>2, <2>3, <2>4, <2>5, <2>6, <2>7
<1> QED
  BY <1>1, <1>2, <1>3, <1>4, <1>5, <1>6, <1>7, <1>8, <1>9, <1>10, <1>11,
     <1>12, <1>13, <1>14, <1>15 DEF Next, Check

(* The inductive invariant holds in every reachable state. *)
THEOREM Invariant == Spec => []IInv
BY Initially, Step, PTL DEF Spec

(* Every variable keeps its type, also across a growing DAG. *)
THEOREM TypeCorrect == Spec => []TypeOK
<1>1. IInv => TypeOK
  BY DEF IInv
<1> QED
  BY <1>1, Invariant, PTL

(* solve answers only with a candidate that passes every asserted harness  *)
(* at its full size.                                                       *)
THEOREM AnswersAreCorrect == Spec => []AnswerCorrect
<1>1. IInv => AnswerCorrect
  BY DEF IInv, TypeOK, Progress, Trusted, AnswerCorrect
<1> QED
  BY <1>1, Invariant, PTL

(* solve reports FAILED only when no assignment is correct, or a limit     *)
(* stopped it.                                                             *)
THEOREM FailuresAreJustified == Spec => []FailureJustified
<1>1. IInv => FailureJustified
  BY DEF IInv
<1> QED
  BY <1>1, Invariant, PTL

(* The assertion SIZE MISMATCH of baseCheck never fires. *)
THEOREM StoreMatchesDag == Spec => []InputStoreMatches
<1>1. IInv => InputStoreMatches
  BY DEF IInv, TypeOK, Position, Sizes, InLoop, InCheck, InputStoreMatches
<1> QED
  BY <1>1, Invariant, PTL

(* growInputs never grows the DAG that NEXT_PROBLEM deleted. *)
THEOREM GrowsLiveDag == Spec => []OriginalIsLive
<1>1. IInv => OriginalIsLive
  BY DEF IInv, TypeOK, Sizes, Grown, Full, InCheck, CanGrow, OriginalIsLive
<1> QED
  BY <1>1, Invariant, PTL

(* The DAG on the problem stack is always one of curProblem. *)
THEOREM StackIsCurrent == Spec => []StackTracksCurrent
<1>1. IInv => StackTracksCurrent
  BY DEF IInv, Position, InCheck, StackTracksCurrent
<1> QED
  BY <1>1, Invariant, PTL

(* Within one solve every counterexample is new. *)
THEOREM CounterexamplesAreNew == Spec => []NewCounterexample
<1>1. IInv => NewCounterexample
  BY DEF IInv, Knowledge, Consistent, NewCounterexample
<1> QED
  BY <1>1, Invariant, PTL
-----------------------------------------------------------------------------
(* The refinement.  Where nothing may cut a search short, solveCore        *)
(* answers and refuses as Synthesis says.                                  *)
Complete == IterLimit = 0 /\ ~ LightVerif /\ AssumeProblems = {}

(* The finder is made to give up only under light verification. *)
FinderComplete == finderLight => LightVerif

(* lightSolve is called on the finder's solver only with -lightverif.      *)
LEMMA FinderIsComplete == Spec => []FinderComplete
<1>1. Init => FinderComplete
  BY DEF Init, FinderComplete
<1>2. FinderComplete /\ [Next]_vars => FinderComplete'
  <2> SUFFICES ASSUME FinderComplete, [Next]_vars
               PROVE  FinderComplete'
    OBVIOUS
  <2>1. CASE UNCHANGED finderLight
    BY <2>1 DEF FinderComplete
  <2>2. CASE Minimize
    BY <2>2 DEF Minimize, FinderComplete
  <2> QED
    BY <2>1, <2>2 DEF vars, finderVars, Next, Check, AssertHarness,
       EnterCheck, SearchFinds, SearchFindsNothing, CopyToFreedDag, GrowIn,
       NextProblem, Done, BailOut, Counterexample, Verified, FindCandidate,
       FindNothing
<1> QED
  BY <1>1, <1>2, PTL DEF Spec

(* Correct for the abstract problem is: passes at full size.               *)
LEMMA AbstractCorrect ==
  ASSUME TypeOK, NEW c
  PROVE  Abstract!Correct(c, added) <=>
           \A h \in 0 .. (added - 1) : Passes(h, c)
BY DEF Abstract!Correct, Passes, Refuting, Visible

(* The loop starts where the abstract solver does.                         *)
LEMMA RefinesInit == Init => Abstract!Init
BY DEF Init, Abstract!Init, Abstract!Harnesses

(* Each step of the loop is one of the abstract solver's, or a stutter.    *)
LEMMA RefinesStep ==
  ASSUME Complete, FinderComplete, FinderComplete', IInv, IInv', [Next]_vars
  PROVE  [Abstract!Next]_(Abstract!vars)
<1>1. CASE AssertHarness
  BY <1>1 DEF AssertHarness, Abstract!Next, Abstract!Ask
<1>2. CASE Check \/ Counterexample \/ FindCandidate
  BY <1>2 DEF Check, EnterCheck, SearchFinds, SearchFindsNothing,
     CopyToFreedDag, GrowIn, NextProblem, Done, Counterexample, FindCandidate,
     Abstract!vars
<1>3. CASE BailOut
  BY <1>3 DEF BailOut, LimitReached, Complete
<1>4. CASE Verified \/ Minimize
  <2>1. \A h \in 0 .. (added - 1) : Passes(h, ctrl)
    BY <1>4 DEF Verified, Minimize, Complete, IInv, TypeOK, Progress, Trusted
  <2>2. Abstract!Correct(ctrl, added) /\ ctrl \in Controls /\ added > 0
    BY <1>4, <2>1, AbstractCorrect DEF Verified, Minimize, IInv, TypeOK,
       Position, InLoop
  <2>3. CASE phase' = "idle"
    BY <1>4, <2>2, <2>3 DEF Verified, Minimize, Abstract!Next, Abstract!Answer
  <2>4. CASE phase' = "crashed"
    BY <1>4, <2>4 DEF Verified, Minimize, Abstract!vars
  <2> QED
    BY <1>4, <2>3, <2>4 DEF Verified, Minimize, Leave
<1>5. CASE FindNothing
  <2>1. ~ finderLight' /\ iter' # IterLimit
    <3>1. ~ finderLight'
      BY DEF Complete, FinderComplete
    <3>2. iter' # IterLimit
      BY <1>5 DEF FindNothing, Complete, IInv, Position
    <3> QED
      BY <3>1, <3>2
  <2>2. phase' = "failed" /\ added' = added /\ fails' = fails
    BY <1>5 DEF FindNothing, Leave
  <2>3. \A c \in Controls : \E h \in 0 .. (added - 1) : ~ Passes(h, c)
    BY <2>1, <2>2 DEF IInv, FailureJustified, Passes, Refuting
  <2>4. \A c \in Controls : ~ Abstract!Correct(c, added)
    BY <2>3, AbstractCorrect DEF IInv
  <2> QED
    BY <1>5, <2>2, <2>4 DEF FindNothing, Abstract!Next, Abstract!Refuse
<1>6. CASE UNCHANGED vars
  BY <1>6 DEF vars, loopVars, Abstract!vars
<1> QED
  BY <1>1, <1>2, <1>3, <1>4, <1>5, <1>6 DEF Next

(* With no limit on the search, the solver implements Synthesis. *)
THEOREM Refinement == ASSUME Complete PROVE Spec => Implements
<1>1. Init => Abstract!Init
  BY RefinesInit
<1>2. /\ IInv /\ IInv' /\ FinderComplete /\ FinderComplete'
     /\ [Next]_vars => [Abstract!Next]_(Abstract!vars)
  BY RefinesStep
<1> QED
  BY <1>1, <1>2, Invariant, FinderIsComplete, PTL DEF Spec, Implements,
     Abstract!Spec
==============================================================================
