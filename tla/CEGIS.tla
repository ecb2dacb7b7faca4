-------------------------------- MODULE CEGIS --------------------------------
(***************************************************************************)
(* One attempt of the solver: InterpreterEnvironment::doallpairs asserts   *)
(* the harnesses of a sketch one by one, and for each of them              *)
(* CEGISSolver::solveCore runs the counterexample-guided loop between      *)
(* CEGISChecker::check (is there an input on which the candidate fails?)   *)
(* and CEGISFinder::find (is there a candidate that passes all inputs      *)
(* found so far?).                                                         *)
(*                                                                         *)
(* The sketch is data: a set of failing <<harness, control, input>>, where *)
(* a control stands for a complete assignment to the holes.  What a DAG    *)
(* computes, how it is turned into clauses and how MiniSat solves them are *)
(* abstracted to membership in that set.  What is kept is everything the   *)
(* loop itself decides: which harness is checked, at which integer size,   *)
(* with which DAGs alive on the problem stack, what the finder remembers   *)
(* from one harness to the next, and when the loop stops.                  *)
(*                                                                         *)
(* No hole is concretized here; module Concretize has that part.           *)
(***************************************************************************)
EXTENDS Naturals, FiniteSets

CONSTANTS
  Problems,       \* how many harnesses: spskpairs.size()
  Controls,       \* the assignments of values to the holes (ctrlStore)
  Inputs,         \* the inputs of a harness (input_store)
  Width,          \* Width[i]: the integer size from which i can be written
  NINPUTS,        \* --bnd-inbits: the size up to which inputs are grown
  InitSize,       \* the integer size of a new BooleanDAG; 2 in the code
  IterLimit,      \* -terminateafter; 0 stands for no limit
  FileProblems,   \* the harnesses whose inputs come from a file
  AssumeProblems, \* the harnesses with an assume that ties an input to an
                  \* expression, which searchLoop may take for unsatisfiable
  LightVerif,     \* -lightverif: the checker may give up without an answer
  MinVarHole      \* --minvarHole, in a sketch that has a hole to minimize

Harnesses == 0 .. (Problems - 1)

(* The size at which a harness without a file stops growing. *)
FullSize == IF InitSize < NINPUTS THEN NINPUTS ELSE InitSize

ASSUME ProblemsAssumption == Problems \in Nat
ASSUME SizeAssumption == /\ NINPUTS \in Nat
                         /\ InitSize \in Nat
                         /\ \A i \in Inputs : Width[i] \in Nat
ASSUME OptionAssumption == /\ IterLimit \in Nat
                           /\ FileProblems \subseteq Harnesses
                           /\ AssumeProblems \subseteq Harnesses
                           /\ LightVerif \in BOOLEAN
                           /\ MinVarHole \in BOOLEAN

VARIABLES
  fails,       \* the sketch; never changes
  phase,       \* where the program is, see Phases
  added,       \* problems.size(): how many harnesses were asserted
  ctrl,        \* ctrlStore: the candidate
  size,        \* size[h]: the integer size of the DAG in problems[h]
  declared,    \* declared[h]: the size of h's integers in input_store
  cur,         \* curProblem
  level,       \* problemStack.size(): 0, 1 (a clone of a harness) or 2 (on
               \* top of it, the same DAG with the candidate put in)
  clone,       \* the DAG at the bottom of the stack: which harness, what size
  conc,        \* the integer size of the concretized DAG on top of it
  ori,         \* what the local variable oriProblem of check points to
  toVerify,    \* CheckControl::toVerify: harnesses left for this candidate
  cex,         \* what check returned: {} or {<<harness, input>>}
  examples,    \* the counterexamples asserted in the finder's solver
  inputsDag,   \* allInputsDag /= nullptr
  finderLight, \* lightSolve() was called on the finder's solver
  iter         \* iterations

loopVars == <<phase, ctrl, iter>>
checkVars == <<cur, level, clone, conc, ori, toVerify, cex>>
sizeVars == <<size, declared>>
finderVars == <<examples, inputsDag, finderLight>>
vars == <<fails, added, loopVars, checkVars, sizeVars, finderVars>>

(* "idle": between two harnesses; "check": top of the loop of solveCore;   *)
(* "solve" and "adjust": CheckControl's CSOLVE and ADJUST, inside check;   *)
(* "checked": check has returned; "find": inside find; "failed": solve     *)
(* returned false, which ends the attempt; "crashed": undefined behaviour. *)
Phases == {"idle", "check", "solve", "adjust", "checked", "find",
           "failed", "crashed"}
-----------------------------------------------------------------------------
(* The inputs of a harness that can be represented at integer size s.  The *)
(* rows of a file are read at the size they need, so all of them can.      *)
Visible(h, s) ==
  IF h \in FileProblems THEN Inputs ELSE {i \in Inputs : Width[i] <= s}

(* The visible inputs on which control c fails harness h. *)
Refuting(h, c, s) == {i \in Visible(h, s) : <<h, c, i>> \in fails}

(* Control c passes harness h at its full size: the bounded correctness    *)
(* that the user asks for with --bnd-inbits.                               *)
Passes(h, c) == Refuting(h, c, FullSize) = {}

(* Bugs: the finder asserts a counterexample of one harness for all of     *)
(* them; the finder's solver does not keep the clauses.                    *)
ConsistentForAll(E) ==
  {c \in Controls : \A e \in E, h \in Harnesses : <<h, c, e[2]>> \notin fails}
ConsistentAnyhow(E) == Controls

(* The controls that satisfy every counterexample in E. *)
Consistent(E) == {c \in Controls : \A e \in E : <<e[1], c, e[2]>> \notin fails}

Init ==
  /\ fails \in SUBSET (Harnesses \X Controls \X Inputs)
  /\ phase = "idle"
  /\ added = 0
  /\ ctrl \in Controls
  /\ size = [h \in Harnesses |-> InitSize]
  /\ declared = [h \in Harnesses |-> 0]
  /\ cur = 0
  /\ level = 0
  /\ clone = [problem |-> 0, size |-> 0]
  /\ conc = 0
  /\ ori = "none"
  /\ toVerify = 0
  /\ cex = {}
  /\ examples = {}
  /\ inputsDag = FALSE
  /\ finderLight = FALSE
  /\ iter = 0
-----------------------------------------------------------------------------
(* Bug: curProblem is set after the push_back instead of before it. *)
IndexAfterPush == added + 1

(* The curProblem that addProblem sets. *)
NewIndex == added

(* assertHarness: a file grows its harness to the size its rows need (the  *)
(* bound FullSize is the model's); addProblem declares the inputs and      *)
(* makes the new harness the current one; solve draws a random candidate.  *)
AssertHarness ==
  /\ phase = "idle"
  /\ added < Problems
  /\ \E s \in IF added \in FileProblems THEN InitSize .. FullSize
                                        ELSE {size[added]} :
       /\ size' = [size EXCEPT ![added] = s]
       /\ declared' = [declared EXCEPT ![added] = s]
  /\ cur' = NewIndex
  /\ added' = added + 1
  /\ ctrl' \in Controls
  /\ iter' = 0
  /\ phase' = "check"
  /\ UNCHANGED <<fails, level, clone, conc, ori, toVerify, cex, finderVars>>

(* Bug: the newest harness, whatever is on the stack. *)
NewestDag == [problem |-> added - 1, size |-> size[added - 1]]

(* The stack keeps the clone on which the last counterexample was found;   *)
(* only an empty one gets the newest harness.                              *)
BottomDag ==
  IF level = 0 THEN [problem |-> added - 1, size |-> size[added - 1]] ELSE clone

(* Bug: the harness of the last counterexample is not counted again. *)
AllButResumed == IF level = 0 THEN added ELSE added - 1

(* What CheckControl counts down: a new candidate must pass every harness. *)
AllHarnesses == added

(* The beginning of check. *)
EnterCheck ==
  /\ phase = "check"
  /\ clone' = BottomDag
  /\ level' = 2
  /\ conc' = clone'.size
  /\ ori' = "clone"
  /\ toVerify' = AllHarnesses
  /\ phase' = "solve"
  /\ UNCHANGED <<fails, added, ctrl, iter, cur, cex, sizeVars, finderVars>>

(* SOLVE, and out of the loop with rv = true: the search, by simulation,   *)
(* by the solver or over the file, ends in an input that fails.            *)
SearchFinds ==
  /\ phase = "solve"
  /\ \E i \in Refuting(clone.problem, ctrl, conc) :
       cex' = {<<clone.problem, i>>}
  /\ level' = 1
  /\ phase' = "checked"
  /\ UNCHANGED <<fails, added, ctrl, iter, cur, clone, conc, ori, toVerify,
                 sizeVars, finderVars>>

(* The search may miss an input that fails: light verification gives up    *)
(* after a number of conflicts, and simulate believes searchLoop when that *)
(* takes an assume it could not satisfy for an unsatisfiable one.          *)
MayMiss ==
  /\ cur \notin FileProblems
  /\ LightVerif \/ clone.problem \in AssumeProblems

(* SOLVE with rv = false. *)
SearchFindsNothing ==
  /\ phase = "solve"
  /\ MayMiss \/ Refuting(clone.problem, ctrl, conc) = {}
  /\ phase' = "adjust"
  /\ UNCHANGED <<fails, added, ctrl, iter, checkVars, sizeVars, finderVars>>

(* After a file was searched, check copies array sizes to the inputs of    *)
(* oriProblem.  That is undefined unless oriProblem is a live DAG other    *)
(* than the one searched; when nothing happens, SearchFinds and            *)
(* SearchFindsNothing go on as if it were.                                 *)
CopyToFreedDag ==
  /\ phase = "solve"
  /\ cur \in FileProblems
  /\ ori # "clone"
  /\ phase' = "crashed"
  /\ UNCHANGED <<fails, added, ctrl, iter, checkVars, sizeVars, finderVars>>

(* Bug: the largest size is never tried. *)
CanGrowTwice == conc + 1 < NINPUTS /\ cur \notin FileProblems

(* actionDecide's choice between GROW_IN and the next harness. *)
CanGrow == conc < NINPUTS /\ cur \notin FileProblems

(* Bug: isTop is false, and the harness itself keeps its size. *)
HarnessesNotGrown == size

(* problems[curProblem]->get_dag()->growInputIntSizes() *)
HarnessesGrown == [size EXCEPT ![cur] = @ + 1]

(* Bug: redeclareInputs comes before oriProblem is grown. *)
StoreBeforeGrowing == [declared EXCEPT ![clone.problem] = clone.size]

(* redeclareInputs(inputStore, oridag), oridag having been grown *)
StoreGrown == [declared EXCEPT ![clone.problem] = clone.size + 1]

(* GROW_IN: growInputs grows the concretized DAG, oriProblem and the       *)
(* harness itself, then declares the inputs of oriProblem anew.            *)
GrowIn ==
  /\ phase = "adjust"
  /\ CanGrow
  /\ conc' = conc + 1
  /\ size' = HarnessesGrown
  /\ IF ori = "clone"
     THEN /\ clone' = [clone EXCEPT !.size = @ + 1]
          /\ declared' = StoreGrown
     ELSE UNCHANGED <<clone, declared>>
  /\ phase' = "solve"
  /\ UNCHANGED <<fails, added, ctrl, iter, cur, level, ori, toVerify, cex,
                 finderVars>>

(* NEXT_PROBLEM: the stack is emptied, which deletes the DAG oriProblem    *)
(* points to, and oriProblem is not assigned again.  The allocator may     *)
(* give its storage to the new clone, to the new concretized DAG, or to    *)
(* neither.                                                                *)
NextProblem ==
  /\ phase = "adjust"
  /\ ~ CanGrow
  /\ toVerify > 1
  /\ toVerify' = toVerify - 1
  /\ cur' = (cur + 1) % added
  /\ clone' = [problem |-> cur', size |-> size[cur']]
  /\ conc' = size[cur']
  /\ ori' \in {"clone", "conc", "freed"}
  /\ phase' = "solve"
  /\ UNCHANGED <<fails, added, ctrl, iter, level, cex, sizeVars, finderVars>>

(* DONE: no harness is left, check returns nullptr. *)
Done ==
  /\ phase = "adjust"
  /\ ~ CanGrow
  /\ toVerify = 1
  /\ toVerify' = 0
  /\ level' = 0
  /\ cex' = {}
  /\ phase' = "checked"
  /\ UNCHANGED <<fails, added, ctrl, iter, cur, clone, conc, ori,
                 sizeVars, finderVars>>
-----------------------------------------------------------------------------
(* Back in solveCore.  The end of the loop clears the problem stack and    *)
(* the finder's conjunction of counterexample DAGs; the constraints in the *)
(* finder's solver stay for the harnesses still to come.                   *)
Leave(outcome) ==
  /\ phase' = outcome
  /\ level' = 0
  /\ inputsDag' = FALSE

LimitReached == IterLimit > 0 /\ iter + 1 >= IterLimit

(* The limit is looked at before the result: a verified candidate fails. *)
BailOut ==
  /\ phase = "checked"
  /\ LimitReached
  /\ iter' = iter + 1
  /\ Leave("failed")
  /\ UNCHANGED <<fails, added, ctrl, cur, clone, conc, ori, toVerify, cex,
                 sizeVars, examples, finderLight>>

Counterexample ==
  /\ phase = "checked"
  /\ ~ LimitReached
  /\ cex # {}
  /\ iter' = iter + 1
  /\ phase' = "find"
  /\ UNCHANGED <<fails, added, ctrl, checkVars, sizeVars, finderVars>>

Verified ==
  /\ phase = "checked"
  /\ ~ LimitReached
  /\ cex = {}
  /\ ~ MinVarHole
  /\ iter' = iter + 1
  /\ Leave("idle")
  /\ UNCHANGED <<fails, added, ctrl, cur, clone, conc, ori, toVerify, cex,
                 sizeVars, examples, finderLight>>

(* The minimization step.  minimizeHoleValue asserts a bound that          *)
(* retractAssumptions takes back; then solveCore calls a method of the     *)
(* null counterexample DAG, which crashes or, where that call is compiled  *)
(* away with its assert, goes on to find with hasInputChanged false.  find *)
(* then returns at once and the loop ends with the candidate it had.       *)
Minimize ==
  /\ phase = "checked"
  /\ ~ LimitReached
  /\ cex = {}
  /\ MinVarHole
  /\ iter' = iter + 1
  /\ finderLight' = (finderLight \/ LightVerif)
  /\ Leave("idle") \/ Leave("crashed")
  /\ UNCHANGED <<fails, added, ctrl, cur, clone, conc, ori, toVerify, cex,
                 sizeVars, examples>>

(* addProblemToTestSet *)
ExampleAdded == examples \cup cex

(* find with an answer: the counterexample is asserted, the solver is      *)
(* called, and its model becomes the candidate.                            *)
FindCandidate ==
  /\ phase = "find"
  /\ examples' = ExampleAdded
  /\ inputsDag' = TRUE
  /\ ctrl' \in Consistent(examples')
  /\ phase' = "check"
  /\ UNCHANGED <<fails, added, iter, checkVars, sizeVars, finderLight>>

(* find without one, which a light solver may also return too early. *)
FindNothing ==
  /\ phase = "find"
  /\ examples' = ExampleAdded
  /\ finderLight \/ Consistent(examples') = {}
  /\ Leave("failed")
  /\ UNCHANGED <<fails, added, ctrl, iter, cur, clone, conc, ori, toVerify,
                 cex, sizeVars, finderLight>>

Check == \/ EnterCheck \/ SearchFinds \/ SearchFindsNothing
         \/ CopyToFreedDag \/ GrowIn \/ NextProblem \/ Done

Next == \/ AssertHarness
        \/ Check
        \/ BailOut \/ Counterexample \/ Verified \/ Minimize
        \/ FindCandidate \/ FindNothing

Spec == Init /\ [][Next]_vars

(* One thread runs the loop: while a step is possible, one is taken. *)
FairSpec == Spec /\ WF_vars(Next)
-----------------------------------------------------------------------------
(* The type invariant. *)
TypeOK ==
  /\ fails \subseteq Harnesses \X Controls \X Inputs
  /\ phase \in Phases
  /\ added \in 0 .. Problems
  /\ ctrl \in Controls
  /\ size \in [Harnesses -> Nat]
  /\ declared \in [Harnesses -> Nat]
  /\ cur \in Harnesses \cup {0}
  /\ level \in 0 .. 2
  /\ clone \in [problem : Nat, size : Nat]
  /\ conc \in Nat
  /\ ori \in {"none", "clone", "conc", "freed"}
  /\ toVerify \in Nat
  /\ cex \subseteq Harnesses \X Inputs
  /\ examples \subseteq Harnesses \X Inputs
  /\ inputsDag \in BOOLEAN
  /\ finderLight \in BOOLEAN
  /\ iter \in Nat

(* What solve calls "THE CORRECT ANSWER" is one: when the solver answers,  *)
(* the candidate passes every asserted harness at its full size, although  *)
(* each was checked at several sizes, from a clone, and in an order that   *)
(* starts at the harness of the last counterexample.  (Light verification  *)
(* and assumes are the ways in which the code gives that up.)              *)
AnswerCorrect ==
  phase = "idle" /\ ~ LightVerif =>
    \A h \in 0 .. (added - 1) : h \notin AssumeProblems => Passes(h, ctrl)

(* FAILED is reported only when no assignment to the holes is correct for  *)
(* the harnesses asserted so far, or one of the limits stopped the loop:   *)
(* the examples left in the finder by earlier harnesses, and those found   *)
(* at small sizes, never exclude a correct assignment.                     *)
FailureJustified ==
  phase = "failed" =>
    \/ \A c \in Controls : \E h \in 0 .. (added - 1) : ~ Passes(h, c)
    \/ iter = IterLimit
    \/ finderLight

(* The assertion "baseCheck: SIZE MISMATCH": whenever the checker solves,  *)
(* the input store holds the harness's inputs at the size of the DAG that  *)
(* is solved, though the two are grown through different pointers.         *)
InputStoreMatches ==
  phase = "solve" /\ cur \notin FileProblems =>
    /\ declared[clone.problem] = conc
    /\ clone.size = conc

(* growInputs never touches the DAG that NEXT_PROBLEM deleted: by the time *)
(* a check goes on to an older harness, that one has its full size.        *)
OriginalIsLive == phase = "adjust" /\ CanGrow => ori = "clone"

(* The DAG being checked belongs to curProblem, also when a check resumes  *)
(* on the clone left by the previous one, or starts from the newest        *)
(* harness on a stack that solve found empty ("A big bug" otherwise).      *)
StackTracksCurrent ==
  /\ phase \in {"solve", "adjust"} => clone.problem = cur /\ level = 2
  /\ phase \in {"check", "find"} /\ level > 0 => clone.problem = cur
  /\ phase = "idle" => level = 0
  /\ phase = "check" /\ level = 0 => cur = added - 1

(* Within one solve no counterexample comes back: the finder answers only  *)
(* with candidates that pass everything it was given.  (The first, random  *)
(* candidate of a harness is not the finder's.)                            *)
NewCounterexample == phase = "find" /\ iter > 1 => cex \cap examples = {}

(* Every solve ends, in an answer, a failure or a crash. *)
SolveEnds == phase = "check" ~> phase \in {"idle", "failed", "crashed"}

(* With no limit on the iterations, no assume that searchLoop mistakes and *)
(* no light verification, the solver implements the synthesis problem over *)
(* the inputs seen at full size: AssertHarness is Ask, Verified is Answer, *)
(* FindNothing is Refuse, and every other step is a stutter.               *)
Abstract == INSTANCE Synthesis WITH
  fails <- {f \in fails : f[3] \in Visible(f[1], FullSize)},
  asked <- added,
  verdict <- IF phase = "idle" THEN "answered"
             ELSE IF phase = "failed" THEN "refused" ELSE "open",
  answer <- IF phase = "idle" /\ added > 0 THEN {ctrl} ELSE {}

Implements == Abstract!Spec
=============================================================================
