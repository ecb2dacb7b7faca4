----------------------------- MODULE Concretize -----------------------------
(***************************************************************************)
(* Adaptive concretization: InterpreterEnvironment::doallpairs makes       *)
(* several attempts, and in each of them HoleHardcoder may replace a hole, *)
(* while a harness is inlined, by a value of its choice.  Two solvers keep *)
(* that consistent: globalSat remembers the concretizations that failed    *)
(* and the decisions of this attempt, and the finder's solver (sat) knows  *)
(* what the earlier harnesses demand of a hole.  DepTracker says which     *)
(* decisions a failure is blamed on.                                       *)
(*                                                                         *)
(* A harness is a set of assignments that are correct for it.  The loop    *)
(* that solves one harness is that of module CEGIS, without its sizes: the *)
(* finder's solver is the set of assignments that its clauses allow.       *)
(* Whether a hole is concretized is a matter of scores and chance in the   *)
(* code, and a free choice here.  Both SAT solvers see values of holes     *)
(* instead of bits.                                                        *)
(***************************************************************************)
EXTENDS Integers, Sequences, FiniteSets

CONSTANTS
  Holes,      \* the holes of the sketch
  Vals,       \* the values of a hole, 0 .. 2^nbits - 1
  Pairs,      \* spskpairs.size(): the harnesses are 0 .. Pairs - 1
  Uses,       \* Uses[i]: the holes that occur in harness i
  Attempts,   \* howmany: -ntimes
  Asserts,    \* the build evaluates assert(): NDEBUG is not defined
  Sketches    \* the sketches considered: functions from a harness to the
              \* set of assignments [Uses[i] -> Vals] correct for it

Harnesses == 0 .. (Pairs - 1)
Assignments == [Holes -> Vals]

(* What globalSat decides about: that a hole has a value. *)
Facts == Holes \X Vals

(* A program without a harness does not enter the loop at all.             *)
ASSUME PairsAssumption == Pairs \in Nat \ {0} /\ Attempts \in Nat \ {0}
ASSUME HolesAssumption == IsFiniteSet(Holes)
ASSUME ValsAssumption ==
  IsFiniteSet(Vals) /\ Vals # {} /\ Vals = 0 .. (Cardinality(Vals) - 1)
ASSUME BuildAssumption == Asserts \in BOOLEAN
ASSUME UsesAssumption == Uses \in [Harnesses -> SUBSET Holes]
ASSUME SketchAssumption ==
  \A s \in Sketches : \A i \in Harnesses : s[i] \subseteq [Uses[i] -> Vals]

(* No value: LEAVEALONE(v) is v < 0. *)
None == -1

VARIABLES
  correct,    \* the sketch; never changes
  phase,      \* where doallpairs is, see Phases
  attempt,    \* trailID
  pair,       \* i, the harness at hand
  randholes,  \* the value a hole was concretized to, or None
  decisions,  \* DepTracker::decisionsPerHarness; all of them are sofar
  holesOf,    \* DepTracker::holesPerHarness, and inverted harnessPerHole
  curHarness, \* DepTracker::curHarness
  pending,    \* HoleHardcoder::pendingConstraints
  clauses,    \* globalSat: sets of <<hole, value>> of which not all hold
  trail,      \* globalSat: the decision levels, one <<hole, value>> each
  okay,       \* globalSat: MiniSat's ok
  finder,     \* sat: the assignments that satisfy the finder's clauses
  declared,   \* the holes in the finder and in ctrlStore
  pins,       \* pins[i]: what harness i had concretized when it was asserted
  ctrl,       \* ctrlStore
  found,      \* ctrlStore's values are a model of the finder
  fix         \* fixValue's local state: the hole, and the values yet to try

attemptVars == <<randholes, decisions, holesOf, declared, pins>>
globalVars == <<clauses, trail, okay>>
solveVars == <<ctrl, found>>
vars == <<correct, phase, attempt, pair, attemptVars, curHarness, pending,
          globalVars, finder, solveVars, fix>>

Phases == {"next", "inline", "fix", "solve", "failed",
           "answered", "unsat", "unknown", "crashed"}

NoFix == [hole |-> "none", left |-> <<>>]
-----------------------------------------------------------------------------
(* The assignments that agree with a set of <<hole, value>>. *)
Agreeing(L) == {x \in Assignments : \A p \in L : x[p[1]] = p[2]}

(* The assignments that satisfy the clauses C. *)
Models(C) == {x \in Assignments : \A c \in C : \E p \in c : x[p[1]] # p[2]}

(* Bug: the clauses are not attached to the watch lists. *)
NotWatched(C, D) == D

(* The values that D, a set of <<hole, value>>, leaves to a hole. *)
Left(D, h) == {v \in Vals : <<h, v>> \in D}

(* A clause of which all other conditions hold rules the last one out. *)
Shrink(C, D) ==
  {p \in D : ~ \E c \in C : /\ p \in c
                            /\ \A q \in c \ {p} : Left(D, q[1]) = {q[2]}}

(* What the levels L leave possible before any clause is looked at. *)
Possible(L) == {p \in Facts : \A q \in L : q[1] = p[1] => q = p}

(* Unit propagation; no more rounds can change anything. *)
Propagate(C, L) ==
  LET rounds == Cardinality(Holes) * Cardinality(Vals)
      left[n \in 0 .. rounds] ==
        IF n = 0 THEN Possible(L) ELSE Shrink(C, left[n - 1])
  IN left[rounds]

Conflicting(D) == \E h \in Holes : Left(D, h) = {}

Levels(n) == {trail[k] : k \in 1 .. n}

(* isValKnown on globalSat: 1, -1, or 0 for no opinion.  Once ok is false  *)
(* a hole without a value left has the one that was assigned first.        *)
Opinions(h, v) ==
  LET D == Left(Propagate(clauses, Levels(Len(trail))), h)
  IN IF D = {} THEN {1, -1}
     ELSE IF D = {v} THEN {1}
     ELSE IF v \in D THEN {0} ELSE {-1}

(* Solver::tryAssignment: p becomes a decision level of its own, or the    *)
(* conflict is analyzed, a clause over decisions is learnt, and all levels *)
(* above the second deepest one in that clause are undone.                 *)
TrySucceeds(p) ==
  /\ okay
  /\ ~ Conflicting(Propagate(clauses, Levels(Len(trail)) \cup {p}))
  /\ trail' = Append(trail, p)
  /\ UNCHANGED <<clauses, okay>>

TryFails(p) ==
  \/ ~ okay /\ UNCHANGED globalVars
  \/ /\ okay
     /\ Conflicting(Propagate(clauses, Levels(Len(trail)) \cup {p}))
     /\ \E b \in 0 .. Len(trail) :
        \E L \in SUBSET (Levels(Len(trail)) \cup {p}) :
          /\ Agreeing(L) \cap Models(clauses) = {}
          /\ Cardinality(L \ Levels(b)) = 1
          /\ b > 0 => trail[b] \in L
          /\ clauses' = clauses \cup {L}
          /\ trail' = SubSeq(trail, 1, b)
          /\ LET left == Propagate(clauses \cup {L}, Levels(b))
             IN  IF b > 0 THEN ~ Conflicting(left) /\ UNCHANGED okay
                 ELSE okay' = ~ Conflicting(left)

Init ==
  /\ correct \in Sketches
  /\ phase = "next"
  /\ attempt = 0
  /\ pair = 0
  /\ randholes = [h \in Holes |-> None]
  /\ decisions = [i \in Harnesses |-> {}]
  /\ holesOf = [i \in Harnesses |-> {}]
  /\ curHarness = 0
  /\ pending = FALSE
  /\ clauses = {}
  /\ trail = <<>>
  /\ okay = TRUE
  /\ finder = Assignments
  /\ declared = {}
  /\ pins = [i \in Harnesses |-> {}]
  /\ ctrl \in Assignments
  /\ found = FALSE
  /\ fix = NoFix
-----------------------------------------------------------------------------
(* The top of the loop over the harnesses: setCurHarness, whose Assert is  *)
(* outside of the try block.                                               *)
StartHarness ==
  /\ phase = "next"
  /\ curHarness' = pair
  /\ phase' = IF pending THEN "crashed" ELSE "inline"
  /\ UNCHANGED <<correct, attempt, pair, attemptVars, pending, globalVars,
                 finder, solveVars, fix>>

(* regHoleInHarness *)
Registered(h) == [holesOf EXCEPT ![curHarness] = @ \cup {h}]

(* checkRandHole, where it returns the hole as it is or the value that was *)
(* chosen before.                                                          *)
VisitHole ==
  /\ phase = "inline"
  /\ \E h \in Uses[pair] : holesOf' = Registered(h)
  /\ UNCHANGED <<correct, phase, attempt, pair, randholes, decisions, declared,
                 pins, curHarness, pending, globalVars, finder, solveVars, fix>>

(* checkRandHole, where it calls fixValue; the values are tried in cyclic  *)
(* order from a random one.                                                *)
ConcretizeHole ==
  /\ phase = "inline"
  /\ \E h \in Uses[pair], rv \in Vals :
       /\ randholes[h] = None
       /\ holesOf' = Registered(h)
       /\ fix' = [hole |-> h,
                  left |-> [k \in 1 .. Cardinality(Vals) |->
                              (k - 1 + rv) % Cardinality(Vals)]]
  /\ phase' = "fix"
  /\ UNCHANGED <<correct, attempt, pair, randholes, decisions, declared, pins,
                 curHarness, pending, globalVars, finder, solveVars>>

(* Bug: the finder's solver is never asked. *)
NeverLocal(h) == FALSE

(* sat->checkVar *)
Local(h) == h \in declared

(* Propagation alone tells the finder's solver that the value is           *)
(* impossible, or the only one possible.  It may as well not notice; the   *)
(* value is then asserted, and may leave the solver without a model.       *)
LocalRefuses(h, v) == Agreeing({<<h, v>>}) \cap finder = {}
LocallyForced(h, v) == finder \subseteq Agreeing({<<h, v>>})

(* Bug: the value is not asserted. *)
NotAsserted(h, v) == finder

(* assertIfPossible on the finder's solver, where it returns true *)
Asserted(h, v) == finder \cap Agreeing({<<h, v>>})

(* Bug: the decision reaches sofar only, which genConflict overwrites. *)
NotRecorded(h, v) == decisions

(* recordDecision *)
Recording(h, v) == [decisions EXCEPT ![curHarness] = @ \cup {<<h, v>>}]

(* The value becomes randholes[hole], with or without recordDecision. *)
Take(h, v, recorded) ==
  /\ randholes' = [randholes EXCEPT ![h] = v]
  /\ decisions' = IF recorded THEN Recording(h, v) ELSE decisions
  /\ fix' = NoFix
  /\ phase' = "inline"

(* continue *)
Skip ==
  /\ fix' = [fix EXCEPT !.left = Tail(@)]
  /\ UNCHANGED <<phase, randholes, decisions>>

(* throw BadConcretization.  The catch clauses of prepareMiter assert      *)
(* false; without assertions they throw again, to doallpairs, which resets *)
(* everything.                                                             *)
BadConcretization == phase' = IF Asserts THEN "crashed" ELSE "failed"

Throw ==
  /\ BadConcretization
  /\ fix' = NoFix
  /\ UNCHANGED <<randholes, decisions>>

fixFrame == <<correct, attempt, pair, holesOf, declared, pins, curHarness,
              solveVars>>

(* One value, of which globalSat has no opinion; nor has the finder's      *)
(* solver the hole.                                                        *)
TryFreeValue ==
  /\ phase = "fix"
  /\ fix.left # <<>>
  /\ LET h == fix.hole  v == Head(fix.left) IN
       /\ 0 \in Opinions(h, v)
       /\ ~ Local(h)
       /\ \/ TrySucceeds(<<h, v>>) /\ Take(h, v, TRUE)
          \/ TryFails(<<h, v>>) /\ Skip
  /\ UNCHANGED <<fixFrame, pending, finder>>

(* The same, of a hole that an earlier harness left to the finder. *)
TryLocalValue ==
  /\ phase = "fix"
  /\ fix.left # <<>>
  /\ LET h == fix.hole  v == Head(fix.left) IN
       /\ 0 \in Opinions(h, v)
       /\ Local(h)
       /\ \/ /\ LocalRefuses(h, v)
             /\ Skip
             /\ UNCHANGED <<pending, finder, globalVars>>
          \/ /\ finder' = Asserted(h, v)
             /\ pending' = TRUE
             /\ \E forced \in {FALSE, LocallyForced(h, v)} :
                  \/ TrySucceeds(<<h, v>>) /\ Take(h, v, ~ forced)
                  \/ TryFails(<<h, v>>) /\ forced /\ Throw
                  \/ TryFails(<<h, v>>) /\ ~ forced /\ Skip
  /\ UNCHANGED fixFrame

(* globalSat says that the hole has this value: not a decision. *)
TakeImplied ==
  /\ phase = "fix"
  /\ fix.left # <<>>
  /\ LET h == fix.hole  v == Head(fix.left) IN
       /\ 1 \in Opinions(h, v)
       /\ \/ /\ ~ Local(h)
             /\ Take(h, v, FALSE)
             /\ UNCHANGED <<pending, finder>>
          \/ /\ Local(h)
             /\ LocalRefuses(h, v)
             /\ Throw
             /\ UNCHANGED <<pending, finder>>
          \/ /\ Local(h)
             /\ finder' = Asserted(h, v)
             /\ pending' = TRUE
             /\ Take(h, v, FALSE)
  /\ UNCHANGED <<fixFrame, globalVars>>

(* globalSat says that it has not. *)
SkipExcluded ==
  /\ phase = "fix"
  /\ fix.left # <<>>
  /\ LET h == fix.hole  v == Head(fix.left) IN
       /\ -1 \in Opinions(h, v)
       /\ \/ Skip
          \/ Local(h) /\ LocallyForced(h, v) /\ Throw
  /\ UNCHANGED <<fixFrame, pending, finder, globalVars>>

(* No value is left to try. *)
GiveUp ==
  /\ phase = "fix"
  /\ fix.left = <<>>
  /\ Throw
  /\ UNCHANGED <<fixFrame, pending, finder, globalVars>>
-----------------------------------------------------------------------------
Chosen(H) == {<<h, randholes[h]>> : h \in {g \in H : randholes[g] # None}}

(* Harness i, with the values P put in for some holes, passes with x. *)
PassesWith(i, P, x) ==
  \E c \in correct[i] : \A h \in Uses[i] :
    IF \E v \in Vals : <<h, v>> \in P THEN <<h, c[h]>> \in P ELSE c[h] = x[h]

(* The assertions of the harness fold to false under the values chosen so  *)
(* far, in whatever order the DAG has the holes.                           *)
FoldsToFalse ==
  /\ phase = "inline"
  /\ \A x \in Assignments : ~ PassesWith(pair, Chosen(holesOf[pair]), x)
  /\ BadConcretization
  /\ UNCHANGED <<correct, attempt, pair, attemptVars, curHarness, pending,
                 globalVars, finder, solveVars, fix>>

(* assertHarness, up to the random candidate that solve starts from. *)
AssertHarness ==
  /\ phase = "inline"
  /\ Uses[pair] \subseteq holesOf[pair]
  /\ pins' = [pins EXCEPT ![pair] = Chosen(Uses[pair])]
  /\ declared' = declared \cup {h \in Uses[pair] : randholes[h] = None}
  /\ ctrl' \in Assignments
  /\ found' = FALSE
  /\ phase' = "solve"
  /\ UNCHANGED <<correct, attempt, pair, randholes, decisions, holesOf,
                 curHarness, pending, globalVars, finder, fix>>

Fails(i) == ~ PassesWith(i, pins[i], ctrl)

(* The harness checked k steps after curHarness. *)
Later(k) == (curHarness + k) % (pair + 1)

(* An iteration of the CEGIS loop: the candidate fails on an input of the  *)
(* first harness, from the last one that failed on, that it does not pass. *)
(* The input rules out the candidate and others that fail this harness.    *)
(* NEXT_PROBLEM keeps curHarness equal to curProblem.                      *)
Counterexample ==
  /\ phase = "solve"
  /\ \E k \in 0 .. pair :
       /\ Fails(Later(k))
       /\ \A j \in 0 .. (k - 1) : ~ Fails(Later(j))
       /\ curHarness' = Later(k)
  /\ \E lost \in SUBSET {x \in finder :
                         ~ PassesWith(curHarness', pins[curHarness'], x)} :
       /\ ctrl \in finder => ctrl \in lost
       /\ finder' = finder \ lost
  /\ IF finder' = {} THEN phase' = "failed" /\ UNCHANGED solveVars
     ELSE phase' = "solve" /\ ctrl' \in finder' /\ found' = TRUE
  /\ UNCHANGED <<correct, attempt, pair, attemptVars, pending, globalVars, fix>>

(* All harnesses pass.  doallpairs stops if globalSat has become           *)
(* unsatisfiable.                                                          *)
Verified ==
  /\ phase = "solve"
  /\ \A i \in 0 .. pair : ~ Fails(i)
  /\ IF ~ okay \/ pair = Pairs - 1
     THEN phase' = "answered" /\ UNCHANGED pair
     ELSE phase' = "next" /\ pair' = pair + 1
  /\ UNCHANGED <<correct, attempt, attemptVars, curHarness, pending,
                 globalVars, finder, solveVars, fix>>
-----------------------------------------------------------------------------
(* DepTracker::helper: the harnesses that share holes, transitively. *)
Connected(i, j) == holesOf[i] \cap holesOf[j] # {}

Component(i) ==
  LET reach[n \in 0 .. Pairs] ==
        IF n = 0 THEN {i}
        ELSE reach[n - 1] \cup
             {j \in Harnesses : \E k \in reach[n - 1] : Connected(k, j)}
  IN reach[Pairs]

(* Bug: the decisions of the failed harness only. *)
OwnDecisions == decisions[curHarness]

(* genConflict *)
Conflict == UNION {decisions[i] : i \in Component(curHarness)}

(* Bug: the clause is lost. *)
NotLearnt == clauses

(* addHelperClause(sofar) *)
Learnt == clauses \cup {Conflict}

(* Bug: one attempt too many. *)
AttemptsPassed == attempt = Attempts

AttemptsDone == attempt + 1 = Attempts

(* reset: the conflict becomes a clause of globalSat, and both the finder  *)
(* and the hardcoder forget the attempt.                                   *)
Reset ==
  /\ phase = "failed"
  /\ clauses' = Learnt
  /\ trail' = <<>>
  /\ okay' = /\ okay
             /\ Conflict # {}
             /\ ~ Conflicting(Propagate(Learnt, {}))
  /\ randholes' = [h \in Holes |-> None]
  /\ decisions' = [i \in Harnesses |-> {}]
  /\ holesOf' = [i \in Harnesses |-> {}]
  /\ pending' = FALSE
  /\ finder' = Assignments
  /\ declared' = {}
  /\ pins' = [i \in Harnesses |-> {}]
  /\ found' = FALSE
  /\ pair' = 0
  /\ attempt' = attempt + 1
  /\ phase' = IF ~ okay' THEN "unsat"
              ELSE IF AttemptsDone THEN "unknown" ELSE "next"
  /\ UNCHANGED <<correct, curHarness, ctrl, fix>>

FixValue == \/ TryFreeValue \/ TryLocalValue
            \/ TakeImplied \/ SkipExcluded \/ GiveUp

Next == \/ StartHarness
        \/ VisitHole \/ ConcretizeHole \/ FixValue \/ FoldsToFalse
        \/ AssertHarness \/ Counterexample \/ Verified
        \/ Reset

Spec == Init /\ [][Next]_vars
-----------------------------------------------------------------------------
(* The type invariant. *)
TypeOK ==
  /\ correct \in Sketches
  /\ phase \in Phases
  /\ attempt \in 0 .. Attempts
  /\ pair \in Harnesses \cup {0}
  /\ randholes \in [Holes -> Vals \cup {None}]
  /\ decisions \in [Harnesses -> SUBSET Facts]
  /\ holesOf \in [Harnesses -> SUBSET Holes]
  /\ curHarness \in Harnesses \cup {0}
  /\ pending \in BOOLEAN
  /\ clauses \subseteq SUBSET Facts
  /\ trail \in Seq(Facts)
  /\ okay \in BOOLEAN
  /\ finder \subseteq Assignments
  /\ declared \subseteq Holes
  /\ pins \in [Harnesses -> SUBSET Facts]
  /\ ctrl \in Assignments
  /\ found \in BOOLEAN
  /\ fix \in [hole : Holes \cup {"none"}, left : Seq(Vals)]

(* recordSolution: the concretized holes first, then those of ctrlStore,   *)
(* which overwrite them.                                                   *)
Recorded == [h \in Holes |->
              IF h \in declared \/ randholes[h] = None THEN ctrl[h]
              ELSE randholes[h]]

(* The assignments that are correct for every harness of the sketch. *)
Correct == {x \in Assignments : \A i \in Harnesses : PassesWith(i, {}, x)}

(* The values printed are correct for every harness that was asserted, as  *)
(* it was written, though each was solved with other holes replaced by     *)
(* constants; while globalSat is satisfiable that is the whole sketch.     *)
(* (If the last solve needed the finder; see ChoiceIsRecorded.)            *)
AnswerCorrect ==
  phase = "answered" /\ found =>
    /\ \A i \in 0 .. pair : PassesWith(i, {}, Recorded)
    /\ okay => Recorded \in Correct

(* "If you do decide to concretize a variable, you need to tell this SAT   *)
(* solver, so that the harnesses that saw those variables before will know *)
(* what values to assign them."                                            *)
FinderKnowsChoices ==
  \A h \in declared : randholes[h] # None =>
    finder \subseteq Agreeing({<<h, randholes[h]>>})

(* No level of a decision of this attempt was undone by the conflict of a  *)
(* later one.                                                              *)
DecisionsStand ==
  \A i \in Harnesses : decisions[i] \subseteq Levels(Len(trail))

(* "We never try the same concretization twice": the decisions that an     *)
(* attempt is blamed on, collected from several harnesses, were excluded   *)
(* by no clause before and are excluded from now on.  (Of decisions that   *)
(* still stand; globalSat has forgotten the others, and may repeat them.)  *)
NothingRetried ==
  [][attempt' # attempt /\ DecisionsStand =>
       /\ \A c \in clauses : ~ (c \subseteq Conflict)
       /\ \E c \in clauses' : c \subseteq Conflict]_vars

(* The harnesses asserted so far all share holes, transitively, with the   *)
(* one that is blamed.                                                     *)
Linked == 0 .. pair \subseteq Component(curHarness)

(* When the finder runs out of candidates, the decisions that DepTracker   *)
(* blames are enough: whoever repeats them fails, although some of them    *)
(* were made in other harnesses than the one that failed.  (Not where      *)
(* globalSat implied a value, nor with constraints still pending; and      *)
(* curHarness is the last harness that ruled out a candidate, which may    *)
(* have nothing to do with the ones that contradict each other.)           *)
BlameSuffices ==
  [][(/\ phase = "solve" /\ phase' = "failed"
      /\ ~ pending
      /\ Linked'
      /\ \A h \in Holes : randholes[h] # None =>
           \E i \in Harnesses : <<h, randholes[h]>> \in decisions[i])
     => Agreeing(Conflict') \cap Correct = {}]_vars

(* "The set of satisfying assignments corresponds to all assignments that  *)
(* are not known to be bad": no clause excludes a correct assignment.      *)
OnlyBadExcluded == Correct \subseteq Models(clauses)

(* What is reported as UNSAT is. *)
UnsatJustified == phase = "unsat" => Correct = {}

(* "There can't be any pending unchecked constraints!" when the next       *)
(* harness starts.                                                         *)
NoPendingAtSwitch == phase = "next" => ~ pending

(* An answer is given only when every harness was asserted. *)
AnswerComplete == phase = "answered" => pair = Pairs - 1

(* The harnesses that saw a hole before it was concretized give it the     *)
(* value it was concretized to.                                            *)
ChoiceIsRecorded ==
  phase = "answered" =>
    \A h \in Holes : randholes[h] # None => Recorded[h] = randholes[h]
=============================================================================
