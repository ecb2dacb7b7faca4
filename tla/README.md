# Sketch back end: a TLA+ verification project

The Sketch back end takes a *sketch*, a list of harnesses (DAGs with inputs and
unknown *holes*), and looks for values of the holes under which no input makes
any harness fail. This directory models the part of it that decides: the
counterexample-guided loop, the attempts around it, adaptive concretization,
the exchange of clauses between processes, the SAT solver under all of them,
and the optimizer that rewrites a DAG before any of them sees it. The modules
are translated from the C++ sources; comments in the sources are quoted only
where a finding or an exception says that the code does otherwise.

Paths below are relative to `src/src/SketchSolver/InputParser/` unless they say
more; the solver is in `src/src/MiniSat/`.

## 1. Inventory

| component | state | operations | hard because |
|---|---|---|---|
| CEGIS loop: `CEGISSolver`, `CEGISChecker` with `CheckControl`, `CEGISFinder` | `ctrlStore`, `problems`, `curProblem`, `problemStack`, input store, `allInputsDag`, the finder's clauses, `iterations` | `addProblem`, `solve`/`solveCore`, `check`, `growInputs`, `find`, `minimizeHoleValue` | one DAG exists in up to four copies of different sizes, with raw pointers to them; a check resumes where the last one stopped; constraints outlive the harness that caused them |
| Adaptive concretization: `HoleHardcoder`, `DepTracker` (declared in `BooleanToCNF.h`), the trail of `globalSat` | `randholes`, `sofar`, `decisionsPerHarness`, `holesPerHarness`, `curHarness`, `pendingConstraints`, learnt clauses, `settledHoles` | `checkRandHole`, `fixValue`, `recordDecision`, `setCurHarness`, `genConflict`, `reset` | two solvers and two maps must agree about one hole; blame for a failure crosses harnesses; an exception unwinds half an attempt |
| Attempt driver: `InterpreterEnvironment` | attempt and harness counters, `currentControls`, `holesToHardcode` | `doallpairs`, `prepareMiter`, `assertHarness`, `recordSolution`, `fixes`, `reset` | order of harnesses, early exits, what survives from one attempt to the next |
| Clause exchange: `ClauseExchange` in `InterpreterEnvironment.cpp` | `single`, `dble`, `baseline`, a file shared by processes | constructor, `exchange`, `readInfile`, `pushOutfile` | no lock: torn reads, lost updates, a constructor that truncates the file |
| Counterexample search: `CEGISChecker::simulate`, `CounterexampleFinder` | an input store, `influences`, `jumpids` | `searchLoop`, `fromFile`, `init` | backjumps over a DAG being evaluated; three outcomes of which one is too strong |
| Inputs and files: `VarStore`, `File` | declared sizes, rows | `declareInput`, `redeclareInputs`, `File::init` | sizes change while objects keep their names |
| DAG lifecycle: `BooleanDAG`, `BooleanDagUtility`, `SketchFunction` | nodes, integer size, reference counts | `_clone`, `growInputIntSizes`, `increment_shared_ptr`, `clear` | manual ownership |
| SAT solver: `MSsolverNS::Solver`, `MiniSATSolver` | clauses, watch lists, trail, `trail_lim`, `qhead`, `polarity`, `ok` | `addClause_`, `addCNFBinary`, `addSingleSet`, `tryAssignment`, `assertIfPossible`, `checkIfPossible`, `popCheckIfPossible`, `reset`, `solve` | one trail serves a search and three ways of trying a literal; clauses that move between watch lists while one is read; levels left open between calls; deletion, compaction and simplification |
| DAG optimizer: `DagOptim`, `DagCSE` | the new nodes, the table of codes, `anv` (what is known of a node's value), `testAsserts`, `failedAssert` | `process`, `computeOptim`, `optAdd`, a `visit` for each type of node, `staticCompare`, `replace` | rules that make nodes which go through rules in turn; facts about values that are cached and reused; assertions merged across what lies between them |
| SAT front end: `BooleanToCNF`, `NodesToSolver` | the translation of each node | | a compiler |
| Inliners, parser, numerical synthesis, solver language, bindings | | | compilers and generated code, or other solvers; see section 8 |

They interact by plain calls in one thread. `doallpairs` concretizes and inlines
a harness (`checkRandHole` and `fixValue` are called back from the inliner),
asserts it, and solves it; the checker tells the hardcoder which harness it is
at; a failed attempt tells `DepTracker` to make a clause of what is to blame.
The only concurrency is between processes that share a clause file.

What makes each correct:

* CEGIS loop: an answer is right for every harness at full size; a failure is
  true; DAG sizes, input store and stack agree; nothing deleted is used; it ends.
* Concretization: decisions that stand when an attempt fails are not tried
  again; clauses exclude only bad assignments;
  the finder knows the values chosen; blame is sufficient; UNSAT is true.
* Driver: the recorded solution is right for the sketch as written; every
  harness was asserted.
* Clause exchange: no process believes a clause that a solution still to be found
  violates, and none gives up while there is one.
* SAT solver: propagation misses nothing; a "no" to a trial excludes only what
  no model has; models and UNSAT are right; nothing given is lost.

* DAG optimizer: a node keeps its meaning for every input and hole; what it
  believes of a node's values is true; no violated assertion is lost and none
  is made up.

The hazards, each at its line, are in `PROJECT.json`.

## 2. Modules

* `Synthesis` is the promise: harnesses are asked one at a time; an answer is
  correct for all asked so far; a refusal means that there is none, and is final.
* `CEGIS` is one attempt without concretization. A *control* stands for a whole
  assignment to the holes, a sketch for the set `fails` of failing
  <<harness, control, input>>, chosen in `Init`, so TLC checks **every** sketch
  of the given size. Kept: the state machine of `solveCore` and of
  `CheckControl`, sizes of the four copies of a DAG, the stale pointer
  `oriProblem`, what the finder remembers, all limits. Abstracted: what a DAG
  computes and how a search finds an input.

  | state | code |
  |---|---|
  | `phase` | the point reached in `solveCore`/`check`/`find` |
  | `size`, `declared`, `clone`, `conc` | integer sizes of `problems[h]`, of the input store, of the bottom and the top of `problemStack` |
  | `cur`, `level`, `toVerify`, `ori` | `curProblem`, `problemStack.size()`, `CheckControl::toVerify`, `oriProblem` |
  | `examples`, `inputsDag`, `finderLight` | clauses in the finder's solver, `allInputsDag`, `lightSolve()` called |

  | action | code |
  |---|---|
  | `AssertHarness` | `assertHarness` with `File`, `addProblem`, and the beginning of `solve` |
  | `EnterCheck`, `SearchFinds`, `SearchFindsNothing`, `GrowIn`, `NextProblem`, `Done`, `CopyToFreedDag` | the cases of `check` |
  | `BailOut`, `Counterexample`, `Verified`, `Minimize` | what `solveCore` does with the result |
  | `FindCandidate`, `FindNothing` | `find` |

* `CEGISProofs` proves theorems about `CEGIS` (section 6).
* `Concretize` is the attempts: each concretizes holes while it inlines
  harnesses and solves them one after the other with the loop of `CEGIS`, here
  one action (`Counterexample`) that keeps the set of assignments the finder
  still allows. `globalSat` is a set of clauses over <<hole, value>>, a trail of
  decisions and MiniSat's `ok`; `Propagate` is unit propagation over values.
  `TrySucceeds` and `TryFails` are `Solver::tryAssignment` with its learnt
  clause and backjump. A learnt clause is stated over decisions, and a chain
  of conflicts in one call is taken as one. A sketch is, for each harness, the
  set of assignments correct for it; the checker's inputs are not needed.
  Whether a hole is concretized is a free choice (in the code: scores and `rand`).
* `ConcretizeProofs` proves theorems about it.
* `ClauseExchange` is several processes on one clause file. The file is a
  sequence of cells, one to an int, each holding the *publication* (the contents
  of one `pushOutfile`) that the int belongs to: that is what a reader of a file
  written by several processes may be mixing. Reads and writes go block by
  block, as the library's do, and blocks of different processes interleave; a
  process may be killed anywhere, and one that starts truncates the file. An
  attempt is abstracted to its outcome. A failed one adds the negation of the
  blamed decisions, which every solution that the process does not exclude already
  satisfies. A successful one finds a solution that agrees with its decisions; with
  `--minvarHole` it adds the negation of **all** of them (`resetCore`), then what
  excludes the solution and what is no better (`Excluding`), with the values of
  minimized holes read off their guards (`MinHoles`). The global solver is its
  level zero: clauses, units, `ok`. Blame is taken to be right here; `Concretize` says
  when it is, and `conc_unsat` that it need not be.

  | state | code |
  |---|---|
  | `file`, `block` | the shared file, the buffer size of the library |
  | `minimize`, `good` | `params.minvarHole`; `hasGoodEnoughSolution` |
  | `solutions`, `found`, `left` | histories: the sketch's solutions, those found by some process, and those still to be found: better than every one found, and agreeing with the decisions of no successful attempt |
  | `single`, `dble` | `single`, `dble` of the exchanger (what `Initial` holds is its `baseline`) |
  | `solver` | `globalSat`: clauses, units, `ok` |
  | `want`, `buf`, `todo`, `push` | `readInfile`'s `insize`, what was read, the clauses still to add, whether `pushOutfile` follows |

  | action | code |
  |---|---|
  | `Start`, `Kill` | the constructor; the end of a process |
  | `AttemptFails`, `AttemptSucceeds`, `Excluded`, `AttemptCutShort` | one round of `doallpairs` |
  | `Exchange`, `OpenWrite`, `WriteBlock` | `exchange` with `analyzeLocal`; `pushOutfile` |
  | `ReadBlock`, `ReadMore`, `Reject`, `Accept`, `AcceptMixed`, `ChecksumFails` | `readInfile` up to the checksum |
  | `Add`, `AddShort`, `Added` | adding the news; `addAndClause`'s shared vector |

* `ClauseExchangeProofs` proves theorems about it.
* `SatSearch` is what a SAT solver promises, with nothing of its mechanism: a
  trail of guesses and consequences, a set of clauses, learning of any clause
  that follows, forgetting of any that is implied, and answers. A clause that is
  given may be shortened or become facts in any way that leaves the same models.
* `SatSearchProofs` proves that every behaviour it allows answers rightly.
* `Solver` is MiniSat as the repository changed it. A *job* is a list of calls.
  Adding a clause is one step; propagation takes a step per clause visited,
  conflict analysis a step per clause resolved, the search a step per decision.

  | state | code |
  |---|---|
  | `clauses`, `next`, `watches` | `clauses`, `learnts` and `watches`, each clause with the order of its literals |
  | `trail`, `lim`, `qhead`, `at` | `trail` with `reason` and `level`, `trail_lim`, `qhead`, the `i` of `propagate` (`j` is always next to it) |
  | `work` | the locals of `analyze`: the clause to absorb, `index`, `seen`, `out_learnt` |
  | `ok`, `simplified`, `phase`, `cutoff` | `ok`, `simpDB_assigns`, `polarity`, the decisions that light verification allows |
  | `pc`, `call`, `count`, `marks` | where the present call stands, its conflicts, restarts and decisions, the levels `checkIfPossible` returns to |
  | `given`, `reply`, `slips` | histories: what the calls said, what the last attempt told its caller, and which of the weak spots of section 5 the code has gone through |

  | action | code |
  |---|---|
  | `AddAClause`, `AddASingle`, `AddAPair`, `AddFinished`, `AddRefutes` | `addClause`, its `SINGLESET` case, `addCNFBinary`, the `propagate` at the end of `addClause` |
  | `NextWatchList`, `VisitTrue`, `VisitMoves`, `VisitForces`, `VisitFails` | `propagate` on a clause |
  | `VisitSettles`, `VisitRefutes`, `VisitSwaps`, `VisitClashes` | `propagate` on a single set, at level zero and above |
  | `Resolve`, `Learn` | `analyze` with `litRedundant`; `cancelUntil` and the learnt clause |
  | `Attempt`, `AnswerKnown`, `TrySucceeds`, `TryBacktracks`, `AssertSucceeds`, `AssertFails`, `CheckSucceeds`, `CheckFails`, `Denied`, `AttemptRefutes`, `PopCheck`, `Reset` | `tryAssignment`, `assertIfPossible`, `checkIfPossible`, `popCheckIfPossible`, `reset` |
  | `Solve`, `SearchLearns`, `SearchRefutes`, `Restart`, `Tidy`, `Reduce`, `AssumeTrue`, `AssumeOpen`, `AssumeFalse`, `Branch`, `ModelFound`, and the `...TooLate` exits | `solve`, `search`, `simplifyAndCompact`, `reduceDB`, `pickBranchLit`, the limit of light verification |

  The literal order in a clause is kept, as the watches depend on it, and so is
  the order of watch lists. Activities and random numbers only order decisions
  and deletions, and are free choices. Clauses of the theory propagators are
  left out.
* `SolverProofs`, `SolverMeaning`, `SolverComplete` and `SolverRefines` prove theorems
  about it: about its operators, a trail, clauses and watch lists as values, each
  operation and every action; about what the state says of the clauses that were
  given; about what propagation, deletion and a search leave undone: nothing; and that
  it implements `SatSearch`.
* `DagNodes` is what a node is, what it means (`Eval`, from `NodeEvaluator`), when
  `DagCSE` takes two nodes for one (`SameCode`), and the abstract values of
  `staticCompare`. A node is the term it stands for: as equal nodes are one node,
  comparing pointers is comparing terms.
* `DagOptim` is the optimizer at work, from one node to the next, and within a node
  one rule at a time. Where a rule calls `optAdd` on a node it has just made, the
  result holds that node marked `New`, and a step of its own visits it once its
  parents have been visited.

  | state | code |
  |---|---|
  | `nodes` | the DAG so far, with `newnodes`: what `DagCSE` knows |
  | `origin`, `work`, `target` | the node `process` is at, what it has become so far, the assertion waiting for it (`ttri.main`) |
  | `source`, `asserts` | the assertions and assumptions as they came; those kept |
  | `triples`, `failed` | `testAsserts`; whether `failedAssert` is set |
  | `alter` | `ALTER_ARRACS` |
  | `jumped`, `corpse` | an assertion was merged into one that stands before an assumption; into one that had been deleted |

  | action | code |
  |---|---|
  | `ProcessNode`, `ProcessAssert`, `Replace` | `process`, `computeOptim`, `visit(ASSERT_node&)`, `replace` |
  | `OptimizeAND` ... `OptimizeARRASS`, all through `Becomes` | the `visit` of the type, in `optAdd` |

  What a rule finds in memory is a free choice (`Memories`): whether `staticCompare`
  has seen the nodes before, which changes its answer (taken for all nodes of one
  visit alike), the flag `dropped` that one constructor leaves unset, and whether
  an inner choice has other children. Nodes that a rule makes and then does not
  use are not put in `nodes`; in the code they stay until `cleanup`.
* `MCCEGIS`, `MCConcretize`, `MCClauseExchange`, `MCSolver`, `MCDagOptim` hold TLC's
  instances, and the claims of comments and assertions that the code violates.

The mutated operators ("Bug: ...") stand directly before the definitions they
replace and are used by nothing.

## 3. Runs

| run | instance | shows |
|---|---|---|
| `cegis` | 2 harnesses, 3 controls, inputs of width 2 and 3, sizes 2..3 | all invariants, refinement of `Synthesis`, termination; 438,168 states |
| `cegis_file` | 3 harnesses, 3 controls, one over a file, one with an assume, minimization, limit 3 | the same safety, with a freed `oriProblem` and a search that may give up; failures are explained by the limit, the loop ends; 424,374 states |
| `cegis_optimal` (violation) | one hole of 3 values, `--minvarHole` | the answer need not be minimal |
| `conc_one` | 1 harness, 2 holes, 5 attempts, all 16 sketches | clauses exclude only bad assignments; UNSAT is true; decisions that stand when an attempt fails are excluded by no clause before and by one afterwards; 74,836 states |
| `conc_two` | 2 harnesses sharing a hole, 3 attempts, all 64 sketches | answers right, finder informed, blame sufficient, decisions not repeated; 505,772 states |
| `conc_unsat` (violation) | 3 harnesses, the first one trivial | a sketch with a solution is reported UNSAT |
| `conc_pending` (violation) | 3 harnesses | the Assert of `setCurHarness` fails |
| `exchange` | 2 processes, 3 variables, 4 lessons, 2 minimized holes, no solution or 3, blocks of 8 or 39 ints, with `--minvarHole` and without | what a process believes is true of every solution still to be found; UNSAT means that there is none; publications only grow; 310,336 states |
| `exchange_better` (violation) | the same, with `--minvarHole` | after a success, better solutions with the same decisions are excluded |
| `solver` | 61 jobs of up to 21 calls over at most 6 variables | watch lists, propagation, trials, answers; each step is one of `SatSearch`; every call returns; 34,626 states |
| `solver_single` (violation) | one job: a single set of which three literals become false | propagation leaves a single set with two false literals |
| `optim` | 16 kinds of DAG: a few optimized nodes, then one or two more of the given types over any of them, or 3 assertions and assumptions out of 9 conditions | each rule keeps the meaning, what is known of values is true, the verdict is kept; 133,230 states |

Why the bounds are enough. Sizes: one growth step and one input that only it
reveals distinguish all cases of `actionDecide`; the proofs cover every size.
Two harnesses are the fewest with a switch, three the fewest with one that is
neither the newest nor the current. Five attempts exceed the four assignments of
two binary holes, so `conc_one` reaches exhaustion (`unsat`); `conc_two`, with three,
also runs out of attempts (`unknown`, return 2). Three harnesses are needed
for blame that has to go through an uninvolved one.
In `exchange` a message has at most 37 ints, so blocks of 8 tear messages and
blocks of 39 do not; the lessons contradict each other only together, so
that two processes may finish a proof neither has alone, and one of them is empty:
no hole was concretized. Of the three solutions two are better than the first, for
different holes, so a success covers one and leaves one. In `solver` a restart
comes after one conflict and `LearntLimit` is negative, because only then do
restarts and `reduceDB` happen at six variables: both are legal at any time, so
this adds behaviour and takes none away. A free decision is allowed twice in a
job (`MaxPicks`); afterwards the least open variable is decided. Every action of
every module fires, and a change of any of eight parts of the solver (`qhead`,
the second watch, the single set's last literal, ...) is noticed.
In `optim` one or two nodes over nodes that are themselves optimized is as deep as
any rule looks; each kind of DAG holds the operands that one family of rules looks
for, with constants on both sides of each comparison, so that every rule applies
and also just fails to. Inputs and holes have one or two bits, and every value of
them is tried. Three assertions are the fewest with which one is merged into
another across an assumption.

No counter is cut off: `iter` stays finite because each counterexample excludes
a candidate (a loop that repeated one would give TLC endless states), sizes by
`FullSize`, attempts by `Attempts`.

`CHECK_DEADLOCK FALSE` is set for `CEGIS`, `Concretize` and `ClauseExchange`:
after an answer to the last harness, a failure or a crash the program ends; and
for `DagOptim`, which ends with the last node.
`Solver` says when a job is over (`Returned`), so there TLC also shows that the
solver is never stuck inside a call.

Options that are constants: `IterLimit` (`-terminateafter`, 0 is none),
`LightVerif`, `MinVarHole`, `FileProblems`, `AssumeProblems`, and `Asserts` for
builds with and without `NDEBUG`. Every run has `LightVerif` false, as with it the
checker promises little: that failures stay explained is proved for all options.

## 4. Fairness

`FairSpec` assumes `WF_vars(Next)`: one thread executes the loop, which has no
wait in it. It does not favour one action over another. `SolveEnds` then says
that the loop ends because the finite set of candidates shrinks. `Solver`'s
`Fairness` is the same assumption, written so that it does not ask for steps
after the last call; `ScriptEnds` then says that no search goes round in
circles, in spite of restarts and deleted clauses (within `MaxRestarts`: the
code lets the interval grow instead). `Concretize` and `ClauseExchange` are
checked for safety only: a process may be killed, and nothing obliges the
others to be heard. So is `DagOptim`: that its rules end is seen from the finite
number of states, in which no size is cut off.

## 5. Findings

Five disagreements between the code and what it says of itself, each with a run
that shows it; the texts are in `PROJECT.json`.

* `cegis_optimal`: the minimization step cannot find a better solution, and
  reads the size of a null DAG.
* `solver_single`: after a conflict of a single set with a third false literal, that
  literal is watched although its turn has passed. The search can end with a
  model in which two literals of the set are false: two values for one hole.
* `exchange_better`: with `--minvarHole` a success is reset like a failure, and its
  decisions are excluded together with the better solutions that agree with them.
* `conc_pending`: the pending flag that is set is not the one that is cleared.
* `conc_unsat`: implied values are not blamed.

Two configurations more, each violated, are not among the listed runs:

* `ConcretizeRecord.cfg` of `MCConcretize`, `ChoiceIsRecorded`: "if you do decide to
  concretize a variable, you need to tell this SAT solver" (`HoleHardcoder.h:80`), and
  the finder is told; but `solve` starts from a random candidate
  (`CEGISSolver.cpp:107`), and when that passes every check the finder is not asked.
  `recordSolution` (`InterpreterEnvironment.h:301-311`) then lets the random value
  overwrite the concretized one, under which the later harness, solved with the
  concretized value, may fail.
* `SolverRevived.cfg` of `MCSolver`, `SatHasModel`: "If FALSE, the constraints are
  already unsatisfiable. No part of the solver state may be used!" (`MSolver.h:208`,
  of `ok`). `assertIfPossible` ends with `ok = (propagate()==NULL)` (`Solver.cpp:1991`)
  without having looked at `ok`, and `fixValue` calls it value after value
  (`HoleHardcoder.cpp:92-112`): a solver whose clauses contradict each other is made
  satisfiable again, and the next solve answers SAT.

`AnswerCorrect` of `Concretize` is stated for answers that came from the finder,
and `BlameSuffices` for attempts without implied values or pending constraints:
the remaining cases are `ChoiceIsRecorded`, `conc_unsat`, and the comment at
`HoleHardcoder.h:103` that pending constraints are misattributed. Three more
conditions in its properties are cases in which the code does not keep the
promise; the proofs need each of them.

* `DecisionsStand` in `NothingRetried`: the backjump of `tryAssignment`
  (`Solver.cpp:1934`) undoes levels of decisions made earlier in the attempt, which
  `randholes` keeps. `globalSat` then no longer knows that they were made, and
  with three holes an attempt can repeat a concretization that failed, although
  `HoleHardcoder.h:43` says "We never try the same concretization twice".
* `Linked` in `BlameSuffices`: `genConflict` follows shared holes from the last
  harness that ruled out a candidate. With three harnesses, of which that one
  shares no hole with the two that contradict each other, the blame misses the
  decisions that matter, and can be empty.
* `okay` in `AnswerCorrect`: a failed `tryAssignment` can make `globalSat`
  unsatisfiable in the middle of an attempt. `doallpairs` asks `isDone`
  (`InterpreterEnvironment.cpp:888`) after the harness at hand is solved, and
  ends with its answer before the later harnesses were asserted.

The solver has weak spots of its own; `slips` records when one is passed, and its
properties say which of them they except. For each of them TLC finds a property
that it violates.

* `exposed`: the case of `solver_single`. Its counterpart leaves the third literal
  watched and takes another false one for the last (job `Fourth` of `MCSolver`).
  It also comes about when
  `assertIfPossible` or `checkIfPossible` go back from a conflict of a single set
  without learning.
* `rushed`: `addCNFBinary` enqueues a unit without propagating it. An attempt that
  follows opens a level, and when its conflict takes that level back, `qhead` skips
  the literals that were still waiting below it.
* `givenUp`: light verification looks at the decision limit after `search` has
  returned. A conflict at level zero is then thrown away, and `ok` stays true.
* `mistaken`: `addClause` of a single set with a false literal forces the other
  literals but skips the last that it kept (`k < j - 1`); without a false literal, and
  with all but one known, it forces the remaining one, and with all known it sets
  `ok` to false. `SolverHelper` replaces known guards beforehand, so that this is rare.
* `revived`: a literal that `assertIfPossible` denies makes `ok` true, also when the
  clauses were found contradictory before (job `Revived`). Clauses refused in
  between are lost, and where a conflict of a single set at level zero took it from a
  list, it stays off the list (job `RevivedSingle`): `WatchesRight` excepts that part
  from then on (`Broken`). UNSAT and refusals are still right, as nothing is a model
  of what was given. `Concretize` does not have this: there the finder's solver is
  taken to be right, and its clauses to stay unsatisfiable.

After `NEXT_PROBLEM`, `oriProblem` of `CEGISChecker::check` dangles: the copy of array
sizes at line 548 writes through it, and `assert(dag != oriProblem)` before it can fail
(`CopyToFreedDag`). `OriginalIsLive` shows, and `GrowsLiveDag` proves, that `growInputs`
is not affected: by then every older harness is at full size.

The rules of the optimizer are wrong in five cases. The properties of `DagOptim`
name them and hold for everything else; without the exception, TLC finds each of
them.

* `AbstractNodeValue::scale` computes the new high from the new low, so the range
  of a product with a negative constant is wrong (`ScaledDown`), although
  `staticCompare` says "return 1 means I know for sure" (`DagOptim.h:176`).
* A chain of three assignments becomes an access, which gives zero for a negative
  index where the chain gives the old value (`NegativeChain`, `DagOptim.cpp:2335`).
* An index that a bit picks from two constants is compared with the number of
  elements only; -1 gives the index itself (`NegativePick`, `DagOptim.cpp:2112`).
* `testAsserts` is not cleared at an assumption: a later assertion is merged into
  one before it, and is then violated by inputs the assumption refuses (`jumped`).
* Its entries may point to an assertion that `DagCSE` has merged with another and
  `process` has deleted (`corpse`); the model ends there.

The first, the third and the last are errors by any reading.

## 6. Proofs

`CEGISProofs` holds for every number of harnesses, controls, inputs, widths and
sizes and every setting of the options. Its assumptions are those `CEGIS`
declares on its constants, `ProblemsAssumption`, `SizeAssumption` and
`OptionAssumption`, which TLC evaluates in every run.

The invariants are not inductive: whether an answer is right depends on which
harnesses have been counted down, at which size, and that on where the check
started. `IInv` adds

* `Position`: where stack, `curProblem` and `toVerify` stand in each phase;
* `Sizes`: the four sizes agree, and lie between `InitSize` and `FullSize`;
* `Grown`: only the newest harness can still grow, and only while it has been
  the current one since it was asserted. That is why a stale `oriProblem` is
  never grown, and why the last search of each harness is at full size
  (lemma `LastSearch`);
* `Progress`: a harness that is not among the `toVerify` ones from `cur` on,
  cyclically, is passed by the candidate;
* `Knowledge`: what the finder was told is true of the asserted harnesses, and
  its candidates pass all of it.

`Initially` and `Step` show that `IInv` is inductive, one case to an action, one
step to a conjunct. From `Invariant` follow `TypeCorrect`, `AnswersAreCorrect`,
`FailuresAreJustified`, `StoreMatchesDag`, `GrowsLiveDag`, `StackIsCurrent` and
`CounterexamplesAreNew`. `Refinement` shows, under `Complete` (no iteration
limit, no light verification, no assume), that `CEGIS` implements `Synthesis`;
it also covers `MinVarHole`, as minimization can crash or answer but not refuse.

`ClauseExchangeProofs` holds for every number of processes, variables, clauses
and solutions. Its inductive invariant says, of every publication in the file,
in a buffer, or being added, what it says of every solver: each clause holds for
all solutions *left* (when minimizing: those better than every one found that agree
with the decisions of no successful attempt; that others are lost is
`exchange_better`). Finding a solution only shrinks that set, so old messages stay
true, and what excludes the solution holds for the better ones, as a hole has one
value (`ExcludingHolds`, from `MinHolesAssumption`); merging publications keeps them
true; unit propagation and emptiness preserve it (`AddClauseSoundFor`). A failed
attempt's clause holds for what the process allows, and that is at least what is
left. Until a solution is found all are left, so a process that gives up before that
proves that the sketch has none. Whole messages need the file to be read in one block:
`MessagesStayWhole` assumes that a message fits. `PublicationsNeverWeaken`
follows from the two histories `single` and `dble` only growing between
publications, up to a pair replaced by one of its units.

`SatSearchProofs` holds for every set of variables, finite or not. `KnownFollows`
and `NothingLost` are inductive together with the types: the first says that a
model of the input satisfies what is kept, and each literal of the trail whose
earlier guesses it agrees with; the second is the converse, for the facts and
the kept clauses. That an extension of the trail respects a model goes by the
least position at which it would not (lemma `Least`, by well-foundedness of the
naturals). `AnswersAreRight` follows. `SolverImplements` (below) shows that `Solver`
implements this specification.

`SolverProofs` holds for every finite set of variables, all jobs and all limits, from
the assumptions of `Solver`: `VarsAssumption`, `JobsAssumption` (a job speaks of
its own variables, an attempt has one literal, a pair two different ones, a single
set at least three) and `BoundsAssumption`. Neither the types nor the watch lists are inductive: where
a clause is watched depends on what analysis puts first in it, that on the levels
of its literals, and those on the trail being what propagation made it. `IInv`
is the conjunction of

* `PlainTypes` and `CallsTyped`: the types, of the work of analysis too;
* `TrailInv`: the trail has each variable once, `lim` says where each level begins,
  the literals of a level stand together, and what has no reason begins its level;
* `ListsInv`: every clause has distinct variables, and no list holds a clause
  twice, or one that does not watch its literal; `EachListed`: until the clauses
  are found contradictory (or were, and `ok` was made true again: `Broken`), a clause
  is in the lists of all it watches. Only then does a clause that was never attached,
  or whose visit was cut off, stay;
* `ReasonsInv`: the reason of a forced literal is still a clause (`reduceDB` and
  `simplifyAndCompact` keep it), and its other literals were false before it;
* `CallInv`: the level an `assert` or a `check` goes back to exists;
* `WorkInv`: the literals of the clause that analysis takes up are false, each
  once, and what is left to resolve lies on the trail below `index`. So the
  walk down the trail ends at a literal, which is the asserting one, and the clause
  learnt has two different literals to watch.

`InitIInv` and `NextIInv` show that it is inductive. The actions are taken by what they
change (`FlatStep`, `TrailStep`, `ListsStep`, `ReasonsStep`, `ListedStep`, `CallStep`,
`WorkStep`), each over the lemma of the operation: undoing levels (`SoundCut`,
`BackIs`), putting consequences on the trail (`SoundGrown`, `SoundGuess`), attaching,
moving a watch, detaching, starting the lists afresh, learning, resolving.
`SolverTypes` and `SolverWatches` follow.

`SolverMeaning` adds what that state says of the clauses that were `given`, unless a
single set was `mistaken`. Its invariant `MInv` is `IInv` with

* `Follows`: a model of `given` satisfies every kept clause, and every literal of the
  trail that was not guessed, if it agrees with the guesses before it;
* `Clash`: during a conflict above level zero the clause that `analyze` began with,
  or the two literals of a single set, cannot all be false in such a model;
  `WorkMeans`: the clause that resolution has reached so far (what was put out, and
  the literals seen that are still on the trail) follows too. Leaving out redundant
  literals is sound as a reason's other literals stand before it: the least
  position of a redundant literal that is true would contradict its reason;
* `AttemptInv`: the guesses of an attempt are those it began with and its literal;
  once `call.good` is false, no model has them all. `NoLevel`: a literal that
  `assertIfPossible` denied has left no level open; `SolveInv`: in a solve the only
  guesses at the levels of the assumptions are assumptions.

`SolverMeans` is proved as `IInv` is, over `NextIInv`. `SolverFollows`,
`SolverAttempts` and `SolverUnsat` (the half of `AnswersRight` that is about UNSAT)
follow.

`SolverComplete` is about the other direction, while `ok` holds and no slip has
happened (`Fine`). `NothingMissed` is not inductive: it is about states in which
propagation has ended, and depends on every state of a walk down a watch list, on
what going back to a lower level undoes, and on where `qhead` stands then. `CInv` is
`MInv` with

* `GuardInv`: take a clause, and a false literal that it watches and whose turn has
  passed (`Handled`: up to `qhead`, and the literal at hand for the clauses before
  `at` in its list). The other watched literal is true, *at the same level or a lower
  one*. So it stays true as long as the first is false, and going back needs no look
  at the watch lists. In a single set no other watched literal has had its turn and
  the last is true; the exception is the set whose conflict is being analysed, until
  its clause is learnt (`OddOne`);
* `QueueInv`: only literals of the present level wait to be propagated, so what
  `cancelUntil` leaves has all had its turn. This is what `rushed` breaks.

`SolverGuards` is proved action by action: going back (`GuardedCarried`), growing the
trail, moving and swapping watches, attaching a learnt clause whose asserting literal is
at the level gone back to, starting over in `Tidy`. `SolverMisses` follows: with
`qhead` at the end of the trail each false watched literal has had its turn.

`KInv` adds `KeepsAll`: an assignment that satisfies the facts and the clauses kept,
learnt ones aside, is a model of `given`. Learnt clauses are left out as `reduceDB`
may delete any of them; `Tidy` deletes what a fact satisfies, and single sets whose
literals are all known, which by `NothingMissed` have at most one false.
`SolverLoses` follows.

`SInv` adds that a search goes on only while `ok` (`SearchesOk`), that each open level
of an assumption has it true there or below (`AssumedTrue`), and, until a slip, that the
last model found is one (`SatRight`). When no variable is left to pick, `NothingMissed`
makes the trail an assignment that satisfies every kept clause, and by `KeepsAll` it satisfies
what was given. `SolverAnswers` follows, with `SolverUnsat`: the whole of `AnswersRight`.
None of this is claimed once a slip has happened, and could not be: after `revived`,
clauses that were given are gone, and SAT is wrong. What is proved of every state is
that UNSAT and refusals are right (but after `mistaken`), the types, and that no list
holds a clause it should not.

`SolverImplements` (in `SolverRefines`) states `Implements`: the first state is one of `SatSearch`, and a
step is a step of it or a stutter, as long as nothing slips. `RInv` adds to `SInv` what
the abstract trail needs: each level begins with a guess (`LevelsBegin`), so going back
cuts the trail at one, and a conflict at level zero is a clause all of whose literals
are false (`ConflictFalse`), as visits only reorder clauses (`VisitsKeepKnown`). There is a
lemma per kind of step (`AreGives`, `AreImplied`, `AreGuesses`, `AreLearns`,
`AreDenied`, `AreTakeBacks`, `TidyForgets`, `ReduceForgets`, `AreAdopted`,
`AreRefuted`, `AreSolves`, `AreSats`, `AreUnsats`, `AreUndefs`, `AreStutters`), over
lemmas that carry trail, clauses and facts across the mapping (`AsTrailIs`,
`KnownTyped`, `FactsMapped`, `ModelsMapped`, `ExtendsMapped`, `CutMapped`). `Give`
speaks of models, not of clauses that have one literal left: `addClause` of a single
set with a literal next to its opposite makes a third literal a fact, which no pair of
the set does alone (the job `Opposite` of `MCSolver`).

`ConcretizeProofs` holds for every finite number of harnesses, holes and values,
every number of attempts and every sharing of holes, from the assumptions that
`Concretize` declares (`HolesAssumption`, `ValsAssumption`, `PairsAssumption`,
`UsesAssumption`). Its inductive invariants are

* `ControlInv`: what `phase`, `attempt`, `pair`, `curHarness` and `fix` say of each
  other;
* `PinsStand`: a hole that an inlined harness has as a constant has the value in
  `randholes`, and the finder has its other holes. So a candidate passes a
  harness with constants exactly if it passes it as written, with the values
  chosen;
* `CandidateInv`: a candidate satisfies what the finder was told, and an answer
  passed every harness as it was asserted. With `PinsStand` and
  `FinderKnowsChoices`, which is inductive itself, `AnswersCorrect` follows;
* `GlobalInv`: while `globalSat` is satisfiable its levels and clauses propagate
  without conflict, and afterwards it has no levels: so no clause excludes the
  decisions that stand (`NoConcretizationRetried`);
* `BlameInv`: without constraints of its own the finder excludes only what fails
  some harness asserted; if it excludes everything, so do the harnesses linked to
  the one that is blamed (`BlameJustified`);
* `SingleInv`, for one harness: a correct assignment that repeats the decisions has
  every value that was implied, too, and is not among those passed over
  (`ExcludedIsBad`, `UnsatIsTrue`). With more harnesses both are false:
  `conc_unsat` is the counterexample.

Propagation and `Component` are recursive functions over rounds. That they exist,
and what they compute, is shown by the least round that would be a counterexample
(`Repeating`, `PropagateRounds`, `RoundsShrink`, `PropagateSound`).

Only model-checked: `SolveEnds` and `ScriptEnds`, as liveness under fairness is
out of the prover's reach; and all of `DagOptim`, where nodes are terms, what a term
means is a recursive definition, and that a rule keeps it is an induction over the
term.

## 7. Plan

1. `Search`: `searchLoop` over a small DAG, with its backjumps, against a
   reference definition of "some input fails"; explains `MayMiss`.
2. `settleHole`, `resetForMinimize` (so far only in `ClauseExchange`) and
   `special_concretize` in `Concretize`;
   solves that end at a limit and are blamed on the decisions.
3. Arrays and tuples in `DagNodes`, and the rules that match them; the inliners as
   a composition with `DagOptim`.
4. `VarStore` resizing and reference counts of `BooleanDagUtility`.

## 8. Not modelled

* Of the solver: the clauses of theory propagators (`INTSPECIAL`,
  `SPECIALFUN`, with `IntPropagator`), which only the options for native
  integers and numerical synthesis create; memory reclamation; statistics.
* The translation to clauses (`BooleanToCNF`, `NodesToSolver`), which is taken
  to be correct: `CEGIS` works with the meaning of a DAG.
* Of the optimizer: arrays, tuples, floats, `ACTRL` and calls, with the rules that
  only match those and `findCycles`; `--assumebcheck`; specialized inputs; Hard
  assertions, which only numerical synthesis makes; and overflow: integers are
  unbounded, as the rules on sums assume. The inliners, whose own steps are calls
  of `optAdd` on copies of nodes, appear only as the failed concretization that
  `Concretize` has.
* The search for a counterexample (`simulate`, `searchLoop`) appears by its outcome
  in `CEGIS`.
* The parser is generated. Numerical synthesis and the solver language are
  separate solvers behind options; the batch enumeration finder is reached only
  from the latter. Timers, statistics, output and checkpoints are left out.
* `POP_LEVEL` in `CEGISChecker::check` is dead, as the level is always 1 when
  `actionDecide` is called, and so is the failure exit of
  `solvePendingConstraints`, whose flag is never set.
