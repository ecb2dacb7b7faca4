---------------------------- MODULE ClauseExchange ----------------------------
(***************************************************************************)
(* Several solver processes work on one sketch and exchange what they have *)
(* learnt about its holes through one file without a lock: ClauseExchange  *)
(* in InterpreterEnvironment.  Before every fifth attempt a process reads  *)
(* the file, adds the unit and binary clauses it does not know to the      *)
(* global solver of its HoleHardcoder, and rewrites the file with the      *)
(* union of its own and of what it read.  A process that starts wipes the  *)
(* file; a process may be killed at any moment.                            *)
(*                                                                         *)
(* The file is a sequence of cells, one for each int.  What matters of an  *)
(* int is which publication (the contents of one pushOutfile) it belongs   *)
(* to, so that is what a cell holds.  The library reads and writes a file  *)
(* block by block, and the steps of the processes interleave between       *)
(* blocks.                                                                 *)
(*                                                                         *)
(* An attempt (module Concretize) is abstracted to its outcome: it fails   *)
(* and adds a clause that follows from what the process knows, or it finds *)
(* a solution.                                                             *)
(***************************************************************************)
EXTENDS Integers, FiniteSets, Sequences

CONSTANTS
  Procs,        \* the processes that share the file
  Vars,         \* the guards of the holes' values: variables of globalSat
  Initial,      \* the binary clauses of the holes' declarations
  Lessons,      \* the clauses an attempt may add: negated decisions
  Solutions,    \* the sets of assignments that may solve the sketch
  MinHoles,     \* the holes to minimize, each the guards of 0, 1, 2, ...
  Modes,        \* whether to go on after a solution, see minimize
  Blocks,       \* the block sizes, in ints, the library may use
  MinBuf        \* the smallest buffer of readInfile; 200 in the code

Lits == Vars \X BOOLEAN
Neg(l) == <<l[1], ~ l[2]>>
Assignments == [Vars -> BOOLEAN]
Clauses == SUBSET Lits

ASSUME VarsAssumption == IsFiniteSet(Vars)
ASSUME ClausesAssumption == /\ Initial \subseteq Clauses
                            /\ Lessons \subseteq Clauses
ASSUME SolutionsAssumption ==
  /\ Solutions \subseteq SUBSET Assignments
  /\ \A S \in Solutions : \A a \in S, c \in Initial :
       \E l \in c : a[l[1]] = l[2]
(* A hole has one value in a solution. *)
ASSUME MinHolesAssumption ==
  /\ MinHoles \subseteq Seq(Lits)
  /\ \A S \in Solutions : \A a \in S, h \in MinHoles :
       \E i \in DOMAIN h : \A j \in DOMAIN h : a[h[j][1]] = h[j][2] <=> j = i
ASSUME ModesAssumption == Modes \subseteq BOOLEAN
ASSUME SizesAssumption == /\ Blocks \subseteq Nat \ {0}
                          /\ MinBuf \in Nat \ {0}

VARIABLES
  solutions,  \* the assignments that solve the sketch; never changes
  found,      \* the solutions that some process has found
  left,       \* the solutions that are better and that none has covered
  good,       \* good[p]: hasGoodEnoughSolution, p has found one
  block,      \* the block size of the library; never changes
  minimize,   \* --minvarHole: go on after a solution; never changes
  file,       \* the ints of the file
  pc,         \* pc[p]: what process p is doing, see Places
  solver,     \* solver[p]: the level-zero state of p's global solver
  single,     \* single[p], dble[p]: the sets of the exchanger
  dble,
  want,       \* want[p]: how many ints the current fread asks for
  buf,        \* buf[p]: the ints of the file that p has read
  todo,       \* todo[p]: clauses read and not added to the solver yet
  push,       \* push[p]: p knew something before it read
  written     \* written[p]: how many ints of its publication p has written

sets == <<single, dble>>
input == <<want, buf>>
output == <<push, written>>
locals == <<sets, input, todo, output>>
fixed == <<solutions, block, minimize>>
success == <<found, left, good>>
vars == <<fixed, success, file, pc, solver, locals>>

(* "attempt": between two exchanges; "read": in the first fread of         *)
(* readInfile; "rest": in its second; "add": adding what was read; "open"  *)
(* and "write": in pushOutfile; "exclude": in resetForMinimize; "answered":*)
(* returned 0; "unsat": returned 1; "killed": ended in any other way;      *)
(* "short": like "add", but the vector that holds a binary clause has lost *)
(* an element.  Two ends of the model, after which a process may believe   *)
(* anything: "misled", when one took the ints of several writes for one    *)
(* message, and "cut", when one added a clause without its second literal. *)
Places == {"off", "attempt", "exclude", "read", "rest", "add", "short",
           "open", "write", "answered", "unsat", "killed", "misled", "cut"}
Ended == {"answered", "unsat", "killed", "misled", "cut"}
Misled == \E p \in Procs : pc[p] \in {"misled", "cut"}

(* The binary clauses that may be shared. *)
Pairs == {c \in Clauses : Cardinality(c) = 2} \ Initial
Publications == [single : SUBSET Lits, dble : SUBSET Pairs]
Publication(p) == [single |-> single[p], dble |-> dble[p]]

(* An int that nobody wrote: the system fills a gap with zeroes. *)
Gap == [single |-> {}, dble |-> {}]

(* The number of ints of a publication: two sizes, the literals and the    *)
(* checksum.                                                               *)
SizeOf(s, d) == s + d * 2 + 3
Size(P) == SizeOf(Cardinality(P.single), Cardinality(P.dble))
MostInts == SizeOf(Cardinality(Lits), Cardinality(Pairs))
-----------------------------------------------------------------------------
Holds(c, a) == \E l \in c : a[l[1]] = l[2]

Value(h, a) == CHOOSE i \in DOMAIN h : Holds({h[i]}, a)

(* No minimized hole has a greater value, and one has a smaller value. *)
Better(a, b) == /\ \A h \in MinHoles : Value(h, a) <= Value(h, b)
                /\ \E h \in MinHoles : Value(h, a) < Value(h, b)

(* What resetForMinimize adds for the solution b: no greater value for any *)
(* of the minimized holes, and not the same value for all of them.         *)
Greater(b) == UNION {{{Neg(h[i])} : i \in {i \in DOMAIN h : i > Value(h, b)}} :
                       h \in MinHoles}
Same(b) == {Neg(h[Value(h, b)]) : h \in MinHoles}

(* Bug: no minimized hole may keep its value. *)
SameNowhere(b) == Greater(b) \cup {{l} : l \in Same(b)}

Excluding(b) == Greater(b) \cup {Same(b)}

(* True of every solution that is still to be found. *)
Entailed(c) == \A a \in left : Holds(c, a)

(* What unit propagation derives from the clauses C and the literals U. *)
Closed(C, U) == \A c \in C : \A l \in c :
                  (\A m \in c \ {l} : Neg(m) \in U) => l \in U
Closure(C, U) == {l \in Lits : \A W \in SUBSET Lits :
                                 (U \subseteq W /\ Closed(C, W)) => l \in W}
Contradictory(U) == \E l \in U : Neg(l) \in U

(* Solver::addClause at level zero: a clause that is true already is       *)
(* dropped, literals that are false are removed, an empty clause ends the  *)
(* search and a unit clause is propagated.                                 *)
(* Bug: one literal too many is removed.                                   *)
OpenTooShort(s, c) ==
  {l \in c : Neg(l) \notin s.units /\ l # CHOOSE m \in c : TRUE}

Open(s, c) == {l \in c : Neg(l) \notin s.units}
(* Bug: a clause that does not become a unit is forgotten. *)
AddUnit(s, c) ==
  LET rest == Open(s, c)
  IN  IF s.ok /\ c \cap s.units = {} /\ Cardinality(rest) = 1
      THEN [s EXCEPT !.units = @ \cup rest] ELSE s

AddClause(s, c) ==
  LET rest == Open(s, c)
      derived == Closure(s.clauses, s.units \cup rest)
  IN  IF ~ s.ok \/ c \cap s.units # {} THEN s
      ELSE IF rest = {} THEN [s EXCEPT !.ok = FALSE]
      ELSE IF Cardinality(rest) = 1
           THEN IF Contradictory(derived)
                THEN [s EXCEPT !.units = @ \cup rest, !.ok = FALSE]
                ELSE [s EXCEPT !.units = derived]
      ELSE [s EXCEPT !.clauses = @ \cup {rest}]

(* Solver::getShareable: the level-zero literals, and the binary problem   *)
(* clauses that are not in the baseline, the declarations of the holes.    *)
(* Bug: the declarations of the holes are shared as well.                  *)
AllShareable(s) ==
  [single |-> s.units, dble |-> {c \in s.clauses : Cardinality(c) = 2}]

Shareable(s) ==
  [single |-> s.units,
   dble |-> {c \in s.clauses : Cardinality(c) = 2} \ Initial]

ClausesOf(P) == {{l} : l \in P.single} \cup P.dble

(* The assignments that a solver does not exclude. *)
Allows(s, a) == /\ \A c \in s.clauses : Holds(c, a)
                /\ \A l \in s.units : Holds({l}, a)

(* The negations of the literals of c can be the decisions of an attempt:  *)
(* tryAssignment found no conflict.                                        *)
Decidable(s, c) ==
  ~ Contradictory(Closure(s.clauses, s.units \cup {Neg(l) : l \in c}))
-----------------------------------------------------------------------------
Unborn == [clauses |-> Initial, units |-> {}, ok |-> TRUE]

Init ==
  /\ solutions \in Solutions
  /\ found = {} /\ left = solutions /\ good = [p \in Procs |-> FALSE]
  /\ block \in Blocks /\ minimize \in Modes
  /\ file = <<>>
  /\ pc = [p \in Procs |-> "off"]
  /\ solver = [p \in Procs |-> Unborn]
  /\ single = [p \in Procs |-> {}]
  /\ dble = [p \in Procs |-> {}]
  /\ want = [p \in Procs |-> 0]
  /\ buf = [p \in Procs |-> <<>>]
  /\ todo = [p \in Procs |-> {}]
  /\ push = [p \in Procs |-> FALSE]
  /\ written = [p \in Procs |-> 0]

(* The constructor of ClauseExchange truncates the file. *)
Start(p) ==
  /\ pc[p] = "off"
  /\ pc' = [pc EXCEPT ![p] = "attempt"]
  /\ file' = <<>>
  /\ UNCHANGED <<fixed, success, solver, locals>>

(* An attempt failed: reset() adds the negation of the decisions that are  *)
(* to blame, with which no solution that the process knows to be possible  *)
(* agrees, and when that leaves no assignment doallpairs returns 1, or 0   *)
(* if it has a solution.                                                   *)
WithoutSolution(p) == IF good[p] THEN "answered" ELSE "unsat"

AttemptFails(p) ==
  /\ pc[p] = "attempt"
  /\ \E c \in {c \in Lessons : Decidable(solver[p], c)} :
       /\ \A a \in solutions : Allows(solver[p], a) => Holds(c, a)
       /\ solver' = [solver EXCEPT ![p] = AddClause(@, c)]
  /\ pc' = [pc EXCEPT ![p] = IF solver'[p].ok THEN @ ELSE WithoutSolution(p)]
  /\ UNCHANGED <<fixed, success, file, locals>>

(* An attempt found a solution that agrees with its decisions (a hole that *)
(* was left to the finder may have any value).  Without minvarHole that    *)
(* ends the process; with it, resetForMinimize adds the negation of the    *)
(* decisions, like after a failure, then what excludes the solution and    *)
(* what is no better, and the process goes on.                             *)
AttemptSucceeds(p) ==
  /\ pc[p] = "attempt"
  /\ solver[p].ok
  /\ \E c \in {c \in Lessons : Decidable(solver[p], c)} :
       \E a \in {a \in solutions : ~ Holds(c, a)} :
         /\ found' = found \cup {a}
         /\ \/ /\ minimize
               /\ left' = {b \in left : Holds(c, b) /\ Better(b, a)}
               /\ solver' = [solver EXCEPT ![p] = AddClause(@, c)]
               /\ todo' = [todo EXCEPT ![p] = Excluding(a)]
               /\ pc' = [pc EXCEPT ![p] = "exclude"]
            \/ /\ ~ minimize
               /\ pc' = [pc EXCEPT ![p] = "answered"]
               /\ UNCHANGED <<left, solver, todo>>
  /\ good' = [good EXCEPT ![p] = TRUE]
  /\ UNCHANGED <<fixed, file, sets, input, output>>

(* doallpairs returns 0 when resetForMinimize leaves no assignment. *)
Excluded(p) ==
  /\ pc[p] = "exclude"
  /\ todo[p] = {}
  /\ pc' = [pc EXCEPT ![p] = IF solver[p].ok THEN "attempt" ELSE "answered"]
  /\ UNCHANGED <<fixed, success, file, solver, locals>>

(* The solver became unsatisfiable while clauses were read.  The next      *)
(* attempt asserts the first harness, and isDone() ends the loop over the  *)
(* harnesses with the result of that one.                                  *)
AttemptCutShort(p) ==
  /\ pc[p] = "attempt"
  /\ ~ solver[p].ok
  /\ \E end \in {"answered", WithoutSolution(p)} : pc' = [pc EXCEPT ![p] = end]
  /\ UNCHANGED <<fixed, success, file, solver, locals>>

(* exchange: analyzeLocal, then fopen and the buffer of readInfile.  Every *)
(* attempt of a process whose solver is unsatisfiable ends it, so none     *)
(* comes here again.                                                       *)
BufSize(P) == IF Size(P) * 3 < MinBuf THEN MinBuf ELSE Size(P) * 3

Exchange(p) ==
  /\ pc[p] = "attempt"
  /\ solver[p].ok
  /\ LET P == Shareable(solver[p])
     IN  /\ single' = [single EXCEPT ![p] = P.single]
         /\ dble' = [dble EXCEPT ![p] = P.dble]
         /\ want' = [want EXCEPT ![p] = BufSize(P)]
         /\ push' = [push EXCEPT ![p] = P.single # {} \/ P.dble # {}]
  /\ pc' = [pc EXCEPT ![p] = "read"]
  /\ UNCHANGED <<fixed, success, file, solver, buf, todo, written>>

(* One block of an fread: the file is not locked and may have changed      *)
(* since the block before.                                                 *)
NextBlock(p) ==
  LET end == Len(buf[p]) + block
  IN  SubSeq(file, Len(buf[p]) + 1, IF end < Len(file) THEN end ELSE Len(file))

ReadBlock(p) ==
  /\ pc[p] \in {"read", "rest"}
  /\ Len(buf[p]) < want[p]
  /\ NextBlock(p) # <<>>
  /\ buf' = [buf EXCEPT ![p] = @ \o NextBlock(p)]
  /\ UNCHANGED <<fixed, success, file, pc, solver, sets, want, todo, output>>

(* fread returns: it has what it asked for, or the file has no more.       *)
(* rsize is what the first fread returned, and realsize what the two sizes *)
(* in front of the file say.                                               *)
Returned(p) == Len(buf[p]) >= want[p] \/ NextBlock(p) = <<>>
RSize(p) == IF Len(buf[p]) < want[p] THEN Len(buf[p]) ELSE want[p]

(* Bug: whatever fread returned is a message. *)
SizeUntested(p) == RSize(p)

RealSize(p) == SizeOf(Cardinality(buf[p][1].single),
                      Cardinality(buf[p][2].dble))

(* The buffer is full and the file goes on. *)
NeedsRest(p) == RSize(p) >= 3 /\ RSize(p) < RealSize(p) /\ RSize(p) = want[p]

(* The whole file has arrived. *)
Arrived(p) == \/ pc[p] = "read" /\ RSize(p) >= 3 /\ RSize(p) = RealSize(p)
              \/ pc[p] = "rest" /\ Len(buf[p]) >= RealSize(p)

(* The ints of the message were all written by one pushOutfile. *)
OneWrite(p) == \A i \in 1 .. RealSize(p) :
                 i <= Len(buf[p]) /\ buf[p][i] = buf[p][1]

(* readInfile is over; its buffer goes away. *)
Forget(p) == /\ want' = [want EXCEPT ![p] = 0]
             /\ buf' = [buf EXCEPT ![p] = <<>>]

AfterRead(p) == IF push[p] THEN "open" ELSE "attempt"

ReadMore(p) ==
  /\ pc[p] = "read"
  /\ Returned(p)
  /\ NeedsRest(p)
  /\ pc' = [pc EXCEPT ![p] = "rest"]
  /\ want' = [want EXCEPT ![p] = RealSize(p)]
  /\ UNCHANGED <<fixed, success, file, solver, sets, buf, todo, output>>

(* Too few ints, or too many: "Nothing read", "Corrupted".                 *)
Reject(p) ==
  /\ pc[p] \in {"read", "rest"}
  /\ Returned(p)
  /\ ~ Arrived(p)
  /\ pc[p] = "read" => ~ NeedsRest(p)
  /\ Forget(p)
  /\ pc' = [pc EXCEPT ![p] = AfterRead(p)]
  /\ UNCHANGED <<fixed, success, file, solver, sets, todo, output>>

(* The clauses of a publication that the exchanger of p does not have.     *)
(* Bug: the literals of the binary clauses are read as units.              *)
NewsOneByOne(p, P) ==
  {{l} : l \in (P.single \cup UNION P.dble) \ single[p]}

News(p, P) == {{l} : l \in P.single \ single[p]} \cup (P.dble \ dble[p])

Take(p, P) ==
  /\ single' = [single EXCEPT ![p] = @ \cup P.single]
  /\ dble' = [dble EXCEPT ![p] = @ \cup P.dble]
  /\ todo' = [todo EXCEPT ![p] = News(p, P)]
  /\ pc' = [pc EXCEPT ![p] = "add"]

Accept(p) ==
  /\ pc[p] \in {"read", "rest"}
  /\ Returned(p)
  /\ Arrived(p)
  /\ OneWrite(p)
  /\ Take(p, buf[p][1])
  /\ Forget(p)
  /\ UNCHANGED <<fixed, success, file, solver, output>>

(* The ints come from several writes.  The checksum is a sum, so they may  *)
(* have the right one by chance.  What the process believes then may be    *)
(* anything; the model ends there.                                         *)
ChecksumFails(p) ==
  /\ pc[p] \in {"read", "rest"}
  /\ Returned(p)
  /\ Arrived(p)
  /\ ~ OneWrite(p)
  /\ Forget(p)
  /\ pc' = [pc EXCEPT ![p] = AfterRead(p)]
  /\ UNCHANGED <<fixed, success, file, solver, sets, todo, output>>

AcceptMixed(p) ==
  /\ pc[p] \in {"read", "rest"}
  /\ Returned(p)
  /\ Arrived(p)
  /\ ~ OneWrite(p)
  /\ pc' = [q \in Procs |-> "misled"]
  /\ UNCHANGED <<fixed, success, file, solver, locals>>

(* addHelperClause for each clause, the units first.  One vector serves    *)
(* all binary clauses that were read, and addClause removes the literals   *)
(* that are false from the vector itself: it is one element short then.    *)
Shortens(p, c) == /\ pc[p] = "add"
                  /\ solver[p].ok
                  /\ c \cap solver[p].units = {}
                  /\ Open(solver[p], c) # c

Add(p) ==
  /\ pc[p] \in {"add", "exclude"}
  /\ \E c \in todo[p] :
       /\ Cardinality(c) = 1 \/ \A d \in todo[p] : Cardinality(d) # 1
       /\ solver' = [solver EXCEPT ![p] = AddClause(@, c)]
       /\ todo' = [todo EXCEPT ![p] = @ \ {c}]
       /\ pc' = [pc EXCEPT ![p] = IF Shortens(p, c) /\ solver'[p].ok
                                  THEN "short" ELSE @]
  /\ UNCHANGED <<fixed, success, file, sets, input, output>>

(* The next clause is then added without its second literal.               *)
AddShort(p) ==
  /\ pc[p] = "short"
  /\ todo[p] # {}
  /\ pc' = [q \in Procs |-> "cut"]
  /\ UNCHANGED <<fixed, success, file, solver, locals>>

Added(p) ==
  /\ pc[p] \in {"add", "short"}
  /\ todo[p] = {}
  /\ pc' = [pc EXCEPT ![p] = AfterRead(p)]
  /\ UNCHANGED <<fixed, success, file, solver, locals>>

(* pushOutfile: fopen truncates the file, the blocks follow. *)
OpenWrite(p) ==
  /\ pc[p] = "open"
  /\ file' = <<>>
  /\ pc' = [pc EXCEPT ![p] = "write"]
  /\ UNCHANGED <<fixed, success, solver, sets, input, todo, output>>

LastOf(p) == LET all == Size(Publication(p))
             IN  IF written[p] + block < all THEN written[p] + block ELSE all

WriteBlock(p) ==
  /\ pc[p] = "write"
  /\ file' = [i \in 1 .. (IF LastOf(p) < Len(file) THEN Len(file)
                           ELSE LastOf(p)) |->
                IF i \in (written[p] + 1) .. LastOf(p) THEN Publication(p)
                ELSE IF i <= Len(file) THEN file[i] ELSE Gap]
  /\ \/ /\ LastOf(p) < Size(Publication(p))
        /\ written' = [written EXCEPT ![p] = LastOf(p)]
        /\ UNCHANGED <<pc, push>>
     \/ /\ LastOf(p) = Size(Publication(p))
        /\ pc' = [pc EXCEPT ![p] = "attempt"]
        /\ written' = [written EXCEPT ![p] = 0]
        /\ push' = [push EXCEPT ![p] = FALSE]
  /\ UNCHANGED <<fixed, success, solver, sets, input, todo>>

(* The process is killed, or ends because it has no attempt left; only     *)
(* what it wrote remains.                                                  *)
Kill(p) ==
  /\ pc[p] \notin Ended \cup {"off"}
  /\ pc' = [pc EXCEPT ![p] = "killed"]
  /\ solver' = [solver EXCEPT ![p] = Unborn]
  /\ single' = [single EXCEPT ![p] = {}]
  /\ dble' = [dble EXCEPT ![p] = {}]
  /\ Forget(p)
  /\ todo' = [todo EXCEPT ![p] = {}]
  /\ push' = [push EXCEPT ![p] = FALSE]
  /\ written' = [written EXCEPT ![p] = 0]
  /\ good' = [good EXCEPT ![p] = FALSE]
  /\ UNCHANGED <<fixed, found, left, file>>

Attempt(p) == \/ AttemptFails(p) \/ AttemptSucceeds(p) \/ Excluded(p)
              \/ AttemptCutShort(p)

Read(p) == \/ ReadBlock(p) \/ ReadMore(p) \/ Reject(p) \/ Accept(p)
           \/ ChecksumFails(p) \/ AcceptMixed(p)
           \/ Add(p) \/ AddShort(p) \/ Added(p)

Write(p) == OpenWrite(p) \/ WriteBlock(p)

Next == \E p \in Procs : \/ Start(p) \/ Attempt(p) \/ Exchange(p)
                         \/ Read(p) \/ Write(p) \/ Kill(p)

Spec == Init /\ [][Next]_vars
-----------------------------------------------------------------------------
Solvers == [clauses : SUBSET Clauses, units : SUBSET Lits, ok : BOOLEAN]

TypeOK ==
  /\ solutions \in Solutions
  /\ found \subseteq solutions /\ left \subseteq solutions
  /\ good \in [Procs -> BOOLEAN]
  /\ block \in Blocks /\ minimize \in Modes
  /\ file \in Seq(Publications)
  /\ pc \in [Procs -> Places]
  /\ solver \in [Procs -> Solvers]
  /\ single \in [Procs -> SUBSET Lits]
  /\ dble \in [Procs -> SUBSET Pairs]
  /\ want \in [Procs -> Nat]
  /\ buf \in [Procs -> Seq(Publications)]
  /\ todo \in [Procs -> SUBSET Clauses]
  /\ push \in [Procs -> BOOLEAN]
  /\ written \in [Procs -> Nat]

(* As long as no process took the ints of several writes for one message,  *)
(* and none added a clause of which a literal was lost on the way, what    *)
(* every process believes holds for all solutions that are still to be     *)
(* found, those better than every one found and covered by no successful   *)
(* concretization: ClauseExchange hands clauses from one solver to another *)
(* although a process may read while another truncates and rewrites the    *)
(* file.                                                                   *)
KnowledgeSound ==
  ~ Misled => \A p \in Procs :
               /\ \A c \in solver[p].clauses \cup todo[p] : Entailed(c)
               /\ \A l \in solver[p].units : Entailed({l})

(* A process whose global solver is unsatisfiable, by clauses of its own   *)
(* or by those of others, has no solution left to find: "the               *)
(* concretizations we have tried cover the set of all solutions"           *)
(* (HoleHardcoder.h).  It may return 1, and it may even return 0 without a *)
(* candidate (isDone in the loop over the harnesses), but then the sketch  *)
(* has no solution or one was found.                                       *)
DoneJustified ==
  ~ Misled => \A p \in Procs : ~ solver[p].ok \/ pc[p] = "unsat" =>
                 left = {} /\ (found = {} => solutions = {})

(* "Keep trying to see if a better solution is possible": what a process   *)
(* believes holds for every solution that is better than all that were     *)
(* found, since "the set of satisfying assignments corresponds to all      *)
(* assignments that are not known to be bad" (HoleHardcoder.h).            *)
BetterKept ==
  ~ Misled => \A a \in solutions : (\A b \in found : Better(a, b)) =>
                 \A p \in Procs : Allows(solver[p], a)

(* When every message fits in a block of the library, no process takes     *)
(* what several writers have left for one: a shorter message over the rest *)
(* of a longer one is rejected by the sizes in front.                      *)
WholeMessages ==
  MostInts <= block => \A p \in Procs : pc[p] # "misled"

(* What a process shares never becomes weaker: each clause it had or       *)
(* received at one exchange is implied by one that it shares at the next,  *)
(* so a publication that another process has overwritten comes back.       *)
PublicationsGrow ==
  [][\A p \in Procs : pc[p] = "attempt" /\ pc'[p] = "read" =>
       \A c \in ClausesOf(Publication(p)) :
         \E d \in ClausesOf(Publication(p)') : d \subseteq c]_vars
=============================================================================
