------------------------------- MODULE Solver -------------------------------
(***************************************************************************)
(* The SAT solver of the synthesizer: MiniSat's Solver.cpp with the        *)
(* at-most-one-false clauses (SINGLESET) and the three ways of trying a    *)
(* literal that were added to it, driven through MiniSATSolver.            *)
(*                                                                         *)
(* A job is a sequence of calls: clauses of three kinds, attempts to set a *)
(* literal, reset and solve.  Propagation is a step per clause visited,    *)
(* analysis a step per clause resolved, so that what each relies on can be *)
(* stated in between.                                                      *)
(*                                                                         *)
(* Activities and the random seed only order decisions and deletions: any  *)
(* open variable may be decided, any clause that reduceDB may take can go. *)
(* The theory clauses (INTSPECIAL, SPECIALFUN) are not modelled.           *)
(***************************************************************************)
EXTENDS Integers, Sequences, FiniteSets, Functions

CONSTANTS
  Vars,          \* the propositional variables, numbers
  Jobs,          \* the jobs: [vars, calls]
  Cutoffs,       \* what -lightverif may be set to: decisions, 40000 by default
  RestartFirst,  \* bound: conflicts before the first restart, 200 in the code
  MaxRestarts,   \* bound: no restart after that many
  LearntLimit,   \* bound: learnt clauses before reduceDB, 1000 in the code
  MaxPicks       \* bound: decisions that do not take the least variable

Lits == Vars \X BOOLEAN
Neg(l) == <<l[1], ~ l[2]>>
ToInt(l) == 2 * l[1] + (IF l[2] THEN 0 ELSE 1)

Attempts == {"try", "assert", "check"}
Ops == Attempts \cup {"clause", "single", "pair", "light", "reset", "pop",
                      "solve"}
(* Single sets have at least three literals ("sz>2").  Bound: the two of a  *)
(* pair differ.                                                            *)
WellFormed(c) ==
  /\ c.op \in Attempts => Len(c.lits) = 1
  /\ c.op = "pair" => Len(c.lits) = 2 /\ c.lits[1] # c.lits[2]
  /\ c.op = "single" => Len(c.lits) > 2

ASSUME VarsAssumption == IsFiniteSet(Vars) /\ Vars \subseteq Nat
ASSUME JobsAssumption ==
  \A j \in Jobs :
    /\ j.vars \subseteq Vars
    /\ j.calls \in Seq([op : Ops, lits : Seq(j.vars \X BOOLEAN)])
    /\ \A i \in DOMAIN j.calls : WellFormed(j.calls[i])
ASSUME BoundsAssumption ==
  /\ {RestartFirst, MaxRestarts, MaxPicks} \subseteq Nat
  /\ Cutoffs \subseteq Nat \ {0}
  /\ LearntLimit \in Int

VARIABLES
  used,       \* the variables of the job
  ok,         \* FALSE when the clauses are known to have no model
  clauses,    \* id -> [lits, kind], the literals in the order the code has
  next,       \* the id of the next clause
  watches,    \* the clauses to visit when a literal becomes true
  trail,      \* [lit, why, level]: why is the clause that forced it, 0 for
              \* NULL, level its decision level
  lim,        \* trail_lim: the length of the trail when a level was opened
  qhead,      \* the literals up to here are propagated
  at,         \* where propagate is in the list of the next one
  simplified, \* simpDB_assigns
  phase,      \* polarity
  calls,      \* the calls of the job still to come
  cutoff,     \* decisions after which solve gives up, 0 for never
  pc,         \* where the present call stands, "call" between two calls
  call,       \* the present call: [op, lits], its result so far in "good"
  work,       \* what analyze() has: the clause to absorb, its id, the index
              \* into the trail, the variables seen, the literals put out
  marks,      \* the levels to which popCheckIfPossible goes back
  count,      \* [conflicts, restarts, decisions] of the present solve
  picks,      \* free decisions made in the job
  assumed, answer, model,  \* of the present or last solve
  given,      \* history: what the clauses added so far say
  reply,      \* history: the last attempt [op, lit, before, good]; before are
              \* the guesses that were held when it began
  slips       \* history: what was done that may lose something the clauses
              \* say: "rushed", "exposed", "givenUp", "mistaken", "revived"

database == <<clauses, next, watches>>
assignment == <<trail, lim, qhead, at>>
solving == <<count, picks>>
outcome == <<assumed, answer, model>>
vars == <<used, ok, database, assignment, simplified, phase, calls, cutoff,
          pc, call, work, marks, solving, outcome, given, reply, slips>>

---------------------------------------------------------------------------
(* Sequences.                                                              *)

(* The elements of S in the order of their keys. *)
Sorted(S, key) ==
  [n \in 1 .. Cardinality(S) |->
     CHOOSE x \in S : Cardinality({y \in S : key[y] <= key[x]}) = n]
(* The elements of q at the places P, in their order. *)
Chosen(q, P) ==
  LET places == Sorted(P, [i \in P |-> i])
  IN  [n \in DOMAIN places |-> q[places[n]]]
Without(q, i) == [n \in 1 .. Len(q) - 1 |-> IF n < i THEN q[n] ELSE q[n + 1]]
Swap(q, i, j) == [q EXCEPT ![i] = q[j], ![j] = q[i]]
Least(S) == CHOOSE i \in S : \A j \in S : i <= j
Greatest(S) == CHOOSE i \in S : \A j \in S : j <= i
LitsInOrder(S) == Sorted(S, [l \in S |-> ToInt(l)])
(* The literals of q in order, each as often as q has it. *)
InOrder(q) ==
  LET places == Sorted(DOMAIN q, [i \in DOMAIN q |-> ToInt(q[i]) * Len(q) + i])
  IN  [n \in DOMAIN q |-> q[places[n]]]

(* The assignment.                                                         *)
IsTrue(l) == \E i \in DOMAIN trail : trail[i].lit = l
IsFalse(l) == IsTrue(Neg(l))
IsOpen(l) == ~ IsTrue(l) /\ ~ IsFalse(l)
Assigned == {trail[i].lit[1] : i \in DOMAIN trail}
Place(v) == CHOOSE i \in DOMAIN trail : trail[i].lit[1] = v
Level(v) == trail[Place(v)].level
Why(v) == trail[Place(v)].why
CurrentLevel == Len(lim)
IsGuess(i) == trail[i].level > 0 /\ trail[i].why = 0

Entry(l, why, level) == [lit |-> l, why |-> why, level |-> level]
Enqueue(l, why) == trail' = Append(trail, Entry(l, why, CurrentLevel))
Entries(q, why) == [n \in DOMAIN q |-> Entry(q[n], why, CurrentLevel)]
EnqueueAll(q, why) == trail' = trail \o Entries(q, why)

TrailUpTo(n) == IF CurrentLevel <= n THEN trail ELSE SubSeq(trail, 1, lim[n + 1])
LimUpTo(n) == IF CurrentLevel <= n THEN lim ELSE SubSeq(lim, 1, n)
(* Bug: qhead stays where it is. *)
QheadNotReset(n) == qhead
QheadUpTo(n) == IF CurrentLevel <= n THEN qhead ELSE lim[n + 1]
CancelUntil(n) ==
  /\ trail' = TrailUpTo(n) /\ lim' = LimUpTo(n) /\ qhead' = QheadUpTo(n)
  /\ at' = 1

(* A clause watches its first two literals, a single set all but its last. *)
Watched(c) == {c.lits[i] : i \in 1 .. IF c.kind = "single"
                                      THEN Len(c.lits) - 1 ELSE 2}
Attached(lists, id, c) ==
  [l \in Lits |-> IF Neg(l) \in Watched(c) THEN Append(lists[l], id)
                  ELSE lists[l]]
NewClause(lits, kind) ==
  LET c == [lits |-> lits, kind |-> kind]
  IN  /\ clauses' = [i \in DOMAIN clauses \cup {next} |->
                       IF i = next THEN c ELSE clauses[i]]
      /\ next' = next + 1
      /\ watches' = Attached(watches, next, c)

---------------------------------------------------------------------------
(* The calls.                                                              *)
NoCall == [op |-> "none", lits |-> << >>, good |-> TRUE]
NoReply == [op |-> "none", lit |-> << >>, before |-> {}, good |-> TRUE]
NoWork == [clause |-> << >>, id |-> 0, index |-> 0, seen |-> {},
           out |-> << >>]
Begin(op, lits) == [op |-> op, lits |-> lits, good |-> TRUE]
During(op) == call.op = op
Lit == call.lits[1]

Init == /\ \E j \in Jobs : used = j.vars /\ calls = j.calls
        /\ ok = TRUE /\ clauses = << >> /\ next = 1
        /\ watches = [l \in Lits |-> << >>]
        /\ trail = << >> /\ lim = << >> /\ qhead = 0 /\ at = 1
        /\ simplified = -1
        /\ phase = [v \in Vars |-> FALSE]
        /\ cutoff = 0
        /\ pc = "call" /\ call = NoCall /\ work = NoWork /\ marks = << >>
        /\ count = [conflicts |-> 0, restarts |-> 0, decisions |-> 0]
        /\ picks = 0
        /\ assumed = {} /\ answer = "none"
        /\ model = [v \in Vars |-> FALSE]
        /\ given = {} /\ reply = NoReply /\ slips = {}

NextCall(op) == /\ pc = "call" /\ calls # << >> /\ Head(calls).op = op
                /\ calls' = Tail(calls)
Args == Head(calls).lits

(* What a call that adds says to someone who does not know the solver.     *)
Pairs(lits) == {{lits[p[1]], lits[p[2]]} :
                  p \in {r \in (DOMAIN lits) \X (DOMAIN lits) : r[1] < r[2]}}
Says(c) == IF c.op = "single" THEN Pairs(c.lits) ELSE {Range(c.lits)}

(* "assert(decisionLevel() == 0)": clauses are added between attempts.     *)
Adds(op) ==
  /\ NextCall(op) /\ CurrentLevel = 0
  /\ given' = given \cup Says(Head(calls))
  /\ answer' = "none" /\ reply' = NoReply
  /\ UNCHANGED <<used, lim, qhead, at, simplified, phase, cutoff, work,
                 marks, solving, assumed, model>>

UnchangedCall == UNCHANGED <<pc, call>>
AddsNothing == UNCHANGED <<ok, database, trail, pc, call>>

(* What is left of a clause: nothing, a fact ("assert(value(ps[0]) ==      *)
(* l_Undef)"), or a clause to watch, after some literals were enqueued.    *)
Settle(lits, kind, twice) ==
  \/ /\ Len(lits) = 0
     /\ ok' = FALSE
     /\ UNCHANGED <<database, trail>> /\ UnchangedCall
  \/ /\ Len(lits) = 1 /\ twice = << >>
     /\ Enqueue(lits[1], 0)
     /\ call' = Begin("fact", lits) /\ pc' = "propagate"
     /\ UNCHANGED <<ok, database>>
  \/ /\ Len(lits) > 1
     /\ EnqueueAll(twice, 0)
     /\ NewClause(lits, IF kind = "single" /\ Len(lits) > 2 THEN "single"
                        ELSE "clause")
     /\ UNCHANGED ok /\ UnchangedCall

(* addClause(): without the false literals, sorted, each once.             *)
AddAClause ==
  /\ Adds("clause")
  /\ UNCHANGED slips
  /\ LET L == Range(Args)
     IN  IF ~ ok \/ \E l \in L : IsTrue(l) \/ Neg(l) \in L
         THEN AddsNothing
         ELSE Settle(LitsInOrder({l \in L : ~ IsFalse(l)}), "clause", << >>)

(* addClause(SINGLESET): true literals are dropped, one that occurs twice  *)
(* is forced, a false one forces the others, and so does a literal next to *)
(* its opposite: all that are kept but the last, and all that follow.      *)
ForceAll(twice, q) ==
  LET bad == {k \in DOMAIN q : \/ IsFalse(q[k])
                               \/ Neg(q[k]) \in Range(twice)
                               \/ \E i \in 1 .. k - 1 : q[i] = Neg(q[k])}
      fresh == {k \in DOMAIN q : /\ \A i \in bad : k < i
                                 /\ IsOpen(q[k]) /\ q[k] \notin Range(twice)
                                 /\ \A i \in 1 .. k - 1 : q[i] # q[k]}
  IN  /\ EnqueueAll(twice \o Chosen(q, fresh), 0)
      /\ ok' = (bad = {})
      /\ UNCHANGED database /\ UnchangedCall

(* With known literals this says more than the single set, when one or no  *)
(* literal is left, or less, when the last that was kept is not forced.    *)
(* (SolverHelper replaces the guards that it knows when it builds them.)   *)
AddASingle ==
  /\ Adds("single")
  /\ LET q == InOrder(Args)
         Again(k) == k > 1 /\ q[k - 1] = q[k]
         false == {k \in DOMAIN q :
                     \/ IsFalse(q[k])
                     \/ k > 1 /\ q[k - 1] = Neg(q[k]) /\ IsOpen(q[k])}
         before == {k \in DOMAIN q : IsOpen(q[k]) /\ \A i \in false : k < i}
         kept == {k \in before : ~ Again(k)}
         twice == Chosen(q, {k \in before : Again(k) /\ ~ Again(k - 1)})
         others == {k \in kept : \E i \in kept : k < i}
                   \cup {k \in DOMAIN q : \E i \in false : i < k}
         mistaken ==
           IF false = {} THEN \A i, k \in kept : i = k
           ELSE kept # {} /\ \E k \in false : /\ \A i \in false : k <= i
                                             /\ IsFalse(q[k])
     IN  /\ IF ~ ok THEN AddsNothing
            ELSE IF false = {}
              THEN Settle(Chosen(q, kept), "single", twice)
            ELSE ForceAll(twice, Chosen(q, others))
         /\ slips' = slips \cup (IF ok /\ mistaken THEN {"mistaken"} ELSE {})

(* addCNFBinary(): a unit clause is not propagated, a clause that is there *)
(* is not added again.  The shorter of the two watch lists is searched.    *)
HasPair(list, l) == \E id \in Range(list) :
                      /\ Len(clauses[id].lits) = 2
                      /\ l \in Range(clauses[id].lits)
PairIsThere(j, i) ==
  IF Len(watches[Neg(i)]) <= Len(watches[Neg(j)])
  THEN HasPair(watches[Neg(i)], j) ELSE HasPair(watches[Neg(j)], i)
Forces(l) == Enqueue(l, 0) /\ UNCHANGED <<ok, database>> /\ UnchangedCall

AddAPair ==
  /\ Adds("pair")
  /\ UNCHANGED slips
  /\ LET j == Args[1]
         i == Args[2]
     IN  IF ~ ok \/ i = Neg(j) \/ IsTrue(i) \/ IsTrue(j) THEN AddsNothing
         ELSE IF IsFalse(i) /\ IsFalse(j)
           THEN ok' = FALSE /\ UNCHANGED <<database, trail>> /\ UnchangedCall
         ELSE IF IsFalse(i) THEN Forces(j)
         ELSE IF IsFalse(j) THEN Forces(i)
         ELSE IF PairIsThere(j, i) THEN AddsNothing
         ELSE NewClause(<<i, j>>, "clause") /\ UNCHANGED <<ok, trail>>
              /\ UnchangedCall

(* lightSolve(): from now on a solve may be given up. *)
LightSolve == /\ NextCall("light")
              /\ cutoff' \in Cutoffs
              /\ UNCHANGED <<used, ok, database, assignment, simplified,
                             phase, pc, call, work, marks, given, reply, slips>>
              /\ UNCHANGED <<solving, outcome>>

(* reset() and popCheckIfPossible() take guesses back. *)
GoesBack(n) == /\ CancelUntil(n)
               /\ reply' = NoReply
               /\ UNCHANGED <<used, ok, database, simplified, phase, cutoff,
                              pc, call, work, solving, outcome, given, slips>>
Reset == NextCall("reset") /\ GoesBack(0) /\ UNCHANGED marks
PopCheck == /\ NextCall("pop") /\ marks # << >>
            /\ GoesBack(marks[Len(marks)])
            /\ marks' = SubSeq(marks, 1, Len(marks) - 1)

(* tryAssignment ("try"), assertIfPossible ("assert") and checkIfPossible  *)
(* ("check") answer at once about a literal whose value is known; only     *)
(* assertIfPossible does not look at ok.                                   *)
Guesses == {trail[i].lit : i \in {j \in DOMAIN trail : IsGuess(j)}}
Replies(op, good) ==
  reply' = [op |-> op, lit |-> Args[1], before |-> Guesses, good |-> good]
Marked(op) ==
  marks' = IF op = "check" THEN Append(marks, CurrentLevel) ELSE marks
Known(op, l) == (op # "assert" /\ ~ ok) \/ ~ IsOpen(l)

AnswerKnown ==
  \E op \in Attempts :
    /\ NextCall(op) /\ Known(op, Args[1])
    /\ Replies(op, IsTrue(Args[1]) /\ (ok \/ op = "assert"))
    /\ Marked(op)
    /\ UNCHANGED <<used, ok, database, assignment, simplified, phase, cutoff,
                   pc, call, work, solving, outcome, given, slips>>

(* Otherwise the literal is guessed, though addCNFBinary may have left     *)
(* facts that were not propagated yet.                                     *)
Attempt ==
  \E op \in Attempts :
    /\ NextCall(op) /\ ~ Known(op, Args[1])
    /\ op = "assert" => CurrentLevel = 0
    /\ lim' = Append(lim, Len(trail))
    /\ trail' = Append(trail, Entry(Args[1], 0, CurrentLevel + 1))
    /\ Replies(op, TRUE)
    /\ Marked(op)
    /\ call' = Begin(op, Args) /\ pc' = "propagate"
    /\ slips' = slips \cup (IF qhead < Len(trail) THEN {"rushed"} ELSE {})
    /\ UNCHANGED <<used, ok, database, qhead, at, simplified, phase, cutoff,
                   work, solving, outcome, given>>

---------------------------------------------------------------------------
(* propagate(): for each literal that has become true, the clauses of its  *)
(* watch list are visited in turn.                                         *)
P == trail[qhead + 1].lit
Id == watches[P][at]
C == clauses[Id]
Quiet == pc = "propagate" /\ qhead = Len(trail)
Pending == pc = "propagate" /\ qhead < Len(trail)
Reading(single) == /\ Pending /\ at <= Len(watches[P])
                   /\ (C.kind = "single") = single

UnchangedByVisit ==
  UNCHANGED <<used, ok, next, lim, simplified, phase, calls, cutoff, call,
              marks, solving, outcome, given, reply>>
Reorder(lits) == clauses' = [clauses EXCEPT ![Id].lits = lits]
Keep == /\ at' = at + 1
        /\ UNCHANGED <<watches, qhead, pc, work, slips>> /\ UnchangedByVisit
(* The clause leaves the list being read for that of another literal.      *)
Rewatch(l) ==
  watches' = [watches EXCEPT ![P] = Without(@, at), ![Neg(l)] = Append(@, Id)]
Moves(l) == /\ Rewatch(l)
            /\ UNCHANGED <<trail, qhead, at, pc, work, slips>>
            /\ UnchangedByVisit
Conflict(lits) ==
  /\ pc' = "conflict" /\ qhead' = Len(trail') /\ at' = 1
  /\ work' = [NoWork EXCEPT !.clause = lits, !.id = Id, !.index = Len(trail')]
  /\ UnchangedByVisit

NextWatchList == /\ Pending /\ at > Len(watches[P])
                 /\ qhead' = qhead + 1 /\ at' = 1
                 /\ UNCHANGED <<clauses, watches, trail, pc, work, slips>>
                 /\ UnchangedByVisit

(* "Make sure the false literal is data[1]" (here the second). *)
Turned == IF C.lits[1] = Neg(P) THEN Swap(C.lits, 1, 2) ELSE C.lits
Spare == {k \in 3 .. Len(C.lits) : ~ IsFalse(C.lits[k])}

VisitTrue == /\ Reading(FALSE) /\ IsTrue(Turned[1])
             /\ Reorder(Turned)
             /\ Keep /\ UNCHANGED trail
VisitMoves == /\ Reading(FALSE) /\ ~ IsTrue(Turned[1]) /\ Spare # {}
              /\ Reorder(Swap(Turned, 2, Least(Spare)))
              /\ Moves(C.lits[Least(Spare)])
VisitForces == /\ Reading(FALSE) /\ IsOpen(Turned[1]) /\ Spare = {}
               /\ Reorder(Turned)
               /\ Enqueue(Turned[1], Id)
               /\ Keep
VisitFails == /\ Reading(FALSE) /\ IsFalse(Turned[1]) /\ Spare = {}
              /\ Reorder(Turned)
              /\ UNCHANGED <<watches, trail, slips>>
              /\ Conflict(Turned)

(* A single set at level zero: the other literals become true, for good.   *)
(* The list loses the clause when there is a conflict.                     *)
(* Bug: the literal that is not watched is not looked at. *)
SecondWatched == {k \in 1 .. Len(C.lits) - 1 :
                    C.lits[k] # Neg(P) /\ IsFalse(C.lits[k])}
Second == {k \in DOMAIN C.lits : C.lits[k] # Neg(P) /\ IsFalse(C.lits[k])}
OpenOnes == {k \in DOMAIN C.lits : IsOpen(C.lits[k])}

VisitSettles == /\ Reading(TRUE) /\ CurrentLevel = 0 /\ Second = {}
                /\ EnqueueAll(Chosen(C.lits, OpenOnes), Id)
                /\ Keep /\ UNCHANGED clauses
VisitRefutes ==
  /\ Reading(TRUE) /\ CurrentLevel = 0 /\ Second # {}
  /\ EnqueueAll(Chosen(C.lits, {k \in OpenOnes : k < Least(Second)}), Id)
  /\ watches' = [watches EXCEPT ![P] = Without(@, at)]
  /\ Conflict(C.lits) /\ UNCHANGED <<clauses, slips>>

(* Above level zero the clause only looks for a second false literal: the  *)
(* two are the conflict.  Either way the literal just made false takes the *)
(* last place, which is not watched, and the one from there is.            *)
IndexOf(q, e) == CHOOSE i \in DOMAIN q : q[i] = e
Here == IndexOf(C.lits, Neg(P))
VisitSwaps ==
  /\ Reading(TRUE) /\ CurrentLevel > 0 /\ Second = {}
  /\ LET last == Len(C.lits)
     IN  Reorder(Swap(Swap(C.lits, Here, 1), 1, last)) /\ Moves(C.lits[last])

(* Bug: the other false literal may have been the unwatched one.           *)
ClashWatchesFirst(pair, k) == Swap(pair, 1, Len(pair))[1]

(* The literal that is watched from now on: the last one, unless that is   *)
(* the other false one, which stands second then.                          *)
ClashWatches(pair, k) ==
  LET new == Swap(pair, 1, Len(pair))
  IN  IF k = Len(pair) THEN new[2] ELSE new[1]

(* There may be a third false literal.  If it stays false when the         *)
(* conflict is dealt with, and is watched, its turn has passed; if it is   *)
(* the one that is not watched, the next that becomes false takes its      *)
(* place.                                                                  *)
Stale(l) == IsFalse(l) /\ Level(l[1]) < CurrentLevel
ExposedIf(b) == slips' = slips \cup (IF b THEN {"exposed"} ELSE {})

VisitClashes ==
  /\ Reading(TRUE) /\ CurrentLevel > 0 /\ Second # {}
  /\ LET k == Least(Second)
         front == IF k > Here THEN Swap(C.lits, Here, 1) ELSE C.lits
         second == Swap(front, k, 2)
         pair == Swap(second, IndexOf(second, Neg(P)), 1)
     IN  /\ Reorder(Swap(pair, 1, Len(pair)))
         /\ Rewatch(ClashWatches(pair, k))
         /\ UNCHANGED trail
         /\ Conflict(SubSeq(pair, 1, 2))
         /\ ExposedIf(\E i \in 3 .. Len(pair) : Stale(pair[i]))

(* The unit clause that a call added has been propagated. *)
AddFinished == /\ Quiet /\ During("fact")
               /\ pc' = "call" /\ call' = NoCall
               /\ UNCHANGED <<used, ok, database, assignment, simplified,
                              phase, calls, cutoff, work, marks, solving,
                              outcome, given, reply, slips>>
AddRefutes == /\ pc = "conflict" /\ During("fact")
              /\ ok' = FALSE
              /\ pc' = "call" /\ call' = NoCall /\ work' = NoWork
              /\ UNCHANGED <<used, database, assignment, simplified, phase,
                             calls, cutoff, marks, solving, outcome, given,
                             reply, slips>>

---------------------------------------------------------------------------
(* analyze(): the literals of the present level are replaced by their      *)
(* reasons, the last one of the trail first, until only one is left, the   *)
(* first unique implication point; those of lower levels are put out.      *)
(* (An attempt begun before the facts were propagated may have a conflict  *)
(* without a literal of its level; the code then reads before the trail,   *)
(* and this model stops.)                                                  *)
Analyzing == pc = "conflict" /\ call.op \in {"try", "solve"} /\ CurrentLevel > 0
Fresh == {k \in DOMAIN work.clause : /\ work.clause[k][1] \notin work.seen
                                     /\ Level(work.clause[k][1]) > 0}
Lower == Chosen(work.clause,
                {k \in Fresh : Level(work.clause[k][1]) < CurrentLevel})
Seen == work.seen \cup {work.clause[k][1] : k \in Fresh}
Present == {i \in lim[CurrentLevel] + 1 .. work.index : trail[i].lit[1] \in Seen}
Uip == Greatest(Present)
Out == work.out \o Lower

Resolve ==
  /\ Analyzing
  /\ \E i \in Present : i # Uip
  /\ work' = [work EXCEPT !.clause = Tail(clauses[trail[Uip].why].lits),
                          !.index = Uip - 1, !.seen = Seen, !.out = Out]
  /\ UNCHANGED <<used, ok, database, assignment, simplified, phase, calls,
                 cutoff, pc, call, marks, solving, outcome, given, reply,
                 slips>>

(* litRedundant(): a literal is left out of the learnt clause when its     *)
(* reason, and theirs, lead to nothing but literals of the clause and      *)
(* facts.  Only variables of the levels of the clause are looked into.     *)
OutVars == {l[1] : l \in Range(Out)}
LeadsInto(w, W) ==
  /\ Why(w) # 0
  /\ \A q \in Range(Tail(clauses[Why(w)].lits)) :
       \/ q[1] \in OutVars
       \/ Level(q[1]) = 0
       \/ Level(q[1]) \in {Level(v) : v \in OutVars} /\ q[1] \in W
Redundant(v) == \E W \in SUBSET Assigned : v \in W /\ \A w \in W : LeadsInto(w, W)

(* Bug: every literal that was forced is left out. *)
KeptGuesses == Chosen(Out, {k \in DOMAIN Out : Why(Out[k][1]) = 0})
Kept == Chosen(Out, {k \in DOMAIN Out : ~ Redundant(Out[k][1])})

(* The solver goes back to the highest level of the kept literals; one of  *)
(* that level is watched, with the literal that the clause then forces.    *)
KeptLevels == {Level(l[1]) : l \in Range(Kept)}
BackLevel == IF Kept = << >> THEN 0 ELSE Greatest(KeptLevels)
Foremost == Least({k \in DOMAIN Kept : Level(Kept[k][1]) = BackLevel})
Asserting == Neg(trail[Uip].lit)
LearntClause ==
  <<Asserting>> \o (IF Kept = << >> THEN << >> ELSE Swap(Kept, 1, Foremost))

Learn ==
  /\ Analyzing
  /\ Present # {} /\ \A i \in Present : i = Uip
  /\ trail' = Append(TrailUpTo(BackLevel),
                     Entry(Asserting, IF Kept = << >> THEN 0 ELSE next,
                           BackLevel))
  /\ lim' = LimUpTo(BackLevel) /\ qhead' = QheadUpTo(BackLevel) /\ at' = 1
  /\ IF Kept = << >> THEN UNCHANGED database
     ELSE NewClause(LearntClause, "learnt")
  /\ work' = NoWork /\ pc' = "propagate"
  /\ UNCHANGED <<used, ok, simplified, phase, calls, cutoff, marks, outcome,
                 given, slips>>

---------------------------------------------------------------------------
(* How the attempts end.                                                   *)
Finish(good) == /\ pc' = "call" /\ call' = NoCall /\ work' = NoWork
                /\ reply' = [reply EXCEPT !.good = good]
UnchangedInAttempt ==
  UNCHANGED <<used, database, simplified, phase, calls, cutoff, marks,
              solving, assumed, model>>
Ends(good) == /\ Finish(good)
              /\ UnchangedInAttempt
              /\ UNCHANGED <<ok, assignment, answer, given, slips>>

TrySucceeds == Quiet /\ During("try") /\ Ends(call.good)

(* Bug: after learning the literal counts as possible. *)
TryGoesOn == /\ During("try") /\ Learn
             /\ UNCHANGED <<call, solving, reply>>

(* A conflict: learn from it and propagate again; the answer will be no.   *)
TryBacktracks == /\ During("try") /\ Learn
                 /\ call' = [call EXCEPT !.good = FALSE]
                 /\ UNCHANGED <<solving, reply>>

(* The literal and what follows from it become facts. *)
AssertSucceeds == /\ Quiet /\ During("assert")
                  /\ trail' = [i \in DOMAIN trail |->
                                 [trail[i] EXCEPT !.level = 0]]
                  /\ lim' = << >>
                  /\ given' = given \cup {{Lit}}
                  /\ answer' = "none"
                  /\ Finish(TRUE)
                  /\ UnchangedInAttempt /\ UNCHANGED <<ok, qhead, at, slips>>

(* Nothing is learnt from a conflict here: a single set may be left with   *)
(* the false literal that it had before as the one that it watches.        *)
LeavesExposed == ExposedIf(/\ clauses[work.id].kind = "single"
                           /\ Level(work.clause[2][1]) < CurrentLevel)

AssertFails == /\ pc = "conflict" /\ During("assert")
               /\ trail' = Append(TrailUpTo(0), Entry(Neg(Lit), 0, 0))
               /\ lim' = << >> /\ qhead' = QheadUpTo(0) /\ at' = 1
               /\ call' = [call EXCEPT !.op = "denied"]
               /\ pc' = "propagate" /\ work' = NoWork
               /\ LeavesExposed
               /\ UnchangedInAttempt /\ UNCHANGED <<ok, answer, given, reply>>

(* "ok = (propagate()==NULL)": the opposite is a fact, and ok is TRUE when  *)
(* nothing speaks against it, though it may have been FALSE when the       *)
(* attempt began.                                                          *)
Denied == /\ Quiet /\ During("denied")
          /\ ok' = TRUE
          /\ slips' = slips \cup (IF ok THEN {} ELSE {"revived"})
          /\ Finish(FALSE)
          /\ UnchangedInAttempt /\ UNCHANGED <<assignment, answer, given>>

CheckSucceeds == Quiet /\ During("check") /\ Ends(TRUE)

CheckFails == /\ pc = "conflict" /\ During("check")
              /\ CancelUntil(marks[Len(marks)])
              /\ LeavesExposed
              /\ Finish(FALSE)
              /\ UnchangedInAttempt /\ UNCHANGED <<ok, answer, given>>

(* A conflict at level zero ends the attempt, and the solver. *)
AttemptRefutes == /\ pc = "conflict" /\ call.op \in {"try", "denied"}
                  /\ CurrentLevel = 0
                  /\ ok' = FALSE
                  /\ Finish(FALSE)
                  /\ UnchangedInAttempt
                  /\ UNCHANGED <<assignment, answer, given, slips>>

---------------------------------------------------------------------------
(* Dropping clauses.  simplifyAndCompact drops what is true for good and   *)
(* attaches the rest anew, learnt clauses first; a single set counts as    *)
(* true when all its literals are known.  It only looks when the number of *)
(* facts has changed, and not before enough was propagated since last time.*)
(* Bug: one true literal satisfies a single set too. *)
SatisfiedByOne(c) == \E l \in Range(c.lits) : IsTrue(l)

Satisfied(c) == IF c.kind = "single" THEN \A l \in Range(c.lits) : ~ IsOpen(l)
                ELSE \E l \in Range(c.lits) : IsTrue(l)

Staying == {i \in DOMAIN clauses : ~ Satisfied(clauses[i])}
Rank(c) == IF c.kind # "learnt" THEN 2 ELSE IF Len(c.lits) = 2 THEN 1 ELSE 0
Order == [i \in Staying |-> Rank(clauses[i]) * next + i]

Compact ==
  /\ simplified # Len(trail)
  /\ clauses' = [i \in Staying |-> clauses[i]]
  /\ watches' = [l \in Lits |->
       Sorted({i \in Staying : Neg(l) \in Watched(clauses[i])}, Order)]
  /\ simplified' = Len(trail)
  /\ UNCHANGED next
SimplifyAndCompact ==
  \/ Compact
  \/ simplified # -1 /\ UNCHANGED <<database, simplified>>

(* reduceDB: of the longer learnt clauses that are no reason of a literal, *)
(* those in the less active half go, and more when their activity is low.  *)
Learnts == {i \in DOMAIN clauses : /\ clauses[i].kind = "learnt"
                                   /\ Len(clauses[i].lits) > 2}
Locked(id) == LET first == clauses[id].lits[1]
              IN  IsTrue(first) /\ Why(first[1]) = id
Removable == {i \in Learnts : ~ Locked(i)}
Removed(S) ==
  /\ clauses' = [i \in DOMAIN clauses \ S |-> clauses[i]]
  /\ watches' = [l \in Lits |->
       Chosen(watches[l], {k \in DOMAIN watches[l] : watches[l][k] \notin S})]
  /\ UNCHANGED next
ReduceDB ==
  \E S \in SUBSET Removable : \E half \in SUBSET Learnts :
    /\ Cardinality(half) = Cardinality(Learnts) \div 2
    /\ half \cap Removable \subseteq S
    /\ Removed(S)

---------------------------------------------------------------------------
(* solve(): MiniSATSolver::solve simplifies ("tidy"), then Solver::solve   *)
(* runs search until it has a result, with a restart after every so many   *)
(* conflicts.                                                              *)
Solve ==
  /\ NextCall("solve") /\ CurrentLevel = 0
  /\ assumed' = Range(Args)
  /\ answer' = "none" /\ reply' = NoReply
  /\ call' = Begin("tidy", Args)
  /\ pc' = IF ok THEN "propagate" ELSE "refused"
  /\ count' = [conflicts |-> 0, restarts |-> 0, decisions |-> 0]
  /\ UNCHANGED <<used, ok, database, assignment, simplified, phase, cutoff,
                 work, marks, picks, model, given, slips>>

Searching == During("solve")
Answers(what) == /\ answer' = what
                 /\ pc' = "call" /\ call' = NoCall /\ work' = NoWork
UnchangedInSearch ==
  UNCHANGED <<used, calls, cutoff, marks, assumed, given, reply>>
UnchangedByAnswer == /\ UnchangedInSearch
                     /\ UNCHANGED <<database, simplified>>
UnchangedInside == /\ UnchangedInSearch
                   /\ UNCHANGED <<ok, phase, answer, model, slips>>

(* What search has found is thrown away when it took too many decisions.   *)
TooLong == Searching /\ cutoff > 0 /\ count.decisions > cutoff

Refused == /\ pc = "refused"
           /\ Answers("unsat")
           /\ UnchangedByAnswer
           /\ UNCHANGED <<ok, assignment, phase, solving, model, slips>>

(* The result may have been that there is no model: ok stays true then.    *)
Bail == /\ CancelUntil(0)
        /\ Answers("undef")
        /\ UnchangedByAnswer
        /\ slips' = slips \cup (IF pc = "conflict" THEN {"givenUp"} ELSE {})
        /\ UNCHANGED <<ok, phase, solving, model>>

(* A conflict at level zero: no model. *)
SearchRefutes == /\ pc = "conflict" /\ call.op \in {"tidy", "solve"}
                 /\ CurrentLevel = 0
                 /\ ~ TooLong
                 /\ ok' = FALSE
                 /\ Answers("unsat")
                 /\ UnchangedByAnswer
                 /\ UNCHANGED <<assignment, phase, solving, model, slips>>

RefutesTooLate == pc = "conflict" /\ CurrentLevel = 0 /\ TooLong /\ Bail

SearchLearns == /\ Searching /\ Learn
                /\ count' = [count EXCEPT !.conflicts = @ + 1]
                /\ UNCHANGED <<call, picks, reply>>

(* The first limit on conflicts grows with every restart. *)
RestartDue == /\ Searching /\ count.restarts < MaxRestarts
              /\ count.conflicts >= RestartFirst + count.restarts
Restarting == Quiet /\ RestartDue

Restart == /\ Restarting /\ ~ TooLong
           /\ CancelUntil(0)
           /\ count' = [count EXCEPT !.conflicts = 0, !.restarts = @ + 1]
           /\ UnchangedInside
           /\ UNCHANGED <<database, simplified, pc, call, work, picks>>

RestartsTooLate == Restarting /\ TooLong /\ Bail

(* Simplification at level zero: before the search, and in it.             *)
Tidy == /\ Quiet /\ (During("tidy") \/ Searching) /\ ~ RestartDue
        /\ CurrentLevel = 0
        /\ SimplifyAndCompact
        /\ call' = [call EXCEPT !.op = "solve"]
        /\ pc' = IF During("tidy") THEN "propagate" ELSE "decide"
        /\ UnchangedInside /\ UNCHANGED <<assignment, work, solving>>

(* A decision: first the assumptions, one level each, in their order. *)
Deciding == \/ pc = "decide"
            \/ Quiet /\ Searching /\ ~ RestartDue /\ CurrentLevel > 0
Assuming == Deciding /\ CurrentLevel < Len(call.lits)
Assumption == call.lits[CurrentLevel + 1]

Decide(l) == /\ lim' = Append(lim, Len(trail))
             /\ trail' = Append(trail, Entry(l, 0, CurrentLevel + 1))
             /\ pc' = "propagate"
             /\ UnchangedInside
             /\ UNCHANGED <<database, simplified, qhead, at, call, work>>

AssumeTrue == /\ Assuming /\ IsTrue(Assumption)
              /\ lim' = Append(lim, Len(trail))
              /\ pc' = "decide"
              /\ UnchangedInside
              /\ UNCHANGED <<database, simplified, trail, qhead, at, call,
                             work, solving>>

AssumeOpen == Assuming /\ IsOpen(Assumption)
              /\ Decide(Assumption) /\ UNCHANGED solving

(* Bug: without an assumption named as its cause, ok becomes false.   *)
AssumeFalseForGood ==
  /\ Assuming /\ IsFalse(Assumption) /\ ~ TooLong
  /\ CancelUntil(0) /\ ok' = FALSE
  /\ Answers("unsat")
  /\ UnchangedByAnswer /\ UNCHANGED <<phase, solving, model, slips>>

(* Bug: the search has no result, and begins again. *)
AssumeFalseAgain ==
  /\ Assuming /\ IsFalse(Assumption) /\ ~ TooLong
  /\ CancelUntil(0)
  /\ pc' = "propagate"
  /\ UnchangedInside /\ UNCHANGED <<database, simplified, call, work, solving>>

(* The assumption cannot be met; the clauses may have a model still. *)
AssumeFalse == /\ Assuming /\ IsFalse(Assumption) /\ ~ TooLong
               /\ CancelUntil(0)
               /\ Answers("unsat")
               /\ UnchangedByAnswer
               /\ UNCHANGED <<ok, phase, solving, model, slips>>

AssumesTooLate == Assuming /\ IsFalse(Assumption) /\ TooLong /\ Bail

(* Then any open variable; the activities prefer one that no model knows.  *)
Branching == Deciding /\ ~ Assuming
TooManyLearnt == Cardinality(Learnts) - Len(trail) >= LearntLimit

Reduce == /\ Branching /\ TooManyLearnt
          /\ ReduceDB
          /\ pc' = "pick"
          /\ UnchangedInside
          /\ UNCHANGED <<assignment, simplified, call, work, solving>>

Picking == pc = "pick" \/ (Branching /\ ~ TooManyLearnt)
OpenVars == {v \in used : IsOpen(<<v, TRUE>>)}
Decided == count' = [count EXCEPT !.decisions = @ + 1]

(* polarity: FALSE at first, what the last model had from then on. *)
Branch == /\ Picking
          /\ \E v \in OpenVars :
               LET free == \E w \in OpenVars : w < v
               IN  /\ free => picks < MaxPicks
                   /\ picks' = IF free THEN picks + 1 ELSE picks
                   /\ Decide(<<v, phase[v]>>)
          /\ Decided

NowTooLong == cutoff > 0 /\ count.decisions + 1 > cutoff

ModelFound == LET found == [v \in Vars |-> IsTrue(<<v, TRUE>>)]
              IN  /\ Picking /\ OpenVars = {} /\ ~ NowTooLong
                  /\ model' = found /\ phase' = found
                  /\ CancelUntil(0)
                  /\ Answers("sat")
                  /\ Decided
                  /\ UnchangedByAnswer /\ UNCHANGED <<ok, picks, slips>>

FoundTooLate == /\ Picking /\ OpenVars = {} /\ NowTooLong
                /\ CancelUntil(0)
                /\ Answers("undef")
                /\ Decided
                /\ UnchangedByAnswer
                /\ UNCHANGED <<ok, phase, picks, model, slips>>

---------------------------------------------------------------------------
(* After the last call nothing happens any more. *)
Running == pc # "call" \/ calls # << >>
Returned == ~ Running /\ UNCHANGED vars

Next ==
  \/ AddAClause \/ AddASingle \/ AddAPair \/ AddFinished \/ AddRefutes
  \/ LightSolve \/ Reset \/ PopCheck \/ AnswerKnown \/ Attempt
  \/ NextWatchList \/ VisitTrue \/ VisitMoves \/ VisitForces \/ VisitFails
  \/ VisitSettles \/ VisitRefutes \/ VisitSwaps \/ VisitClashes
  \/ Resolve
  \/ TrySucceeds \/ TryBacktracks \/ AssertSucceeds \/ AssertFails \/ Denied
  \/ CheckSucceeds \/ CheckFails \/ AttemptRefutes
  \/ Solve \/ Refused \/ Tidy \/ SearchLearns \/ SearchRefutes
  \/ RefutesTooLate \/ Restart \/ RestartsTooLate
  \/ AssumeTrue \/ AssumeOpen \/ AssumeFalse \/ AssumesTooLate
  \/ Reduce \/ Branch \/ ModelFound \/ FoundTooLate
  \/ Returned

(* The code never waits: as long as it is in a call, or has one to make,   *)
(* it takes steps.  This is weak fairness of Next, whose every step in a   *)
(* running state changes vars; TLC's deadlock check shows it can take one. *)
Fairness == <>[]Running => []<>(<<Next>>_vars)

Spec == Init /\ [][Next]_vars /\ Fairness

---------------------------------------------------------------------------
(* What the solver implements.                                             *)
Meaning(c) == IF c.kind = "single" THEN Pairs(c.lits) ELSE {Range(c.lits)}
KnownClauses == UNION {Meaning(clauses[i]) : i \in DOMAIN clauses}

A == INSTANCE SatSearch WITH
       input <- given,
       known <- KnownClauses,
       trail <- [i \in DOMAIN trail |-> [lit |-> trail[i].lit,
                                         guess |-> IsGuess(i)]],
       refuted <- ~ ok

LastLit == trail'[Len(trail')].lit
(* The clause learnt in a step. *)
Learnt == IF next' # next THEN Range(clauses'[next].lits) ELSE {LastLit}

(* A step of SatSearch, with the clauses and literals that it is about.    *)
AbstractStep ==
  \/ calls # << >> /\ A!Give(Says(Head(calls)))
  \/ A!Imply
  \/ trail' # << >> /\ A!Guess(LastLit)
  \/ trail' # << >> /\ A!Learn(Learnt)
  \/ A!TakeBack \/ A!Forget \/ A!Adopt \/ A!Refute
  \/ A!Solve(assumed')
  \/ A!AnswerSat \/ A!AnswerUnsat \/ A!AnswerUndef

---------------------------------------------------------------------------
Places == {"call", "propagate", "conflict", "decide", "pick", "refused"}
Slips == {"rushed", "exposed", "givenUp", "mistaken", "revived"}

ClauseTypes == [lits : Seq(used \X BOOLEAN), kind : {"clause", "single", "learnt"}]
LongEnough(c) == Len(c.lits) > (IF c.kind = "single" THEN 2 ELSE 1)

TypeOK ==
  /\ used \subseteq Vars /\ ok \in BOOLEAN
  /\ next \in Nat \ {0} /\ DOMAIN clauses \subseteq 1 .. next - 1
  /\ \A i \in DOMAIN clauses : clauses[i] \in ClauseTypes /\ LongEnough(clauses[i])
  /\ watches \in [Lits -> Seq(1 .. next - 1)]
  /\ trail \in Seq([lit : used \X BOOLEAN, why : 0 .. next - 1, level : Nat])
  /\ lim \in Seq(0 .. Len(trail))
  /\ qhead \in 0 .. Len(trail) /\ at \in Nat \ {0}
  /\ simplified \in Nat \cup {-1}
  /\ phase \in [Vars -> BOOLEAN] /\ model \in [Vars -> BOOLEAN]
  /\ pc \in Places
  /\ marks \in Seq(Nat)
  /\ answer \in {"none", "sat", "unsat", "undef"}
  /\ slips \subseteq Slips

(* propagate takes a clause from one watch list and puts it in another     *)
(* while it walks the list: whatever it did, every clause is in the lists  *)
(* of the literals it watches, once, and in no other - the single set too, *)
(* whose unwatched literal changes with every visit.  (A conflict of a     *)
(* single set at level zero takes it from a list; ok is false then, unless *)
(* the solve is given up, and until a denied literal makes it true again.) *)
Broken == \/ ~ ok \/ slips \cap {"givenUp", "revived"} # {}
          \/ pc = "conflict" /\ CurrentLevel = 0
WatchesRight ==
  /\ ~ Broken => \A i \in DOMAIN clauses : \A l \in Watched(clauses[i]) :
       i \in Range(watches[Neg(l)])
  /\ \A l \in Lits : /\ IsInjective(watches[l])
                     /\ \A i \in Range(watches[l]) :
                          i \in DOMAIN clauses /\ Neg(l) \in Watched(clauses[i])

(* When propagate finds no conflict there is none to find: no clause is    *)
(* false, none has a single open literal left, no two literals of a single *)
(* set are false - after any backtracking, learning and deleting, unless   *)
(* one of the slips has happened.                                          *)
FalseOf(c) == {l \in Range(c.lits) : IsFalse(l)}
NothingMissed ==
  Quiet /\ ok /\ slips = {} => \A i \in DOMAIN clauses :
    LET c == clauses[i]
        left == Range(c.lits) \ FalseOf(c)
    IN  IF c.kind = "single" THEN Cardinality(FalseOf(c)) <= 1
        ELSE /\ left # {}
             /\ Cardinality(left) = 1 => \A l \in left : IsTrue(l)

(* "if some other lit in the clause is also false, we have a conflict"     *)
(* (Solver.cpp): propagate leaves no single set with two false literals.   *)
SinglesSeen == Quiet /\ ok => \A i \in DOMAIN clauses :
                 clauses[i].kind = "single" => Cardinality(FalseOf(clauses[i])) <= 1

(* What an attempt tells its caller.  Yes: the literal is true, with every *)
(* guess that was held before it.  No: no model of the clauses has the     *)
(* literal and those guesses, so the caller may rule the value out.  Only  *)
(* a successful assertIfPossible adds a clause, which given then has.      *)
TrueLits == {trail[i].lit : i \in DOMAIN trail}
ModelsWith(ls) == {a \in A!Models(given) : \A l \in ls : A!Holds(a, l)}
AttemptsRight ==
  pc = "call" /\ reply.op # "none" /\ "mistaken" \notin slips =>
    IF reply.good
    THEN IsTrue(reply.lit) /\ reply.before \subseteq TrueLits
    ELSE ModelsWith(reply.before \cup {reply.lit}) = {}

(* A model satisfies all that was given, with the assumptions; after       *)
(* UNSAT nothing does, so the next solve of a solver that goes on being    *)
(* used (the finder's) is right too, with what it has learnt and deleted.  *)
(* That nothing satisfies them is right after every slip but a mistaken    *)
(* single set.                                                             *)
AnswersRight ==
  slips = {} \/ (answer = "unsat" /\ "mistaken" \notin slips)
    => A!AnswersRight

(* "If FALSE, the constraints are already unsatisfiable" (ok, in           *)
(* MSolver.h): nothing is a model of them from then on, and SAT is never   *)
(* answered.  (A clause given while ok is FALSE is not kept; once ok is    *)
(* TRUE again, solve has a model of the others.)                           *)
SatHasModel == answer = "sat" => A!Models(given) # {}

(* Shrinking, simplifying, compacting and deleting lose no clause: what    *)
(* is kept, with the facts, still says all that was given.  (After a slip  *)
(* a single set whose literals are all known may be dropped with two of    *)
(* them false.)                                                            *)
NothingLost ==
  ok /\ slips = {} => LET kept == KnownClauses \cup {{trail[i].lit} :
                      i \in {j \in DOMAIN trail : trail[j].level = 0}}
        IN  A!Models(kept) \subseteq A!Models(given)

(* Every step is one of SatSearch, whose theorems then hold of the code.   *)
Implements == A!Init /\ [][slips' = {} => AbstractStep]_(A!vars)

(* The calls end: no search goes on for ever. *)
ScriptEnds == <>(calls = << >> /\ pc = "call")
=============================================================================
