----------------------------- MODULE SolverMeaning -----------------------------
(***************************************************************************)
(* What the state of Solver says of the clauses that were given: what is   *)
(* kept, learnt or true for good follows from them, so an attempt that     *)
(* fails and an answer without a model are right.                          *)
(***************************************************************************)
EXTENDS SolverProofs

(* What a clause says of an assignment, whatever the order of its literals: *)
(* that one literal holds, or for a single set that at most one does not.   *)
Obeys(a, c) ==
  IF c.kind = "single"
  THEN \A l, m \in Elements(c.lits) : l # m => A!Holds(a, l) \/ A!Holds(a, m)
  ELSE \E l \in Elements(c.lits) : A!Holds(a, l)
Obeyed(a, cl) == \A i \in DOMAIN cl : Obeys(a, cl[i])
FactsIn(a, t) == \A i \in DOMAIN t : t[i].level = 0 => A!Holds(a, t[i].lit)
Allows(a, cl, t) == Obeyed(a, cl) /\ FactsIn(a, t)

(* The clauses and the facts follow from what was given. *)
Follows == "mistaken" \notin slips => \A a \in A!Models(given) :
             ok /\ Allows(a, clauses, trail)

(* In a conflict the clauses do not allow the trail. *)
Clash == pc = "conflict" => \A a \in A!Assignments :
           Obeyed(a, clauses) =>
             \E i \in DOMAIN trail : ~ A!Holds(a, trail[i].lit)

(* What analysis has: the clause to absorb is false by what lies below the *)
(* index, a variable of a lower level that was seen has been put out, and  *)
(* a literal of the clause, or one put out, or the opposite of one seen    *)
(* and still to be resolved holds.                                         *)
SeenLeft(a, w, t, n) ==
  \E i \in 1 .. w.index : /\ t[i].level = n /\ t[i].lit[1] \in w.seen
                          /\ ~ A!Holds(a, t[i].lit)
Follow(w, cl, t, n) ==
  /\ \A k \in DOMAIN w.clause : \E i \in 1 .. w.index : t[i].lit = Neg(w.clause[k])
  /\ \A v \in w.seen : \/ LevelIn(t, v, n)
                       \/ \E k \in DOMAIN w.out : w.out[k][1] = v
  /\ \A a \in A!Assignments : Allows(a, cl, t) =>
       \/ \E l \in Elements(w.clause) \cup Elements(w.out) : A!Holds(a, l)
       \/ SeenLeft(a, w, t, n)
WorkMeans == pc = "conflict" /\ Len(lim) > 0 => Follow(work, clauses, trail, Len(lim))

(* No model has the literals of S. *)
Excluded(S) == "mistaken" \notin slips => ModelsWith(S) = {}
(* During an attempt the guesses are those it began with and its literal,  *)
(* or it is known that no model has these.                                 *)
Tried == reply.before \cup {reply.lit}
ReplyTypes(L) == [op : Attempts \cup {"none"}, lit : L \cup {<< >>},
                  before : SUBSET L, good : BOOLEAN]
ReplyTyped == reply \in ReplyTypes(UsedLits)
AttemptInv ==
  /\ ReplyTyped
  /\ call.op \in Attempts => IF call.good THEN Guesses = Tried ELSE Excluded(Tried)
  /\ call.op \in {"assert", "check"} => call.good
  /\ call.op = "denied" => Excluded(Tried)
  /\ call.op \in {"fact", "tidy", "solve"} => reply.op = "none"

(* A call that adds a fact, and the simplification before a search, are at *)
(* level zero.                                                             *)
NoLevel == call.op \in {"fact", "tidy"} => Len(lim) = 0

(* In a search the first levels are those of the assumptions.              *)
SolveInv ==
  /\ call.op \in {"tidy", "solve"} => assumed = Range(call.lits)
  /\ pc = "refused" => ~ ok
  /\ pc = "pick" => Len(lim) >= Len(call.lits)
  /\ call.op = "solve" => \A i \in DOMAIN trail :
       IsGuess(i) /\ trail[i].level <= Len(call.lits) =>
         trail[i].lit = call.lits[trail[i].level]
UnsatRight == answer = "unsat" /\ "mistaken" \notin slips =>
                \A a \in A!Models(given) : \E l \in assumed : ~ A!Holds(a, l)

---------------------------------------------------------------------------
(* Literals and assignments.                                               *)
LEMMA HoldsOr ==
  ASSUME NEW a \in A!Assignments, NEW l \in Lits
  PROVE  A!Holds(a, Neg(l)) <=> ~ A!Holds(a, l)
<1>1. PICK v \in Vars, b \in BOOLEAN : l = <<v, b>>
  BY DEF Lits
<1>2. l[1] = v /\ l[2] = b /\ Neg(l)[1] = v /\ Neg(l)[2] = ~ b
  BY <1>1 DEF Neg
<1>3. a[v] \in BOOLEAN
  BY DEF A!Assignments
<1>4. (a[v] = ~ b) <=> ~ (a[v] = b)
  BY <1>3
<1> QED
  BY <1>2, <1>4 DEF A!Holds

(* A literal that is false on the trail holds only if the trail does not. *)
LEMMA FalseThen ==
  ASSUME PlainTypes, TrailInv, NEW a \in A!Assignments, NEW l \in Lits,
         A!Holds(a, l), NEW i \in DOMAIN trail, trail[i].lit = Neg(l)
  PROVE  ~ A!Holds(a, trail[i].lit)
BY HoldsOr

(* What a reason forces: if its literal does not hold, another literal of  *)
(* the reason does, and is false earlier on the trail.                     *)
LEMMA ReasonGives ==
  ASSUME PlainTypes, TrailInv, ListsInv, ReasonsInv, NEW a \in A!Assignments,
         Obeyed(a, clauses), NEW i \in DOMAIN trail, HasReason(trail, i),
         ~ A!Holds(a, trail[i].lit)
  PROVE  LET q == clauses[trail[i].why].lits
         IN  \E k \in 2 .. Len(q) : \E j \in DOMAIN trail :
               /\ j < i /\ trail[j].lit = Neg(q[k])
               /\ q[k] \in UsedLits /\ A!Holds(a, q[k])
               /\ ~ A!Holds(a, trail[j].lit)
<1> DEFINE c == clauses[trail[i].why]
           q == c.lits
<1>1. trail[i].why \in DOMAIN clauses /\ Forced(trail, i, c)
  BY DEF ReasonsInv, Reasoned
<1>2. Clean(c, used) /\ Obeys(a, c)
  BY <1>1 DEF ListsInv, ClausesOf, Obeyed
<1>3. q \in Seq(UsedLits) /\ Len(q) \in Nat /\ DOMAIN q = 1 .. Len(q)
  BY <1>2, StateIs, WatchedIs DEF UsedLits
<1>4. /\ c.kind # "single" /\ q[1] = trail[i].lit
      /\ \A k \in 2 .. Len(q) : FalseBefore(trail, q[k], i)
  BY <1>1 DEF Forced
<1>5. PICK k \in DOMAIN q : A!Holds(a, q[k])
  BY <1>2, <1>4 DEF Obeys, Elements
<1> HIDE DEF q, c
<1>6. k \in 2 .. Len(q)
  BY <1>3, <1>4, <1>5
<1>7. PICK j \in DOMAIN trail : j < i /\ trail[j].lit = Neg(q[k])
  BY <1>4, <1>6 DEF FalseBefore
<1>8. q[k] \in UsedLits /\ q[k] \in Lits
  BY <1>3, <1>5, StateIs
<1>9. ~ A!Holds(a, trail[j].lit)
  BY <1>5, <1>7, <1>8, FalseThen
<1> QED
  BY <1>5, <1>6, <1>7, <1>8, <1>9 DEF q, c

(* An assignment with the guesses of the trail has the rest of it.         *)
LEMMA Respected ==
  ASSUME PlainTypes, TrailInv, ListsInv, ReasonsInv, NEW a \in A!Assignments,
         Allows(a, clauses, trail),
         \A i \in DOMAIN trail : IsGuess(i) => A!Holds(a, trail[i].lit),
         NEW i \in DOMAIN trail
  PROVE  A!Holds(a, trail[i].lit)
<1> DEFINE S == {j \in DOMAIN trail : ~ A!Holds(a, trail[j].lit)}
<1> SUFFICES S = {}
  OBVIOUS
<1>1. S \subseteq Nat
  BY StateIs
<1> SUFFICES ASSUME S # {} PROVE FALSE
  OBVIOUS
<1> DEFINE m == Least(S)
<1>2. m \in S /\ \A j \in S : m <= j
  BY <1>1, LeastOf
<1> HIDE DEF m
<1>3. m \in DOMAIN trail /\ m \in Nat /\ ~ A!Holds(a, trail[m].lit)
  BY <1>1, <1>2
<1>4. trail[m].level # 0 /\ ~ IsGuess(m)
  BY <1>3 DEF Allows, FactsIn
<1>5. HasReason(trail, m)
  BY <1>3, <1>4, StateIs DEF IsGuess, HasReason
<1>6. Obeyed(a, clauses)
  BY DEF Allows
<1>7. PICK j \in DOMAIN trail : j < m /\ ~ A!Holds(a, trail[j].lit)
  BY <1>3, <1>5, <1>6, ReasonGives
<1>8. j \in S /\ m <= j /\ j \in Nat
  BY <1>1, <1>2, <1>7
<1> QED
  BY <1>3, <1>7, <1>8

---------------------------------------------------------------------------
(* The steps, and what they keep for an assignment.                        *)
Learns == SearchLearns \/ TryBacktracks
AddsSome == AddAClause \/ AddASingle \/ AddAPair
Visits == \/ VisitTrue \/ VisitMoves \/ VisitForces \/ VisitFails \/ VisitSettles
          \/ VisitRefutes \/ VisitSwaps \/ VisitClashes

LEMMA SameMeaning ==
  ASSUME NEW a, NEW cl, NEW U, NEW id \in DOMAIN cl, cl[id] \in Clauses(U), NEW q,
         Elements(q) = Elements(cl[id].lits)
  PROVE  Obeyed(a, [cl EXCEPT ![id].lits = q]) <=> Obeyed(a, cl)
<1> DEFINE c == cl[id]
           d == [c EXCEPT !.lits = q]
           all == [cl EXCEPT ![id].lits = q]
<1>1. d.lits = q /\ d.kind = c.kind
  BY DEF Clauses
<1>2. DOMAIN all = DOMAIN cl /\ all[id] = d /\ \A i \in DOMAIN cl : i # id => all[i] = cl[i]
  OBVIOUS
<1>3. Elements(d.lits) = Elements(c.lits)
  BY <1>1
<1> HIDE DEF d, c, all
<1>4. Obeys(a, d) <=> Obeys(a, c)
  BY <1>1, <1>3 DEF Obeys
<1>5. cl[id] = c
  BY DEF c
<1>6. Obeyed(a, all) <=> Obeyed(a, cl)
  BY <1>2, <1>4, <1>5 DEF Obeyed
<1> QED
  BY <1>6 DEF all

LEMMA TurnedSame ==
  ASSUME PlainTypes, TrailInv, ListsInv, Reading(FALSE)
  PROVE  /\ Elements(Turned) = Elements(C.lits)
         /\ Spare # {} => Elements(Swap(Turned, 2, Least(Spare))) = Elements(C.lits)
<1>1. /\ Turned \in Seq(UsedLits) /\ Len(Turned) = Len(C.lits)
      /\ DOMAIN Turned = DOMAIN C.lits /\ 1 \in DOMAIN C.lits /\ 2 \in DOMAIN C.lits
  BY TurnedIs
<1>2. C.lits \in Seq(UsedLits)
  BY ReadingIs, WatchedIs DEF Reading, UsedLits
<1>3. Elements(Turned) = Elements(C.lits)
  BY <1>1, <1>2, SwapKeeps DEF Turned
<1>4. ASSUME Spare # {} PROVE Elements(Swap(Turned, 2, Least(Spare))) = Elements(C.lits)
  <2>1. Least(Spare) \in 3 .. Len(C.lits)
    BY <1>4, MoveIs
  <2>2. Least(Spare) \in DOMAIN Turned /\ 2 \in DOMAIN Turned
    BY <1>1, <1>2, <2>1
  <2> QED
    BY <1>1, <1>3, <2>2, SwapKeeps
<1> QED
  BY <1>3, <1>4

(* A visit may move the literals of the clause it visits. *)
LEMMA VisitsReorder ==
  ASSUME PlainTypes, TrailInv, ListsInv, Visits
  PROVE  \/ clauses' = clauses
         \/ \E q : /\ Reorder(q) /\ Elements(q) = Elements(C.lits)
                  /\ Id \in DOMAIN clauses /\ C \in Clauses(used) /\ C = clauses[Id]
<1>1. CASE VisitSettles \/ VisitRefutes
  BY <1>1 DEF VisitSettles, VisitRefutes
<1>2. ASSUME Pending, at <= Len(watches[P])
      PROVE  Id \in DOMAIN clauses /\ C \in Clauses(used) /\ C = clauses[Id]
  BY <1>2, ReadingIs DEF Clean, C
<1>3. CASE VisitTrue \/ VisitForces \/ VisitFails
  <2>1. Reading(FALSE) /\ Reorder(Turned)
    BY <1>3 DEF VisitTrue, VisitForces, VisitFails
  <2>2. Pending /\ at <= Len(watches[P])
    BY <2>1 DEF Reading
  <2> QED
    BY <1>2, <2>1, <2>2, TurnedSame
<1>4. CASE VisitMoves
  <2>1. Reading(FALSE) /\ Spare # {} /\ Reorder(Swap(Turned, 2, Least(Spare)))
    BY <1>4 DEF VisitMoves
  <2>2. Pending /\ at <= Len(watches[P])
    BY <2>1 DEF Reading
  <2> QED
    BY <1>2, <2>1, <2>2, TurnedSame
<1>5. CASE VisitSwaps
  <2>1. Reading(TRUE) /\ Reorder(Swap(Swap(C.lits, Here, 1), 1, Len(C.lits)))
    BY <1>5 DEF VisitSwaps
  <2>2. Pending /\ at <= Len(watches[P])
    BY <2>1 DEF Reading
  <2> QED
    BY <1>2, <2>1, <2>2, SwapsIs
<1>6. CASE VisitClashes
  <2> DEFINE k == Least(Second)
             front == IF k > Here THEN Swap(C.lits, Here, 1) ELSE C.lits
             second == Swap(front, k, 2)
             pair == Swap(second, IndexOf(second, Neg(P)), 1)
             q == Swap(pair, 1, Len(pair))
  <2>1. Reading(TRUE) /\ Second # {} /\ Reorder(q)
    BY <1>6 DEF VisitClashes
  <2>2. Pending /\ at <= Len(watches[P])
    BY <2>1 DEF Reading
  <2>3. Elements(q) = Elements(C.lits)
    BY <2>1, ClashIs
  <2> QED
    BY <1>2, <2>1, <2>2, <2>3
<1> QED
  BY <1>1, <1>3, <1>4, <1>5, <1>6 DEF Visits

LEMMA VisitsMean ==
  ASSUME PlainTypes, TrailInv, ListsInv, Visits, NEW a
  PROVE  Obeyed(a, clauses') <=> Obeyed(a, clauses)
<1>1. CASE clauses' = clauses
  BY <1>1
<1>2. CASE \E q : /\ Reorder(q) /\ Elements(q) = Elements(C.lits)
                 /\ Id \in DOMAIN clauses /\ C \in Clauses(used) /\ C = clauses[Id]
  <2>1. PICK q : /\ Reorder(q) /\ Elements(q) = Elements(C.lits)
                 /\ Id \in DOMAIN clauses /\ C \in Clauses(used) /\ C = clauses[Id]
    BY <1>2
  <2>2. clauses' = [clauses EXCEPT ![Id].lits = q]
    BY <2>1 DEF Reorder
  <2> QED
    BY <2>1, <2>2, SameMeaning
<1> QED
  BY <1>1, <1>2, VisitsReorder

(* Only new clauses can be disobeyed. *)
LEMMA ClausesKept ==
  ASSUME PlainTypes, CallsTyped, TrailInv, ListsInv, Next, ~ AddsSome, ~ Learns,
         NEW a, Obeyed(a, clauses)
  PROVE  Obeyed(a, clauses')
<1>1. ASSUME UNCHANGED database PROVE Obeyed(a, clauses')
  BY <1>1 DEF database
<1>2. CASE Visits
  BY <1>2, VisitsMean
<1>3. CASE Reduce
  <2>1. PICK S : clauses' = [i \in DOMAIN clauses \ S |-> clauses[i]]
    BY <1>3 DEF Reduce, ReduceDB, Removed
  <2> QED
    BY <2>1 DEF Obeyed
<1>4. CASE Tidy
  <2>1. UNCHANGED database \/ clauses' = [i \in Staying |-> clauses[i]]
    BY <1>4 DEF Tidy, SimplifyAndCompact, Compact
  <2>2. Staying \subseteq DOMAIN clauses
    BY DEF Staying
  <2> QED
    BY <1>1, <2>1, <2>2 DEF Obeyed
<1>5. CASE \/ AddFinished \/ AddRefutes \/ LightSolve \/ AnswerKnown \/ Attempt
           \/ Reset \/ PopCheck
  BY <1>1, <1>5 DEF AddFinished, AddRefutes, LightSolve, AnswerKnown, Attempt,
                    Reset, PopCheck, GoesBack
<1>6. CASE NextWatchList
  BY <1>1, <1>6 DEF NextWatchList, UnchangedByVisit, database
<1>7. CASE \/ Resolve \/ TrySucceeds \/ Denied \/ CheckSucceeds \/ AttemptRefutes
           \/ AssertSucceeds \/ AssertFails \/ CheckFails
  BY <1>1, <1>7 DEF Resolve, TrySucceeds, Denied, CheckSucceeds, AttemptRefutes,
                     AssertSucceeds, AssertFails, CheckFails, Ends,
                     UnchangedInAttempt, assignment
<1>8. CASE Solve \/ Refused \/ SearchRefutes \/ AssumeFalse \/ ModelFound \/ FoundTooLate
  BY <1>1, <1>8 DEF Solve, Refused, SearchRefutes, AssumeFalse, ModelFound,
                     FoundTooLate, UnchangedByAnswer
<1>9. CASE RefutesTooLate \/ RestartsTooLate \/ AssumesTooLate \/ Restart
  BY <1>1, <1>9 DEF RefutesTooLate, RestartsTooLate, AssumesTooLate, Bail, Restart,
                     UnchangedByAnswer
<1>10. CASE AssumeTrue \/ AssumeOpen \/ Branch \/ Returned
  BY <1>1, <1>10 DEF AssumeTrue, AssumeOpen, Branch, Decide, Returned, vars
<1> QED
  BY <1>2, <1>3, <1>4, <1>5, <1>6, <1>7, <1>8, <1>9, <1>10
     DEF Next, Visits, AddsSome, Learns

(* Facts. *)
LEMMA FactsAppended ==
  ASSUME NEW a, NEW X, NEW t \in Seq(X), NEW l, NEW why, NEW n \in Nat, FactsIn(a, t),
         n = 0 => A!Holds(a, l)
  PROVE  FactsIn(a, Append(t, Entry(l, why, n)))
<1> DEFINE e == Entry(l, why, n)
           c == Append(t, e)
<1>1. e.lit = l /\ e.level = n
  BY DEF Entry
<1> HIDE DEF e
<1>2. Len(t) \in Nat /\ DOMAIN t = 1 .. Len(t)
  OBVIOUS
<1>3. DOMAIN c = 1 .. Len(t) + 1 /\ c[Len(t) + 1] = e
      /\ \A i \in 1 .. Len(t) : c[i] = t[i]
  OBVIOUS
<1> HIDE DEF c
<1>4. \A i \in DOMAIN c : i \in DOMAIN t \/ i = Len(t) + 1
  BY <1>2, <1>3
<1>5. FactsIn(a, c)
  BY <1>1, <1>2, <1>3, <1>4 DEF FactsIn
<1> QED
  BY <1>5 DEF c, e

LEMMA JoinedIs ==
  ASSUME NEW X, NEW t \in Seq(X), NEW Y, NEW p \in Seq(Y), NEW c, c = t \o p
  PROVE  /\ DOMAIN c = 1 .. Len(t) + Len(p)
         /\ \A i \in DOMAIN t : c[i] = t[i]
         /\ \A m \in 1 .. Len(p) : c[Len(t) + m] = p[m]
<1>1. DOMAIN t = 1 .. Len(t) /\ Len(t) \in Nat /\ Len(p) \in Nat
  OBVIOUS
<1>2. /\ DOMAIN (t \o p) = 1 .. Len(t) + Len(p)
      /\ \A i \in DOMAIN t : (t \o p)[i] = t[i]
      /\ \A m \in 1 .. Len(p) : (t \o p)[Len(t) + m] = p[m]
  BY <1>1
<1> QED
  BY <1>2

LEMMA FactsJoined ==
  ASSUME NEW a, NEW X, NEW t \in Seq(X), NEW Y, NEW q \in Seq(Y), NEW why,
         NEW n \in Nat, FactsIn(a, t), n = 0 => \A m \in DOMAIN q : A!Holds(a, q[m])
  PROVE  FactsIn(a, Grown(t, q, why, n))
<1> DEFINE p == Put(q, why, n)
           c == t \o p
<1>1. /\ DOMAIN q = 1 .. Len(q) /\ Len(q) \in Nat
      /\ DOMAIN t = 1 .. Len(t) /\ Len(t) \in Nat
  OBVIOUS
<1>2. p \in Seq({p[m] : m \in DOMAIN q}) /\ Len(p) = Len(q)
      /\ \A m \in DOMAIN q : p[m] = Entry(q[m], why, n)
  BY <1>1 DEF Put
<1>3. \A m \in DOMAIN q : p[m].lit = q[m] /\ p[m].level = n
  <2>1. \A l : Entry(l, why, n).lit = l /\ Entry(l, why, n).level = n
    BY DEF Entry
  <2> QED
    BY <1>2, <2>1
<1> HIDE DEF p
<1>4. /\ DOMAIN c = 1 .. Len(t) + Len(q)
      /\ \A i \in DOMAIN t : c[i] = t[i]
      /\ \A m \in 1 .. Len(q) : c[Len(t) + m] = p[m]
  <2> DEFINE S == {p[m] : m \in DOMAIN q}
  <2>1. p \in Seq(S) /\ Len(p) = Len(q)
    BY <1>2
  <2>2. c = t \o p
    OBVIOUS
  <2> HIDE DEF S, c
  <2>3. DOMAIN c = 1 .. Len(t) + Len(p)
    BY ONLY t \in Seq(X), <2>1, <2>2, JoinedIs
  <2>4. \A i \in DOMAIN t : c[i] = t[i]
    BY ONLY t \in Seq(X), <2>1, <2>2, JoinedIs
  <2>5. \A m \in 1 .. Len(p) : c[Len(t) + m] = p[m]
    BY ONLY t \in Seq(X), <2>1, <2>2, JoinedIs
  <2> QED
    BY <2>1, <2>3, <2>4, <2>5
<1> HIDE DEF c
<1>5. ASSUME NEW i \in DOMAIN c, c[i].level = 0 PROVE A!Holds(a, c[i].lit)
  <2>1. CASE i \in DOMAIN t
    BY <1>4, <1>5, <2>1 DEF FactsIn
  <2>2. CASE i \notin DOMAIN t
    <3> DEFINE m == i - Len(t)
    <3>1. m \in DOMAIN q /\ i = Len(t) + m
      BY <1>1, <1>4, <2>2
    <3> HIDE DEF m
    <3>2. c[i].lit = q[m] /\ c[i].level = n
      BY <1>1, <1>3, <1>4, <3>1
    <3> QED
      BY <1>5, <3>1, <3>2
  <2> QED
    BY <2>1, <2>2
<1>6. FactsIn(a, c)
  BY <1>5 DEF FactsIn
<1> QED
  BY <1>6 DEF c, p, Grown

LEMMA FactsPrefix ==
  ASSUME NEW a, NEW s, NEW t, Prefix(s, t), FactsIn(a, t)
  PROVE  FactsIn(a, s)
BY DEF Prefix, FactsIn

(* Below the first guess everything on the trail is a fact. *)
LEMMA AllFacts ==
  ASSUME PlainTypes, TrailInv, Len(lim) = 0, NEW a, FactsIn(a, trail)
  PROVE  \A i \in DOMAIN trail : A!Holds(a, trail[i].lit)
<1>1. \A i \in DOMAIN trail : trail[i].level = 0
  BY StateIs
<1> QED
  BY <1>1 DEF FactsIn

LEMMA FalseFails ==
  ASSUME PlainTypes, TrailInv, NEW a \in A!Assignments, NEW l \in UsedLits, IsFalse(l),
         \A i \in DOMAIN trail : A!Holds(a, trail[i].lit)
  PROVE  ~ A!Holds(a, l)
<1>1. l \in Lits
  BY StateIs
<1>2. PICK i \in DOMAIN trail : trail[i].lit = Neg(l)
  BY DEF IsFalse, IsTrue
<1> QED
  BY <1>1, <1>2, FalseThen

LEMMA ForcesHolds ==
  ASSUME PlainTypes, TrailInv, ListsInv, VisitForces, Len(lim) = 0,
         NEW a \in A!Assignments, Allows(a, clauses, trail)
  PROVE  A!Holds(a, Turned[1])
<1>1. Reading(FALSE) /\ Spare = {}
  BY DEF VisitForces
<1>2. /\ Turned \in Seq(UsedLits) /\ Len(Turned) = Len(C.lits)
      /\ DOMAIN Turned = DOMAIN C.lits /\ 1 \in DOMAIN C.lits
      /\ Turned[2] = Neg(P)
      /\ \A k \in 3 .. Len(C.lits) : Turned[k] = C.lits[k]
      /\ C.kind # "single"
  BY <1>1, TurnedIs
<1>3. IsFalse(Neg(P)) /\ Id \in DOMAIN clauses
  BY <1>1, ReadingIs DEF Reading
<1>4. \A i \in DOMAIN trail : A!Holds(a, trail[i].lit)
  BY AllFacts DEF Allows
<1>5. ASSUME NEW k \in DOMAIN Turned, k # 1 PROVE ~ A!Holds(a, Turned[k])
  <2>1. k = 2 \/ k \in 3 .. Len(C.lits)
    BY <1>2, <1>5
  <2>2. IsFalse(Turned[k])
    BY <1>1, <1>2, <1>3, <2>1 DEF Spare
  <2>3. Turned[k] \in UsedLits
    BY <1>2
  <2> QED
    BY <1>4, <2>2, <2>3, FalseFails
<1>6. Obeys(a, C)
  BY <1>3 DEF Allows, Obeyed, C
<1>7. \E l \in Elements(Turned) : A!Holds(a, l)
  BY <1>1, <1>2, <1>6, TurnedSame DEF Obeys
<1> QED
  BY <1>5, <1>7 DEF Elements

LEMMA SettlesHolds ==
  ASSUME PlainTypes, TrailInv, ListsInv, VisitSettles \/ VisitRefutes,
         NEW a \in A!Assignments, Allows(a, clauses, trail)
  PROVE  \A k \in OpenOnes : A!Holds(a, C.lits[k])
<1>1. Reading(TRUE) /\ Len(lim) = 0
  BY DEF VisitSettles, VisitRefutes, CurrentLevel
<1>2. /\ IsFalse(Neg(P)) /\ ~ IsOpen(Neg(P)) /\ Id \in DOMAIN clauses /\ P \in UsedLits
      /\ Clean(C, used) /\ Neg(P) \in Watched(C)
  BY <1>1, ReadingIs DEF Reading
<1>3. C.kind = "single"
  BY <1>1 DEF Reading
<1>4. \A i \in DOMAIN trail : A!Holds(a, trail[i].lit)
  BY <1>1, AllFacts DEF Allows
<1>5. Neg(P) \in UsedLits /\ Here \in DOMAIN C.lits /\ C.lits[Here] = Neg(P)
      /\ C.lits \in Seq(UsedLits)
  BY <1>1, HereIs
<1>6. ~ A!Holds(a, Neg(P))
  BY <1>2, <1>4, <1>5, FalseFails
<1>7. Obeys(a, C)
  BY <1>2 DEF Allows, Obeyed, C
<1> TAKE k \in OpenOnes
<1>8. k \in DOMAIN C.lits /\ IsOpen(C.lits[k])
  BY DEF OpenOnes
<1>9. C.lits[k] # Neg(P)
  BY <1>2, <1>8
<1> QED
  BY <1>3, <1>5, <1>6, <1>7, <1>8, <1>9 DEF Obeys, Elements

LEMMA TrailMoves ==
  ASSUME PlainTypes, CallsTyped, TrailInv, CallInv, Next
  PROVE  \/ trail' = trail
         \/ GoesUp
         \/ (\E l \in UsedLits : GuessesLit(l))
         \/ VisitForces \/ VisitSettles \/ VisitRefutes
         \/ AddsSome \/ Learns \/ AssertSucceeds \/ AssertFails
<1>1. CASE Attempt \/ AssumeOpen \/ Branch
  BY <1>1, GuessesIs
<1>2. CASE \/ Reset \/ PopCheck \/ CheckFails \/ RefutesTooLate \/ Restart
           \/ RestartsTooLate \/ AssumeFalse \/ AssumesTooLate \/ ModelFound
           \/ FoundTooLate
  BY <1>2, GoesUpIs
<1>3. CASE AssumeTrue
  BY <1>3 DEF AssumeTrue
<1>4. CASE AddFinished \/ AddRefutes \/ LightSolve \/ AnswerKnown
  BY <1>4 DEF AddFinished, AddRefutes, LightSolve, AnswerKnown, assignment
<1>5. CASE NextWatchList \/ VisitTrue \/ VisitMoves \/ VisitSwaps \/ VisitFails \/ VisitClashes
  BY <1>5 DEF NextWatchList, VisitTrue, VisitMoves, VisitSwaps, VisitFails,
              VisitClashes, Moves
<1>6. CASE Resolve
  BY <1>6 DEF Resolve, assignment
<1>7. CASE TrySucceeds \/ Denied \/ CheckSucceeds \/ AttemptRefutes
  BY <1>7 DEF TrySucceeds, Denied, CheckSucceeds, AttemptRefutes, Ends, assignment
<1>8. CASE Solve \/ Refused \/ SearchRefutes \/ Tidy \/ Reduce \/ Returned
  BY <1>8 DEF Solve, Refused, SearchRefutes, Tidy, Reduce, Returned, vars, assignment
<1> QED
  BY <1>1, <1>2, <1>3, <1>4, <1>5, <1>6, <1>7, <1>8 DEF Next, AddsSome, Learns

(* A denied literal: with it, all that was propagated would hold. *)
LEMMA DeniedHolds ==
  ASSUME PlainTypes, CallsTyped, TrailInv, ListsInv, ReasonsInv, CallInv, Clash,
         AssertFails, NEW a \in A!Assignments, Allows(a, clauses, trail)
  PROVE  A!Holds(a, Neg(Lit))
<1>1. /\ Len(lim) = 1 /\ lim[1] + 1 \in DOMAIN trail
      /\ trail[lim[1] + 1].lit = Lit
  BY DEF AssertFails, During, CallInv
<1>2. Lit \in Lits
  BY <1>1, StateIs
<1> SUFFICES ASSUME A!Holds(a, Lit) PROVE FALSE
  BY <1>2, HoldsOr
<1>3. ASSUME NEW i \in DOMAIN trail, IsGuess(i)
      PROVE  A!Holds(a, trail[i].lit)
  <2>1. trail[i].level \in 1 .. 1
    BY <1>1, <1>3, StateIs DEF IsGuess
  <2>2. i = lim[trail[i].level] + 1
    BY <1>3, StateIs DEF IsGuess, GuessFirst
  <2> QED
    BY <1>1, <2>1, <2>2
<1>4. \A i \in DOMAIN trail : A!Holds(a, trail[i].lit)
  BY <1>3, Respected
<1>5. pc = "conflict" /\ Obeyed(a, clauses)
  BY DEF AssertFails, Allows
<1> QED
  BY <1>4, <1>5 DEF Clash

LEMMA FactsKept ==
  ASSUME PlainTypes, CallsTyped, TrailInv, ListsInv, ReasonsInv, CallInv, Clash, Next,
         ~ AddsSome, ~ Learns, ~ AssertSucceeds,
         NEW a \in A!Assignments, Allows(a, clauses, trail)
  PROVE  FactsIn(a, trail')
<1>1. FactsIn(a, trail)
  BY DEF Allows
<1>2. trail \in Seq(EntryTypes(used, next)) /\ Len(lim) \in Nat
  BY StateIs
<1>3. CASE trail' = trail
  BY <1>1, <1>3
<1>4. CASE GoesUp
  <2>1. PICK n \in Nat : trail' = TrailUpTo(n)
    BY <1>4 DEF GoesUp, CancelUntil
  <2>2. Prefix(TrailUpTo(n), trail)
    BY BackIs, StateIs
  <2> QED
    BY <1>1, <2>1, <2>2, FactsPrefix
<1>5. CASE \E l \in UsedLits : GuessesLit(l)
  <2>1. PICK l \in UsedLits : trail' = Append(trail, Entry(l, 0, Len(lim) + 1))
    BY <1>5 DEF GuessesLit
  <2>2. Len(lim) + 1 \in Nat /\ Len(lim) + 1 # 0
    BY <1>2
  <2> QED
    BY <1>1, <1>2, <2>1, <2>2, FactsAppended
<1>6. CASE VisitForces
  <2>1. trail' = Append(trail, Entry(Turned[1], Id, Len(lim)))
    BY <1>6 DEF VisitForces, Enqueue, CurrentLevel
  <2>2. Len(lim) = 0 => A!Holds(a, Turned[1])
    BY <1>6, ForcesHolds
  <2> QED
    BY <1>1, <1>2, <2>1, <2>2, FactsAppended
<1>7. CASE VisitSettles \/ VisitRefutes
  <2>1. Reading(TRUE)
    BY <1>7 DEF VisitSettles, VisitRefutes
  <2>2. C.lits \in Seq(UsedLits)
    BY <2>1, HereIs
  <2>3. PICK S \in SUBSET OpenOnes : trail' = Grown(trail, Chosen(C.lits, S), Id, Len(lim))
    BY <1>7 DEF VisitSettles, VisitRefutes, EnqueueAll, Entries, Grown, Put, CurrentLevel
  <2>4. \A k \in OpenOnes : A!Holds(a, C.lits[k])
    BY <1>7, SettlesHolds
  <2>5. S \in SUBSET DOMAIN C.lits
    BY DEF OpenOnes
  <2>6. /\ Chosen(C.lits, S) \in Seq(UsedLits)
        /\ \A m \in DOMAIN Chosen(C.lits, S) : \E i \in S : Chosen(C.lits, S)[m] = C.lits[i]
    BY <2>2, <2>5, ChosenIs
  <2>7. \A m \in DOMAIN Chosen(C.lits, S) : A!Holds(a, Chosen(C.lits, S)[m])
    BY <2>4, <2>6
  <2> QED
    BY <1>1, <1>2, <2>3, <2>6, <2>7, FactsJoined
<1>8. CASE AssertFails
  <2>1. trail' = Append(TrailUpTo(0), Entry(Neg(Lit), 0, 0))
    BY <1>8 DEF AssertFails
  <2>2. A!Holds(a, Neg(Lit))
    BY <1>8, DeniedHolds
  <2>3. Prefix(TrailUpTo(0), trail) /\ TrailUpTo(0) \in Seq(EntryTypes(used, next))
    <3>1. next \in Nat /\ next <= next
      BY StateIs
    <3>2. Prefix(TrailUpTo(0), trail) /\ Sound(TrailUpTo(0), LimUpTo(0), used, next)
      BY <3>1, BackIs
    <3> QED
      BY <3>2 DEF Sound
  <2>4. FactsIn(a, TrailUpTo(0))
    BY <1>1, <2>3, FactsPrefix
  <2> QED
    BY <2>1, <2>2, <2>3, <2>4, FactsAppended
<1> QED
  BY <1>3, <1>4, <1>5, <1>6, <1>7, <1>8, TrailMoves

---------------------------------------------------------------------------
(* Conflicts.                                                              *)
(* Of two literals of a single set, one holds.                             *)
LEMMA OneOfTwo ==
  ASSUME PlainTypes, TrailInv, ListsInv, Reading(TRUE), NEW k \in DOMAIN C.lits,
         C.lits[k] # Neg(P), NEW a, Obeyed(a, clauses)
  PROVE  A!Holds(a, C.lits[k]) \/ A!Holds(a, Neg(P))
<1>1. Here \in DOMAIN C.lits /\ C.lits[Here] = Neg(P)
  BY HereIs
<1>2. Id \in DOMAIN clauses /\ C.kind = "single"
  BY ReadingIs DEF Reading
<1>3. Obeys(a, C)
  BY <1>2 DEF Obeyed, C
<1> QED
  BY <1>1, <1>2, <1>3 DEF Obeys, Elements

LEMMA SecondFails ==
  ASSUME PlainTypes, TrailInv, ListsInv, Reading(TRUE), Second # {},
         NEW a \in A!Assignments, Obeyed(a, clauses)
  PROVE  \E i \in DOMAIN trail : ~ A!Holds(a, trail[i].lit)
<1> SUFFICES ASSUME \A i \in DOMAIN trail : A!Holds(a, trail[i].lit) PROVE FALSE
  OBVIOUS
<1>1. PICK k \in DOMAIN C.lits : C.lits[k] # Neg(P) /\ IsFalse(C.lits[k])
  BY DEF Second
<1>2. A!Holds(a, C.lits[k]) \/ A!Holds(a, Neg(P))
  BY <1>1, OneOfTwo
<1>3. /\ C.lits \in Seq(UsedLits) /\ Here \in DOMAIN C.lits /\ C.lits[Here] = Neg(P)
      /\ IsFalse(Neg(P))
  BY HereIs, ReadingIs DEF Reading
<1>4. C.lits[k] \in UsedLits /\ Neg(P) \in UsedLits
  BY <1>1, <1>3
<1> QED
  BY <1>1, <1>2, <1>3, <1>4, FalseFails

(* A clause whose literals are all false. *)
LEMMA AllFail ==
  ASSUME PlainTypes, TrailInv, NEW a \in A!Assignments, NEW q \in Seq(UsedLits),
         \A k \in DOMAIN q : FalseIn(trail, q[k]),
         \E l \in Elements(q) : A!Holds(a, l)
  PROVE  \E i \in DOMAIN trail : ~ A!Holds(a, trail[i].lit)
<1>1. PICK k \in DOMAIN q : A!Holds(a, q[k])
  BY DEF Elements
<1>2. PICK i \in DOMAIN trail : trail[i].lit = Neg(q[k])
  BY DEF FalseIn, TrueIn
<1>3. q[k] \in Lits
  BY StateIs
<1> QED
  BY <1>1, <1>2, <1>3, FalseThen

LEMMA ClashStep ==
  ASSUME PlainTypes, CallsTyped, TrailInv, ListsInv, CallInv, Clash, Next
  PROVE  Clash'
<1> SUFFICES ASSUME pc' = "conflict", NEW a \in A!Assignments, Obeyed(a, clauses')
             PROVE  \E i \in DOMAIN trail' : ~ A!Holds(a, trail'[i].lit)
  BY DEF Clash, A!Assignments
<1>1. CASE VisitFails
  <2>1. Reading(FALSE) /\ trail' = trail /\ work'.clause = Turned
    BY <1>1 DEF VisitFails, Conflict, NoWork
  <2>2. \A k \in DOMAIN Turned : FalseIn(trail, Turned[k])
    BY <1>1, <2>1, FailsAnalyzed DEF Analyzed
  <2>3. Obeyed(a, clauses)
    BY <1>1, VisitsMean DEF Visits
  <2>4. Id \in DOMAIN clauses /\ C.kind # "single" /\ Turned \in Seq(UsedLits)
    BY <2>1, ReadingIs, TurnedIs DEF Reading
  <2>5. \E l \in Elements(Turned) : A!Holds(a, l)
    BY <2>1, <2>3, <2>4, TurnedSame DEF Obeyed, Obeys, C
  <2> QED
    BY <2>1, <2>2, <2>4, <2>5, AllFail
<1>2. CASE VisitClashes
  <2>1. Reading(TRUE) /\ Second # {} /\ trail' = trail
    BY <1>2 DEF VisitClashes
  <2>2. Obeyed(a, clauses)
    BY <1>2, VisitsMean DEF Visits
  <2> QED
    BY <2>1, <2>2, SecondFails
<1>3. CASE VisitRefutes
  <2>1. Reading(TRUE) /\ Second # {} /\ clauses' = clauses
    BY <1>3 DEF VisitRefutes
  <2>2. PICK i \in DOMAIN trail : ~ A!Holds(a, trail[i].lit)
    BY <2>1, SecondFails
  <2>3. PICK q : Gains(q, Id)
    BY <1>3, VisitsGain
  <2>4. used' = used /\ next' \in Nat /\ next <= next'
    BY <1>3, StateIs DEF VisitRefutes, Conflict, UnchangedByVisit
  <2>5. Prefix(trail, trail')
    BY <2>3, <2>4, GainKeepsSound
  <2>6. i \in DOMAIN trail' /\ trail'[i] = trail[i]
    BY <2>2, <2>5 DEF Prefix
  <2> QED
    BY <2>2, <2>6
<1>4. CASE Resolve
  BY <1>4 DEF Resolve, assignment, database, Analyzing, Clash
<1> QED
  BY <1>1, <1>2, <1>3, <1>4, ConflictFrom

---------------------------------------------------------------------------
(* Analysis.                                                               *)
LEMMA ConflictMeans ==
  ASSUME PlainTypes, TrailInv, NEW q \in Seq(UsedLits), Conflict(q), trail' = trail,
         \A k \in DOMAIN q : FalseIn(trail, q[k]), NEW n, NEW cl,
         \A a \in A!Assignments : Obeyed(a, cl) => \E l \in Elements(q) : A!Holds(a, l)
  PROVE  Follow(work', cl, trail', n)
<1>1. /\ work'.clause = q /\ work'.index = Len(trail) /\ work'.out = << >>
      /\ work'.seen = {}
  BY DEF Conflict, NoWork
<1>2. \A k \in DOMAIN q : \E i \in 1 .. Len(trail) : trail[i].lit = Neg(q[k])
  BY StateIs DEF FalseIn, TrueIn
<1> DEFINE w == work'
<1>3. \A a \in A!Assignments : Allows(a, cl, trail') =>
        \E l \in Elements(w.clause) : A!Holds(a, l)
  BY <1>1 DEF Allows
<1> QED
  BY <1>1, <1>2, <1>3 DEF Follow

LEMMA FailsMeans ==
  ASSUME PlainTypes, TrailInv, ListsInv, VisitFails, NEW n
  PROVE  Follow(work', clauses', trail', n)
<1>1. Reading(FALSE) /\ trail' = trail /\ work'.clause = Turned /\ Conflict(Turned)
  BY DEF VisitFails, Conflict, NoWork
<1>2. \A k \in DOMAIN Turned : FalseIn(trail, Turned[k])
  BY <1>1, FailsAnalyzed DEF Analyzed
<1>3. Id \in DOMAIN clauses /\ C.kind # "single" /\ Turned \in Seq(UsedLits)
  BY <1>1, ReadingIs, TurnedIs DEF Reading
<1>4. ASSUME NEW a, Obeyed(a, clauses') PROVE \E l \in Elements(Turned) : A!Holds(a, l)
  <2>1. Obeyed(a, clauses)
    BY <1>4, VisitsMean DEF Visits
  <2> QED
    BY <1>1, <1>3, <2>1, TurnedSame DEF Obeyed, Obeys, C
<1> QED
  BY <1>1, <1>2, <1>3, <1>4, ConflictMeans

LEMMA ClashesMeans ==
  ASSUME PlainTypes, TrailInv, ListsInv, VisitClashes, NEW n
  PROVE  Follow(work', clauses', trail', n)
<1> DEFINE k == Least(Second)
           front == IF k > Here THEN Swap(C.lits, Here, 1) ELSE C.lits
           second == Swap(front, k, 2)
           pair == Swap(second, IndexOf(second, Neg(P)), 1)
           two == SubSeq(pair, 1, 2)
<1>1. Reading(TRUE) /\ Second # {} /\ Conflict(two) /\ trail' = trail
      /\ work'.clause = two
  BY DEF VisitClashes, Conflict, NoWork
<1>2. /\ pair \in Seq(UsedLits) /\ Len(pair) = Len(C.lits)
      /\ pair[1] = Neg(P) /\ pair[2] = C.lits[k] /\ k \in DOMAIN C.lits
  BY <1>1, ClashIs
<1>3. Len(C.lits) \in Nat /\ Len(C.lits) > 2
  BY <1>1, HereIs
<1>4. C.lits[k] # Neg(P)
  <2>1. Second \in SUBSET Nat
    BY <1>1, HereIs DEF Second
  <2> QED
    BY <1>1, <2>1, LeastOf DEF Second
<1>5. \A m \in DOMAIN two : FalseIn(trail, two[m])
  BY <1>1, ClashesAnalyzed DEF Analyzed
<1> HIDE DEF k, front, second, pair
<1>6. /\ two \in Seq(UsedLits) /\ DOMAIN two = {1, 2}
      /\ two[1] = pair[1] /\ two[2] = pair[2]
  BY <1>2, <1>3
<1> HIDE DEF two
<1>7. ASSUME NEW a, Obeyed(a, clauses') PROVE \E l \in Elements(two) : A!Holds(a, l)
  <2>1. Obeyed(a, clauses)
    BY <1>7, VisitsMean DEF Visits
  <2>2. A!Holds(a, C.lits[k]) \/ A!Holds(a, Neg(P))
    BY <1>1, <1>2, <1>4, <2>1, OneOfTwo
  <2> QED
    BY <1>2, <1>6, <2>2 DEF Elements
<1> QED
  BY <1>1, <1>5, <1>6, <1>7, ConflictMeans

(* In analysis, of what is put out a literal holds, or the opposite of a   *)
(* literal of the present level.                                           *)
LEMMA OutOrPresent ==
  ASSUME PlainTypes, CallsTyped, TrailInv, WorkInv, WorkMeans, Analyzing,
         NEW a \in A!Assignments, Allows(a, clauses, trail)
  PROVE  \/ \E l \in Elements(Out) : A!Holds(a, l)
         \/ \E i \in Present : ~ A!Holds(a, trail[i].lit)
<1> DEFINE n == Len(lim)
<1>1. n \in Nat \ {0} /\ pc = "conflict" /\ n \in DOMAIN lim /\ CurrentLevel = n
  BY StateIs DEF Analyzing, CurrentLevel
<1>2. Follow(work, clauses, trail, n) /\ Analyzed(work, trail, n)
  BY <1>1 DEF WorkMeans, WorkInv
<1>3. work.clause \in Seq(UsedLits) /\ work.out \in Seq(UsedLits) /\ work.index \in Nat
  BY WorkIs
<1>4. \A i \in 1 .. work.index : i \in DOMAIN trail /\ i \in Nat
  BY <1>2, <1>3, StateIs DEF Analyzed
<1> HIDE DEF n
<1>5. ASSUME NEW i \in 1 .. work.index, trail[i].level = n, trail[i].lit[1] \in Seen
      PROVE  i \in Present
  <2>1. lim[n] < i /\ lim[n] \in Nat
    BY <1>1, <1>4, <1>5, StateIs DEF Levelled
  <2>2. i \in lim[n] + 1 .. work.index
    BY <1>4, <2>1
  <2> QED
    BY <1>1, <1>5, <2>2 DEF Present
<1>6. \A k \in DOMAIN work.out : work.out[k] \in Elements(Out)
  <2>1. Lower \in Seq(UsedLits)
    BY <1>3, ChosenIs DEF Lower, Fresh
  <2>2. \A k \in DOMAIN work.out : k \in DOMAIN Out /\ Out[k] = work.out[k]
    BY <1>3, <2>1, Joined DEF Out
  <2> QED
    BY <2>2 DEF Elements
<1>7. \A k \in Fresh : Level(work.clause[k][1]) < n => work.clause[k] \in Elements(Out)
  <2> DEFINE S == {k \in Fresh : Level(work.clause[k][1]) < CurrentLevel}
  <2>1. S \in SUBSET DOMAIN work.clause
    BY DEF Fresh
  <2>2. Lower = Chosen(work.clause, S)
    BY DEF Lower
  <2> HIDE DEF S
  <2>3. /\ Lower \in Seq(UsedLits)
        /\ \A k \in S : \E m \in DOMAIN Lower : Lower[m] = work.clause[k]
    BY <1>3, <2>1, <2>2, ChosenIs
  <2>4. \A m \in DOMAIN Lower : Lower[m] \in Elements(Out)
    <3> TAKE m \in DOMAIN Lower
    <3>1. m \in 1 .. Len(Lower) /\ Len(Lower) \in Nat /\ Len(work.out) \in Nat
      BY <1>3, <2>3
    <3>2. Len(work.out) + m \in DOMAIN Out /\ Out[Len(work.out) + m] = Lower[m]
      BY <1>3, <2>3, <3>1, Joined DEF Out
    <3> QED
      BY <3>2 DEF Elements
  <2> QED
    BY <1>1, <2>3, <2>4 DEF S
<1>8. ASSUME NEW k \in DOMAIN work.clause, A!Holds(a, work.clause[k]),
             \A i \in Present : A!Holds(a, trail[i].lit)
      PROVE  work.clause[k] \in Elements(Out)
  <2> DEFINE l == work.clause[k]
  <2>1. PICK i \in 1 .. work.index : trail[i].lit = Neg(l)
    BY <1>2 DEF Follow
  <2>2. l \in UsedLits /\ l \in Lits /\ l \in NatLits /\ i \in DOMAIN trail
    BY <1>3, <1>4, StateIs
  <2>3. Neg(l)[1] = l[1]
    BY <2>2, Numbered
  <2>4. ~ A!Holds(a, trail[i].lit)
    BY <1>8, <2>1, <2>2, FalseThen
  <2>5. trail[i].level \in 1 .. n
    <3>1. trail[i].level # 0
      BY <2>2, <2>4 DEF Allows, FactsIn
    <3> QED
      BY <2>2, <3>1, StateIs DEF n
  <2>6. Level(l[1]) = trail[i].level
    BY <2>1, <2>2, <2>3, PlaceIs, StateIs
  <2> HIDE DEF l
  <2>7. l[1] \notin work.seen => k \in Fresh /\ l[1] \in Seen
    <3>1. l[1] \notin work.seen => k \in Fresh
      BY <2>5, <2>6 DEF Fresh, l
    <3> QED
      BY <3>1 DEF Seen, l
  <2>8. l[1] \in Seen
    BY <2>7 DEF Seen
  <2>9. trail[i].level # n
    BY <1>5, <1>8, <2>1, <2>3, <2>4, <2>8
  <2>10. CASE l[1] \notin work.seen
    BY <1>1, <1>7, <2>5, <2>6, <2>7, <2>9, <2>10 DEF l
  <2>11. CASE l[1] \in work.seen
    <3>1. ~ LevelIn(trail, l[1], n)
      BY <2>1, <2>2, <2>3, <2>9, StateIs DEF LevelIn, OneEach
    <3>2. PICK m \in DOMAIN work.out : work.out[m][1] = l[1]
      BY <1>2, <2>11, <3>1 DEF Follow
    <3>3. PICK j \in DOMAIN trail : trail[j].lit = Neg(work.out[m])
      BY <1>2 DEF Analyzed, FalseIn, TrueIn
    <3>4. work.out[m] \in NatLits
      BY <1>3, StateIs
    <3>5. Neg(work.out[m])[1] = l[1] /\ Neg(l)[1] = l[1]
      BY <3>2, <3>4, <2>3, Numbered
    <3>6. j = i
      BY <2>1, <2>2, <3>3, <3>5, StateIs DEF OneEach
    <3>7. Neg(work.out[m]) = Neg(l)
      BY <2>1, <3>3, <3>6
    <3>8. work.out[m] = l
      BY <2>2, <3>4, <3>7, Numbered
    <3> QED
      BY <1>6, <3>8 DEF l
  <2> QED
    BY <2>10, <2>11
<1>9. \/ \E l \in Elements(work.clause) \cup Elements(work.out) : A!Holds(a, l)
      \/ SeenLeft(a, work, trail, n)
  BY <1>2 DEF Follow
<1>10. CASE \E l \in Elements(work.clause) : A!Holds(a, l)
  <2>1. PICK k \in DOMAIN work.clause : A!Holds(a, work.clause[k])
    BY <1>10 DEF Elements
  <2> QED
    BY <1>8, <2>1
<1>11. CASE \E l \in Elements(work.out) : A!Holds(a, l)
  <2>1. PICK k \in DOMAIN work.out : A!Holds(a, work.out[k])
    BY <1>11 DEF Elements
  <2> QED
    BY <1>6, <2>1
<1>12. CASE SeenLeft(a, work, trail, n)
  <2>1. PICK i \in 1 .. work.index : /\ trail[i].level = n
                                     /\ trail[i].lit[1] \in work.seen
                                     /\ ~ A!Holds(a, trail[i].lit)
    BY <1>12 DEF SeenLeft
  <2>2. trail[i].lit[1] \in Seen
    BY <2>1 DEF Seen
  <2> QED
    BY <1>5, <2>1, <2>2
<1> QED
  BY <1>9, <1>10, <1>11, <1>12

(* What has been seen is of the present level, or put out. *)
LEMMA SeenIs ==
  ASSUME PlainTypes, CallsTyped, TrailInv, WorkInv, WorkMeans, Analyzing
  PROVE  \A v \in Seen : \/ LevelIn(trail, v, Len(lim))
                         \/ \E k \in DOMAIN Out : Out[k][1] = v
<1> DEFINE n == Len(lim)
<1>1. n \in Nat \ {0} /\ pc = "conflict" /\ CurrentLevel = n
  BY StateIs DEF Analyzing, CurrentLevel
<1>2. Follow(work, clauses, trail, n) /\ Analyzed(work, trail, n)
  BY <1>1 DEF WorkMeans, WorkInv
<1>3. work.clause \in Seq(UsedLits) /\ work.out \in Seq(UsedLits)
  BY WorkIs
<1> HIDE DEF n
<1> DEFINE S == {k \in Fresh : Level(work.clause[k][1]) < CurrentLevel}
<1>4. S \in SUBSET DOMAIN work.clause
  BY DEF Fresh
<1>5. Lower = Chosen(work.clause, S)
  BY DEF Lower
<1>6. Lower \in Seq(UsedLits)
      /\ \A k \in S : \E m \in DOMAIN Lower : Lower[m] = work.clause[k]
  <2> HIDE DEF S
  <2> QED
    BY <1>3, <1>4, <1>5, ChosenIs
<1>7. /\ \A k \in DOMAIN work.out : k \in DOMAIN Out /\ Out[k] = work.out[k]
      /\ \A m \in DOMAIN Lower : \E k \in DOMAIN Out : Out[k] = Lower[m]
  <2>1. DOMAIN Lower = 1 .. Len(Lower) /\ Len(Lower) \in Nat /\ Len(work.out) \in Nat
        /\ DOMAIN work.out = 1 .. Len(work.out)
    BY <1>3, <1>6
  <2>2. /\ DOMAIN Out = 1 .. Len(work.out) + Len(Lower)
        /\ \A k \in DOMAIN work.out : Out[k] = work.out[k]
        /\ \A m \in 1 .. Len(Lower) : Out[Len(work.out) + m] = Lower[m]
    BY <1>3, <1>6, Joined DEF Out
  <2> QED
    BY <2>1, <2>2
<1>8. ASSUME NEW v \in work.seen
      PROVE  LevelIn(trail, v, n) \/ \E k \in DOMAIN Out : Out[k][1] = v
  <2>1. LevelIn(trail, v, n) \/ \E k \in DOMAIN work.out : work.out[k][1] = v
    BY <1>2 DEF Follow
  <2> QED
    BY <1>7, <2>1
<1>9. ASSUME NEW k \in Fresh
      PROVE  \/ LevelIn(trail, work.clause[k][1], n)
             \/ \E m \in DOMAIN Out : Out[m][1] = work.clause[k][1]
  <2>1. k \in DOMAIN work.clause /\ work.clause[k] \in UsedLits
    BY <1>3 DEF Fresh
  <2>2. IsFalse(work.clause[k])
    BY <1>2, <2>1, TrueIs DEF Analyzed
  <2>3. PICK i \in DOMAIN trail : /\ trail[i].lit[1] = work.clause[k][1]
                                  /\ Level(work.clause[k][1]) = trail[i].level
    BY <2>1, <2>2, FalseHasPlace
  <2>4. CASE trail[i].level = n
    BY <2>3, <2>4 DEF LevelIn
  <2>5. CASE trail[i].level # n
    <3>1. trail[i].level < n
      BY <1>1, <2>3, <2>5, StateIs DEF n
    <3>2. k \in S
      BY <1>1, <2>3, <3>1
    <3> QED
      BY <1>6, <1>7, <3>2
  <2> QED
    BY <2>4, <2>5
<1> QED
  BY <1>8, <1>9 DEF Seen, n

LEMMA ResolveMeans ==
  ASSUME PlainTypes, CallsTyped, TrailInv, ListsInv, ReasonsInv, WorkInv, WorkMeans,
         Resolve
  PROVE  Follow(work', clauses, trail, Len(lim))
<1> DEFINE n == Len(lim)
           r == clauses[trail[Uip].why].lits
           c == Tail(r)
<1>1. Analyzing /\ \E i \in Present : i # Uip
  BY DEF Resolve
<1>2. /\ work'.clause = c /\ work'.index = Uip - 1 /\ work'.seen = Seen
      /\ work'.out = Out
  BY DEF Resolve, CallsTyped, WorkTypes
<1>3. Uip \in DOMAIN trail /\ HasReason(trail, Uip)
  BY <1>1, UipForced
<1>4. /\ trail[Uip].why \in DOMAIN clauses
      /\ Forced(trail, Uip, clauses[trail[Uip].why])
  BY <1>3 DEF ReasonsInv, Reasoned
<1>5. Clean(clauses[trail[Uip].why], used)
  BY <1>4 DEF ListsInv, ClausesOf
<1>6. r \in Seq(UsedLits) /\ Len(r) \in Nat \ {0, 1}
  BY <1>5, StateIs, WatchedIs DEF UsedLits
<1>7. \A k \in 2 .. Len(r) : FalseBefore(trail, r[k], Uip)
  BY <1>4 DEF Forced
<1>8. \A i \in Present : i \in 1 .. Uip /\ trail[i].level = n /\ trail[i].lit[1] \in Seen
  <2>1. \A i \in Present : i \in DOMAIN trail /\ i \in Nat /\ trail[i].level = n
                           /\ trail[i].lit[1] \in Seen
    BY <1>1, PresentIs
  <2>2. \A i \in Present : i <= Uip
    BY <1>1, PresentIs
  <2> QED
    BY <1>3, <2>1, <2>2, StateIs
<1>9. Uip \in Nat /\ n \in Nat
  BY <1>3, StateIs
<1> HIDE DEF r, n
<1>10. /\ c \in Seq(UsedLits) /\ DOMAIN c = 1 .. Len(r) - 1
       /\ \A k \in DOMAIN c : c[k] = r[k + 1]
  BY <1>6
<1>11. \A k \in 2 .. Len(r) : r[k] \in Elements(c)
  <2> TAKE k \in 2 .. Len(r)
  <2>1. k - 1 \in DOMAIN c /\ c[k - 1] = r[k]
    BY <1>6, <1>10
  <2> QED
    BY <2>1 DEF Elements
<1> HIDE DEF c
<1>12. \A k \in DOMAIN c : \E i \in 1 .. Uip - 1 : trail[i].lit = Neg(c[k])
  <2> TAKE k \in DOMAIN c
  <2>1. k + 1 \in 2 .. Len(r) /\ c[k] = r[k + 1]
    BY <1>6, <1>10
  <2>2. PICK j \in DOMAIN trail : j < Uip /\ trail[j].lit = Neg(c[k])
    BY <1>7, <2>1 DEF FalseBefore
  <2>3. j \in 1 .. Uip - 1
    BY <1>9, <2>2, StateIs
  <2> QED
    BY <2>2, <2>3
<1>13. \A v \in Seen : LevelIn(trail, v, n) \/ \E k \in DOMAIN Out : Out[k][1] = v
  BY <1>1, SeenIs DEF n
<1>14. ASSUME NEW a \in A!Assignments, Allows(a, clauses, trail)
       PROVE  \/ \E l \in Elements(c) \cup Elements(Out) : A!Holds(a, l)
              \/ SeenLeft(a, work', trail, n)
  <2>1. CASE \E l \in Elements(Out) : A!Holds(a, l)
    BY <2>1
  <2>2. CASE \E i \in Present : ~ A!Holds(a, trail[i].lit)
    <3>1. PICK i \in Present : ~ A!Holds(a, trail[i].lit)
      BY <2>2
    <3>2. CASE i = Uip
      <4>1. Obeyed(a, clauses)
        BY <1>14 DEF Allows
      <4>2. \E k \in 2 .. Len(r) : A!Holds(a, r[k])
        BY <1>3, <3>1, <3>2, <4>1, ReasonGives DEF r
      <4> QED
        BY <1>11, <4>2
    <3>3. CASE i # Uip
      <4>1. i \in 1 .. Uip - 1
        BY <1>8, <1>9, <3>3
      <4>2. i \in 1 .. work'.index
        BY <1>2, <4>1
      <4> QED
        BY <1>2, <1>8, <3>1, <4>2 DEF SeenLeft
    <3> QED
      BY <3>2, <3>3
  <2> QED
    BY <1>1, <1>14, <2>1, <2>2, OutOrPresent
<1> QED
  BY <1>2, <1>12, <1>13, <1>14 DEF Follow, n

LEMMA WorkMeansStep ==
  ASSUME PlainTypes, CallsTyped, TrailInv, ListsInv, ReasonsInv, CallInv, WorkInv,
         WorkMeans, Next
  PROVE  WorkMeans'
<1> SUFFICES ASSUME pc' = "conflict", Len(lim') > 0
             PROVE  Follow(work', clauses', trail', Len(lim'))
  BY DEF WorkMeans
<1>1. VisitFails \/ VisitClashes \/ VisitRefutes \/ Resolve
  BY ConflictFrom
<1>2. VisitRefutes => lim' = lim /\ Len(lim) = 0
  BY DEF VisitRefutes, CurrentLevel, Conflict, UnchangedByVisit
<1>3. ~ VisitRefutes
  BY <1>2
<1>4. Resolve => clauses' = clauses /\ trail' = trail /\ lim' = lim
  BY DEF Resolve, database, assignment
<1>5. Resolve => Follow(work', clauses, trail, Len(lim))
  BY ResolveMeans
<1> QED
  BY <1>1, <1>3, <1>4, <1>5, FailsMeans, ClashesMeans

---------------------------------------------------------------------------
(* Learning.                                                               *)
(* A redundant literal holds only with one that is kept.                   *)
LEMMA KeptMeans ==
  ASSUME PlainTypes, CallsTyped, TrailInv, ListsInv, ReasonsInv, WorkInv, Analyzing,
         NEW a \in A!Assignments, Allows(a, clauses, trail),
         \E l \in Elements(Out) : A!Holds(a, l)
  PROVE  \E l \in Elements(Kept) : A!Holds(a, l)
<1> SUFFICES ASSUME \A l \in Elements(Kept) : ~ A!Holds(a, l) PROVE FALSE
  OBVIOUS
<1>1. /\ Out \in Seq(UsedLits)
      /\ \A k \in DOMAIN Out : IsFalse(Out[k]) /\ Out[k] \in UsedLits
  BY OutIs
<1>2. \A k \in DOMAIN Out : ~ Redundant(Out[k][1]) => Out[k] \in Elements(Kept)
  <2> DEFINE S == {k \in DOMAIN Out : ~ Redundant(Out[k][1])}
  <2>1. S \in SUBSET DOMAIN Out /\ Kept = Chosen(Out, S)
    BY DEF Kept
  <2>2. \A k \in DOMAIN Out : ~ Redundant(Out[k][1]) => k \in S
    OBVIOUS
  <2> HIDE DEF S
  <2>3. \A k \in S : \E m \in DOMAIN Kept : Kept[m] = Out[k]
    BY <1>1, <2>1, ChosenIs
  <2> QED
    BY <2>2, <2>3 DEF Elements
<1> DEFINE T == {i \in DOMAIN trail : ~ A!Holds(a, trail[i].lit)
                                      /\ Redundant(trail[i].lit[1])}
<1>3. ASSUME NEW l \in UsedLits, A!Holds(a, l), Redundant(l[1]),
             NEW i \in DOMAIN trail, trail[i].lit = Neg(l)
      PROVE  i \in T
  <2>1. l \in Lits /\ l \in NatLits
    BY StateIs
  <2>2. Neg(l)[1] = l[1]
    BY <2>1, Numbered
  <2>3. ~ A!Holds(a, trail[i].lit)
    BY <1>3, <2>1, FalseThen
  <2>4. trail[i].lit[1] = l[1]
    BY <1>3, <2>2
  <2> QED
    BY <1>3, <2>3, <2>4
<1>4. PICK l \in Elements(Out) : A!Holds(a, l)
  OBVIOUS
<1>5. PICK k \in DOMAIN Out : l = Out[k]
  BY DEF Elements
<1>6. Redundant(l[1])
  BY <1>2, <1>4, <1>5
<1>7. PICK i \in DOMAIN trail : trail[i].lit = Neg(l)
  BY <1>1, <1>5 DEF IsFalse, IsTrue
<1>8. T # {} /\ T \in SUBSET Nat
  <2>1. i \in T
    BY <1>1, <1>3, <1>4, <1>5, <1>6, <1>7
  <2>2. T \in SUBSET DOMAIN trail
    OBVIOUS
  <2> HIDE DEF T
  <2> QED
    BY <2>1, <2>2, StateIs
<1> DEFINE m == Least(T)
<1>9. m \in T /\ \A j \in T : m <= j
  BY <1>8, LeastOf
<1> HIDE DEF m
<1>10. m \in DOMAIN trail /\ ~ A!Holds(a, trail[m].lit) /\ Redundant(trail[m].lit[1])
       /\ m \in Nat
  BY <1>8, <1>9
<1> DEFINE v == trail[m].lit[1]
<1>11. PICK W \in SUBSET Assigned : v \in W /\ \A w \in W : LeadsInto(w, W)
  BY <1>10 DEF Redundant
<1>12. Why(v) = trail[m].why
  BY <1>10, PlaceIs, StateIs
<1>13. trail[m].level # 0 /\ Obeyed(a, clauses)
  BY <1>10 DEF Allows, FactsIn
<1>14. HasReason(trail, m)
  <2>1. trail[m].why # 0
    BY <1>11, <1>12 DEF LeadsInto
  <2> QED
    BY <1>10, <1>13, <2>1, StateIs DEF HasReason
<1> DEFINE q == clauses[trail[m].why].lits
<1>15. PICK n \in 2 .. Len(q) : \E j \in DOMAIN trail :
         /\ j < m /\ trail[j].lit = Neg(q[n])
         /\ q[n] \in UsedLits /\ A!Holds(a, q[n])
         /\ ~ A!Holds(a, trail[j].lit)
  BY <1>10, <1>13, <1>14, ReasonGives
<1>16. PICK j \in DOMAIN trail :
         /\ j < m /\ trail[j].lit = Neg(q[n])
         /\ q[n] \in UsedLits /\ A!Holds(a, q[n])
         /\ ~ A!Holds(a, trail[j].lit)
  BY <1>15
<1>17. q[n] \in Range(Tail(q))
  <2>1. trail[m].why \in DOMAIN clauses
    BY <1>10, <1>14 DEF ReasonsInv, Reasoned
  <2>2. Clean(clauses[trail[m].why], used)
    BY <2>1 DEF ListsInv, ClausesOf
  <2>3. q \in Seq(UsedLits) /\ Len(q) \in Nat
    BY <2>2, StateIs, WatchedIs DEF UsedLits
  <2> HIDE DEF q
  <2>4. n - 1 \in DOMAIN Tail(q) /\ Tail(q)[n - 1] = q[n]
    BY <2>3
  <2> QED
    BY <2>4 DEF Range
<1>18. \/ q[n][1] \in OutVars
       \/ Level(q[n][1]) = 0
       \/ q[n][1] \in W
  BY <1>11, <1>12, <1>17 DEF LeadsInto
<1> HIDE DEF q, v
<1>19. q[n] \in NatLits /\ Neg(q[n])[1] = q[n][1]
  BY <1>16, StateIs, Numbered
<1>20. ~ Redundant(q[n][1])
  <2>1. ~ (m <= j)
    BY <1>10, <1>16, StateIs
  <2>2. j \notin T
    BY <1>9, <2>1
  <2> QED
    BY <1>3, <1>16, <2>2
<1>21. CASE q[n][1] \in OutVars
  <2>1. PICK o \in DOMAIN Out : Out[o][1] = q[n][1]
    BY <1>21 DEF OutVars, Range
  <2>2. Out[o] \in NatLits /\ Neg(Out[o])[1] = Out[o][1]
    BY <1>1, StateIs, Numbered
  <2>3. PICK p \in DOMAIN trail : trail[p].lit = Neg(Out[o])
    BY <1>1 DEF IsFalse, IsTrue
  <2>4. p = j
    BY <1>16, <1>19, <2>1, <2>2, <2>3, StateIs DEF OneEach
  <2>5. Neg(Out[o]) = Neg(q[n])
    BY <1>16, <2>3, <2>4
  <2>6. Out[o] = q[n]
    BY <1>19, <2>2, <2>5, Numbered
  <2> QED
    BY <1>2, <1>16, <1>20, <2>6
<1>22. CASE Level(q[n][1]) = 0
  <2>1. Level(q[n][1]) = trail[j].level
    BY <1>16, <1>19, PlaceIs, StateIs
  <2> QED
    BY <1>16, <1>22, <2>1 DEF Allows, FactsIn
<1>23. CASE q[n][1] \in W
  BY <1>11, <1>20, <1>23 DEF Redundant
<1> QED
  BY <1>18, <1>21, <1>22, <1>23

LEMMA NewObeyed ==
  ASSUME NEW a, Obeyed(a, clauses), NEW lits, NEW kind, NewClause(lits, kind),
         IF kind = "single"
         THEN \A l, m \in Elements(lits) : l # m => A!Holds(a, l) \/ A!Holds(a, m)
         ELSE \E l \in Elements(lits) : A!Holds(a, l)
  PROVE  Obeyed(a, clauses')
<1> DEFINE c == [lits |-> lits, kind |-> kind]
<1>1. c.lits = lits /\ c.kind = kind
  OBVIOUS
<1>2. clauses' = [i \in DOMAIN clauses \cup {next} |-> IF i = next THEN c ELSE clauses[i]]
  BY DEF NewClause
<1> HIDE DEF c
<1>3. Obeys(a, c)
  BY <1>1 DEF Obeys
<1> QED
  BY <1>2, <1>3 DEF Obeyed

(* The clause learnt, or the literal when it is the only one.              *)
LEMMA LearntMeans ==
  ASSUME PlainTypes, CallsTyped, TrailInv, ListsInv, ReasonsInv, WorkInv, WorkMeans,
         Learn, NEW a \in A!Assignments, Allows(a, clauses, trail)
  PROVE  A!Holds(a, Asserting) \/ \E l \in Elements(Kept) : A!Holds(a, l)
<1>1. Analyzing /\ Present # {} /\ \A i \in Present : i = Uip
  BY DEF Learn
<1>2. CASE \E l \in Elements(Out) : A!Holds(a, l)
  BY <1>1, <1>2, KeptMeans
<1>3. CASE \E i \in Present : ~ A!Holds(a, trail[i].lit)
  <2>1. Uip \in Present /\ ~ A!Holds(a, trail[Uip].lit)
    BY <1>1, <1>3
  <2>2. trail[Uip].lit \in Lits
    BY <1>1, <2>1, PresentIs, StateIs
  <2> QED
    BY <2>1, <2>2, HoldsOr DEF Asserting
<1> QED
  BY <1>1, <1>2, <1>3, OutOrPresent

LEMMA LearntObeyed ==
  ASSUME PlainTypes, CallsTyped, TrailInv, ListsInv, ReasonsInv, WorkInv, WorkMeans,
         Learn, Kept # << >>, NEW a \in A!Assignments, Allows(a, clauses, trail)
  PROVE  \E l \in Elements(LearntClause) : A!Holds(a, l)
<1> DEFINE q == Swap(Kept, 1, Foremost)
<1>1. Analyzing
  BY DEF Learn
<1>2. /\ Kept \in Seq(UsedLits) /\ Foremost \in DOMAIN Kept /\ Asserting \in UsedLits
  BY <1>1, KeptIs, LearntIs DEF Learn
<1>3. 1 \in DOMAIN Kept
  BY <1>2
<1>4. Elements(q) = Elements(Kept) /\ q \in Seq(UsedLits)
  BY <1>2, <1>3, SwapKeeps, Swapped
<1>5. LearntClause = <<Asserting>> \o q
  BY DEF LearntClause
<1> HIDE DEF q
<1> DEFINE s == <<Asserting>>
<1>6. s \in Seq(UsedLits) /\ Len(s) = 1 /\ s[1] = Asserting /\ DOMAIN s = 1 .. 1
  BY <1>2
<1> HIDE DEF s
<1>7. /\ DOMAIN (s \o q) = 1 .. 1 + Len(q) /\ Len(q) \in Nat /\ DOMAIN q = 1 .. Len(q)
      /\ (s \o q)[1] = Asserting
      /\ \A m \in 1 .. Len(q) : (s \o q)[1 + m] = q[m]
  BY <1>4, <1>6, Joined
<1>8. Asserting \in Elements(s \o q)
  <2>1. 1 \in DOMAIN (s \o q)
    BY <1>7
  <2> QED
    BY <1>7, <2>1 DEF Elements
<1>9. \A l \in Elements(Kept) : l \in Elements(s \o q)
  <2> SUFFICES ASSUME NEW l \in Elements(q) PROVE l \in Elements(s \o q)
    BY <1>4
  <2>1. PICK m \in DOMAIN q : l = q[m]
    BY DEF Elements
  <2>2. 1 + m \in DOMAIN (s \o q) /\ (s \o q)[1 + m] = q[m]
    BY <1>7
  <2> QED
    BY <2>1, <2>2 DEF Elements
<1> QED
  BY <1>5, <1>8, <1>9, LearntMeans DEF s

LEMMA LearnKeeps ==
  ASSUME PlainTypes, CallsTyped, TrailInv, ListsInv, ReasonsInv, WorkInv, WorkMeans,
         Learn, NEW a \in A!Assignments, Allows(a, clauses, trail)
  PROVE  Allows(a, clauses', trail')
<1> DEFINE b == BackLevel
           t == TrailUpTo(b)
<1>1. Analyzing /\ Present # {}
  BY DEF Learn
<1>2. Obeyed(a, clauses) /\ FactsIn(a, trail)
  BY DEF Allows
<1>3. b \in Nat /\ next \in Nat
  BY <1>1, LearntIs, StateIs
<1>4. Prefix(t, trail) /\ t \in Seq(EntryTypes(used, next))
  <2>1. Prefix(t, trail) /\ Sound(t, LimUpTo(b), used, next)
    BY <1>3, BackIs
  <2> QED
    BY <2>1 DEF Sound
<1>5. FactsIn(a, t)
  BY <1>2, <1>4, FactsPrefix
<1>6. trail' = Append(t, Entry(Asserting, IF Kept = << >> THEN 0 ELSE next, b))
  BY DEF Learn
<1>7. CASE Kept = << >>
  <2>1. clauses' = clauses
    BY <1>7 DEF Learn, database
  <2>2. A!Holds(a, Asserting)
    <3>1. Elements(Kept) = {}
      BY <1>7 DEF Elements
    <3> QED
      BY <3>1, LearntMeans
  <2>3. FactsIn(a, trail')
    BY <1>3, <1>4, <1>5, <1>6, <2>2, FactsAppended
  <2> QED
    BY <1>2, <2>1, <2>3 DEF Allows
<1>8. CASE Kept # << >>
  <2>1. b # 0
    BY <1>1, <1>8, LearntIs
  <2>2. FactsIn(a, trail')
    BY <1>3, <1>4, <1>5, <1>6, <2>1, FactsAppended
  <2>3. NewClause(LearntClause, "learnt")
    BY <1>8 DEF Learn
  <2>4. Obeyed(a, clauses')
    BY <1>2, <1>8, <2>3, LearntObeyed, NewObeyed
  <2> QED
    BY <2>2, <2>4 DEF Allows
<1> QED
  BY <1>7, <1>8

---------------------------------------------------------------------------
(* Calls that add.                                                         *)
LEMMA MoreGiven ==
  ASSUME NEW F, NEW G, NEW a \in A!Models(F \cup G)
  PROVE  a \in A!Models(F) /\ \A c \in G : \E l \in c : A!Holds(a, l)
BY DEF A!Models, A!Satisfies

LEMMA SettleMeans ==
  ASSUME PlainTypes, TrailInv, Len(lim) = 0, ok, NEW a, Allows(a, clauses, trail),
         NEW lits \in Seq(UsedLits), NEW twice \in Seq(UsedLits), NEW kind,
         Settle(lits, kind, twice),
         \A m \in DOMAIN twice : A!Holds(a, twice[m]),
         IF kind = "single"
         THEN /\ Len(lits) > 1
              /\ \A m, n \in DOMAIN lits : m # n =>
                   A!Holds(a, lits[m]) \/ A!Holds(a, lits[n])
         ELSE \E l \in Elements(lits) : A!Holds(a, l)
  PROVE  ok' /\ Allows(a, clauses', trail')
<1>1. Obeyed(a, clauses) /\ FactsIn(a, trail)
  BY DEF Allows
<1>2. trail \in Seq(EntryTypes(used, next)) /\ CurrentLevel = 0 /\ 0 \in Nat
  BY StateIs DEF CurrentLevel
<1>3. DOMAIN lits = 1 .. Len(lits) /\ Len(lits) \in Nat
  OBVIOUS
<1>4. CASE Len(lits) = 0
  BY <1>3, <1>4 DEF Elements
<1>5. CASE Len(lits) = 1
  <2>1. Enqueue(lits[1], 0) /\ ok' = ok /\ clauses' = clauses
    BY <1>5 DEF Settle, database
  <2>2. A!Holds(a, lits[1])
    BY <1>3, <1>5 DEF Elements
  <2>3. FactsIn(a, trail')
    BY <1>1, <1>2, <2>1, <2>2, FactsAppended DEF Enqueue
  <2> QED
    BY <1>1, <2>1, <2>3 DEF Allows
<1>6. CASE Len(lits) > 1
  <2> DEFINE new == IF kind = "single" /\ Len(lits) > 2 THEN "single" ELSE "clause"
  <2>1. EnqueueAll(twice, 0) /\ NewClause(lits, new) /\ ok' = ok
    <3>1. Len(lits) # 0 /\ Len(lits) # 1
      BY <1>3, <1>6
    <3> QED
      BY <3>1, Zenon DEF Settle
  <2>2. trail' = Grown(trail, twice, 0, 0)
    BY <1>2, <2>1 DEF EnqueueAll, Entries, Grown, Put
  <2>3. FactsIn(a, trail')
    BY <1>1, <1>2, <2>2, FactsJoined
  <2>4. IF new = "single"
        THEN \A l, m \in Elements(lits) : l # m => A!Holds(a, l) \/ A!Holds(a, m)
        ELSE \E l \in Elements(lits) : A!Holds(a, l)
    <3>1. CASE kind = "single" /\ Len(lits) > 2
      BY <3>1 DEF Elements
    <3>2. CASE kind = "single" /\ ~ (Len(lits) > 2)
      <4>1. 1 \in DOMAIN lits /\ 2 \in DOMAIN lits
        BY <1>3, <1>6
      <4>2. A!Holds(a, lits[1]) \/ A!Holds(a, lits[2])
        BY <3>2, <4>1
      <4> QED
        BY <3>2, <4>1, <4>2 DEF Elements
    <3>3. CASE kind # "single"
      BY <3>3
    <3> QED
      BY <3>1, <3>2, <3>3
  <2> HIDE DEF new
  <2>5. Obeyed(a, clauses')
    BY <1>1, <2>1, <2>4, NewObeyed
  <2> QED
    BY <2>1, <2>3, <2>5 DEF Allows
<1> QED
  BY <1>3, <1>4, <1>5, <1>6

LEMMA ClauseMeans ==
  ASSUME PlainTypes, CallsTyped, TrailInv, AddAClause, ok, NEW a \in A!Models(given'),
         Allows(a, clauses, trail)
  PROVE  ok' /\ Allows(a, clauses', trail')
<1> DEFINE L == Range(Args)
           S == {l \in L : ~ IsFalse(l)}
<1>1. NextCall("clause") /\ Len(lim) = 0 /\ given' = given \cup Says(Head(calls))
  BY DEF AddAClause, Adds, CurrentLevel
<1>2. Args \in Seq(UsedLits) /\ Head(calls).op = "clause"
  BY <1>1, CallIs
<1>3. Says(Head(calls)) = {L}
  BY <1>2 DEF Says, Args
<1>4. a \in A!Assignments /\ \E l \in L : A!Holds(a, l)
  BY <1>1, <1>3, MoreGiven DEF A!Models
<1>5. \A i \in DOMAIN trail : A!Holds(a, trail[i].lit)
  BY <1>1, AllFacts DEF Allows
<1>6. L \in SUBSET UsedLits
  BY <1>2 DEF Range
<1>7. \E l \in S : A!Holds(a, l)
  BY <1>4, <1>5, <1>6, FalseFails
<1>8. AddsNothing \/ Settle(LitsInOrder(S), "clause", << >>)
  BY DEF AddAClause
<1>9. S \in SUBSET NatLits /\ IsFiniteSet(S)
  <2>1. IsFiniteSet(L)
    BY <1>2, RangeFinite
  <2>2. S \in SUBSET L
    OBVIOUS
  <2> QED
    BY <1>6, <2>1, <2>2, FS_Subset, StateIs
<1> HIDE DEF S
<1>10. /\ LitsInOrder(S) \in Seq(S) /\ Elements(LitsInOrder(S)) = S
  BY <1>9, LitsSorted
<1> DEFINE q == LitsInOrder(S)
           none == << >>
<1>11. q \in Seq(UsedLits)
  <2>1. \A m \in DOMAIN q : q[m] \in S
    BY <1>10 DEF Elements
  <2>2. S \in SUBSET UsedLits
    BY <1>6 DEF S
  <2> HIDE DEF q
  <2> QED
    BY <1>10, <2>1, <2>2, Retyped DEF q
<1>12. \E l \in Elements(q) : A!Holds(a, l)
  BY <1>7, <1>10
<1>13. none \in Seq(UsedLits) /\ DOMAIN none = {}
  OBVIOUS
<1> HIDE DEF q
<1>14. CASE AddsNothing
  BY <1>14 DEF AddsNothing, Allows, database
<1>15. CASE Settle(q, "clause", none)
  <2>1. \A m \in DOMAIN none : A!Holds(a, none[m])
    BY <1>13
  <2> HIDE DEF none
  <2> QED
    BY <1>1, <1>11, <1>12, <1>13, <1>15, <2>1, SettleMeans
<1> QED
  BY <1>8, <1>14, <1>15 DEF q

LEMMA PairMeans ==
  ASSUME PlainTypes, CallsTyped, TrailInv, AddAPair, ok, NEW a \in A!Models(given'),
         Allows(a, clauses, trail)
  PROVE  ok' /\ Allows(a, clauses', trail')
<1> DEFINE j == Args[1]
           i == Args[2]
<1>1. NextCall("pair") /\ CurrentLevel = 0 /\ Len(lim) = 0
      /\ given' = given \cup Says(Head(calls))
  BY DEF AddAPair, Adds, CurrentLevel
<1>2. /\ Args \in Seq(UsedLits) /\ Head(calls).op = "pair"
      /\ Len(Args) = 2
  BY <1>1, CallIs DEF WellFormed, Args
<1>3. DOMAIN Args = {1, 2}
  BY <1>2
<1>4. Says(Head(calls)) = {{j, i}}
  BY <1>2, <1>3 DEF Says, Range, Args
<1>5. a \in A!Assignments /\ (A!Holds(a, j) \/ A!Holds(a, i))
  <2>1. a \in A!Models(given \cup {{j, i}})
    BY <1>1, <1>4
  <2>2. a \in A!Models(given) /\ \A c \in {{j, i}} : \E l \in c : A!Holds(a, l)
    BY <2>1, MoreGiven
  <2> QED
    BY <2>2 DEF A!Models
<1>6. \A k \in DOMAIN trail : A!Holds(a, trail[k].lit)
  BY <1>1, AllFacts DEF Allows
<1>7. j \in UsedLits /\ i \in UsedLits
  BY <1>2, <1>3
<1> HIDE DEF j, i
<1>8. (IsFalse(j) => ~ A!Holds(a, j)) /\ (IsFalse(i) => ~ A!Holds(a, i))
  BY <1>5, <1>6, <1>7, FalseFails
<1>9. \/ AddsNothing
      \/ IsFalse(i) /\ IsFalse(j)
      \/ IsFalse(i) /\ Forces(j)
      \/ IsFalse(j) /\ Forces(i)
      \/ NewClause(<<i, j>>, "clause") /\ UNCHANGED <<ok, trail>>
  BY DEF AddAPair, i, j
<1>10. ASSUME NEW l, A!Holds(a, l), Forces(l) PROVE ok' /\ Allows(a, clauses', trail')
  <2>1. trail' = Append(trail, Entry(l, 0, 0)) /\ ok' = ok /\ clauses' = clauses
    BY <1>1, <1>10 DEF Forces, Enqueue, database
  <2>2. trail \in Seq(EntryTypes(used, next)) /\ 0 \in Nat
    BY StateIs
  <2>3. FactsIn(a, trail')
    BY <1>10, <2>1, <2>2, FactsAppended DEF Allows
  <2> QED
    BY <2>1, <2>3 DEF Allows
<1>11. CASE AddsNothing
  BY <1>11 DEF AddsNothing, Allows, database
<1>12. CASE NewClause(<<i, j>>, "clause") /\ UNCHANGED <<ok, trail>>
  <2> DEFINE q == <<i, j>>
  <2>1. Elements(q) = {i, j}
    <3>1. DOMAIN q = {1, 2} /\ q[1] = i /\ q[2] = j
      OBVIOUS
    <3> QED
      BY <3>1 DEF Elements
  <2> HIDE DEF q
  <2>2. \E l \in Elements(q) : A!Holds(a, l)
    BY <1>5, <2>1
  <2>3. Obeyed(a, clauses')
    BY <1>12, <2>2, NewObeyed DEF Allows, q
  <2> QED
    BY <1>12, <2>3 DEF Allows
<1> QED
  BY <1>5, <1>8, <1>9, <1>10, <1>11, <1>12

(* All is known of the literals of a single set that has a false one.      *)
LEMMA ForceAllMeans ==
  ASSUME PlainTypes, TrailInv, Len(lim) = 0, ok, NEW a \in A!Assignments,
         Allows(a, clauses, trail),
         NEW twice \in Seq(UsedLits), NEW q \in Seq(UsedLits), ForceAll(twice, q),
         \A m \in DOMAIN twice : A!Holds(a, twice[m]),
         \A k \in DOMAIN q : A!Holds(a, q[k])
  PROVE  ok' /\ Allows(a, clauses', trail')
<1> DEFINE bad == {k \in DOMAIN q : \/ IsFalse(q[k])
                                    \/ Neg(q[k]) \in Range(twice)
                                    \/ \E i \in 1 .. k - 1 : q[i] = Neg(q[k])}
           fresh == {k \in DOMAIN q : /\ \A i \in bad : k < i
                                      /\ IsOpen(q[k]) /\ q[k] \notin Range(twice)
                                      /\ \A i \in 1 .. k - 1 : q[i] # q[k]}
           more == Chosen(q, fresh)
           all == twice \o more
<1>1. /\ EnqueueAll(all, 0) /\ ok' = (bad = {})
      /\ clauses' = clauses
  BY DEF ForceAll, database
<1>2. \A i \in DOMAIN trail : A!Holds(a, trail[i].lit)
  BY AllFacts DEF Allows
<1>3. DOMAIN q = 1 .. Len(q) /\ Len(q) \in Nat
  OBVIOUS
<1>4. ASSUME NEW k \in DOMAIN q PROVE k \notin bad
  <2>1. q[k] \in UsedLits /\ q[k] \in Lits /\ A!Holds(a, q[k])
    BY StateIs
  <2>2. ~ IsFalse(q[k])
    BY <1>2, <2>1, FalseFails
  <2>3. ~ A!Holds(a, Neg(q[k]))
    BY <2>1, HoldsOr
  <2>4. Neg(q[k]) \notin Range(twice)
    BY <2>3 DEF Range
  <2>5. \A i \in 1 .. k - 1 : i \in DOMAIN q
    BY <1>3
  <2> QED
    BY <2>2, <2>3, <2>4, <2>5
<1>5. bad = {}
  BY <1>4
<1>6. fresh \in SUBSET DOMAIN q
  OBVIOUS
<1> HIDE DEF bad, fresh
<1>7. /\ more \in Seq(UsedLits)
      /\ \A n \in DOMAIN more : \E i \in fresh : more[n] = q[i]
  BY <1>6, ChosenIs
<1>8. \A n \in DOMAIN more : A!Holds(a, more[n])
  BY <1>6, <1>7
<1> HIDE DEF more
<1>9. /\ all \in Seq(UsedLits) /\ DOMAIN all = 1 .. Len(twice) + Len(more)
      /\ \A i \in DOMAIN twice : all[i] = twice[i]
      /\ \A i \in 1 .. Len(more) : all[Len(twice) + i] = more[i]
  BY <1>7, Joined
<1>10. /\ Len(twice) \in Nat /\ Len(more) \in Nat /\ DOMAIN twice = 1 .. Len(twice)
       /\ DOMAIN more = 1 .. Len(more)
  BY <1>7
<1> HIDE DEF all
<1>11. ASSUME NEW m \in DOMAIN all PROVE A!Holds(a, all[m])
  <2>1. CASE m \in DOMAIN twice
    BY <1>9, <2>1
  <2>2. CASE m \notin DOMAIN twice
    <3> DEFINE i == m - Len(twice)
    <3>1. i \in 1 .. Len(more) /\ m = Len(twice) + i
      BY <1>9, <1>10, <2>2
    <3> HIDE DEF i
    <3>2. all[m] = more[i] /\ i \in DOMAIN more
      BY <1>9, <1>10, <3>1
    <3> QED
      BY <1>8, <3>2
  <2> QED
    BY <2>1, <2>2
<1>12. trail' = Grown(trail, all, 0, Len(lim))
  BY <1>1 DEF EnqueueAll, Entries, Put, Grown, CurrentLevel
<1>13. trail \in Seq(EntryTypes(used, next)) /\ Len(lim) \in Nat
  BY StateIs
<1>14. FactsIn(a, trail')
  BY <1>9, <1>11, <1>12, <1>13, FactsJoined DEF Allows
<1> QED
  BY <1>1, <1>5, <1>14 DEF Allows

(* Of any two places in a single set, one has a literal that holds.        *)
LEMMA PlacesHold ==
  ASSUME CallsTyped, PlainTypes, TrailInv, NextCall("single"),
         NEW a \in A!Models(given \cup Says(Head(calls)))
  PROVE  LET q == InOrder(Args)
         IN  /\ q \in Seq(UsedLits)
             /\ \A m, n \in DOMAIN q : m # n => A!Holds(a, q[m]) \/ A!Holds(a, q[n])
<1> DEFINE b == Args
           q == InOrder(Args)
<1>1. Args \in Seq(UsedLits) /\ Head(calls).op = "single"
  BY CallIs
<1>2. Says(Head(calls)) = Pairs(b)
  BY <1>1 DEF Says, Args
<1> HIDE DEF b
<1>3. b \in Seq(UsedLits) /\ DOMAIN b = 1 .. Len(b) /\ Len(b) \in Nat
  BY <1>1 DEF b
<1>4. \A i \in DOMAIN b : b[i] \in UsedLits /\ b[i] \in NatLits
  BY <1>3, StateIs
<1>5. ASSUME NEW i \in DOMAIN b, NEW j \in DOMAIN b, i < j
      PROVE  A!Holds(a, b[i]) \/ A!Holds(a, b[j])
  <2> DEFINE r == <<i, j>>
             S == {p \in (DOMAIN b) \X (DOMAIN b) : p[1] < p[2]}
  <2>1. r \in S /\ r[1] = i /\ r[2] = j
    BY <1>5
  <2> HIDE DEF r
  <2>2. {b[r[1]], b[r[2]]} \in Pairs(b)
    BY <2>1 DEF Pairs
  <2>3. {b[i], b[j]} \in Pairs(b)
    BY <2>1, <2>2
  <2>4. \E l \in {b[i], b[j]} : A!Holds(a, l)
    BY <1>2, <2>3, MoreGiven
  <2> QED
    BY <2>4
<1>6. \A i, j \in DOMAIN b : i # j => A!Holds(a, b[i]) \/ A!Holds(a, b[j])
  <2>1. \A i, j \in DOMAIN b : i < j \/ j < i \/ i = j
    BY <1>3
  <2> QED
    BY <1>5, <2>1
<1>7. b \in Seq(NatLits)
  BY <1>3, <1>4, Retyped
<1>8. /\ q \in Seq(NatLits) /\ DOMAIN q = DOMAIN b
      /\ \A n \in DOMAIN b : \E i \in DOMAIN b : q[n] = b[i]
      /\ \A m, n \in DOMAIN b : m # n =>
           \E i, j \in DOMAIN b : i # j /\ q[m] = b[i] /\ q[n] = b[j]
  BY <1>7, InOrderIs DEF b
<1> HIDE DEF q
<1>9. \A n \in DOMAIN q : q[n] \in UsedLits
  BY <1>4, <1>8
<1>10. q \in Seq(UsedLits)
  BY <1>8, <1>9, Retyped
<1>11. \A m, n \in DOMAIN q : m # n => A!Holds(a, q[m]) \/ A!Holds(a, q[n])
  BY <1>6, <1>8
<1> QED
  BY <1>10, <1>11 DEF q

LEMMA SingleMeans ==
  ASSUME PlainTypes, CallsTyped, TrailInv, AddASingle, ok, NEW a \in A!Models(given'),
         Allows(a, clauses, trail), "mistaken" \notin slips'
  PROVE  ok' /\ Allows(a, clauses', trail')
<1> DEFINE q == InOrder(Args)
           Again(k) == k > 1 /\ q[k - 1] = q[k]
           false == {k \in DOMAIN q :
                       \/ IsFalse(q[k])
                       \/ k > 1 /\ q[k - 1] = Neg(q[k]) /\ IsOpen(q[k])}
           before == {k \in DOMAIN q : IsOpen(q[k]) /\ \A i \in false : k < i}
           kept == {k \in before : ~ Again(k)}
           T == {k \in before : Again(k) /\ ~ Again(k - 1)}
           twice == Chosen(q, T)
           others == {k \in kept : \E i \in kept : k < i}
                     \cup {k \in DOMAIN q : \E i \in false : i < k}
<1>1. NextCall("single") /\ Len(lim) = 0 /\ given' = given \cup Says(Head(calls))
  BY DEF AddASingle, Adds, CurrentLevel
<1>2. a \in A!Assignments
  BY DEF A!Models
<1>3. \/ false = {} /\ Settle(Chosen(q, kept), "single", twice)
      \/ false # {} /\ ForceAll(twice, Chosen(q, others))
  BY DEF AddASingle
<1>4. false = {} => \E i, k \in kept : i # k
  BY DEF AddASingle
<1>5. /\ q \in Seq(UsedLits)
      /\ \A m, n \in DOMAIN q : m # n => A!Holds(a, q[m]) \/ A!Holds(a, q[n])
  BY <1>1, PlacesHold
<1> HIDE DEF q
<1>6. /\ DOMAIN q = 1 .. Len(q) /\ Len(q) \in Nat
      /\ \A k \in DOMAIN q : q[k] \in UsedLits /\ q[k] \in Lits /\ k \in Nat
  BY <1>5, StateIs
<1>7. \A i \in DOMAIN trail : A!Holds(a, trail[i].lit)
  BY <1>1, AllFacts DEF Allows
<1>8. \A k \in DOMAIN q : IsFalse(q[k]) => ~ A!Holds(a, q[k])
  BY <1>2, <1>6, <1>7, FalseFails
<1>9. \A k \in DOMAIN q : A!Holds(a, Neg(q[k])) <=> ~ A!Holds(a, q[k])
  BY <1>2, <1>6, HoldsOr
(* At a false literal, or at its opposite just before it, one does not.    *)
<1>10. ASSUME NEW i \in false
       PROVE  \E j \in DOMAIN q : j \in {i, i - 1} /\ ~ A!Holds(a, q[j])
  <2>1. CASE IsFalse(q[i])
    BY <1>8, <2>1
  <2>2. CASE i > 1 /\ q[i - 1] = Neg(q[i])
    <3>1. i - 1 \in DOMAIN q /\ i \in DOMAIN q
      BY <1>6, <2>2
    <3>2. ~ A!Holds(a, q[i]) \/ ~ A!Holds(a, q[i - 1])
      BY <1>9, <2>2, <3>1
    <3> QED
      BY <3>1, <3>2
  <2> QED
    BY <2>1, <2>2
<1>11. T \in SUBSET DOMAIN q /\ kept \in SUBSET DOMAIN q /\ others \in SUBSET DOMAIN q
  OBVIOUS
<1>12. \A k \in T : A!Holds(a, q[k])
  <2> TAKE k \in T
  <2>1. k \in DOMAIN q /\ k > 1 /\ q[k - 1] = q[k]
    OBVIOUS
  <2>2. k - 1 \in DOMAIN q /\ k - 1 # k
    BY <1>6, <2>1
  <2> QED
    BY <1>5, <2>1, <2>2
<1>13. \A k \in others : false # {} => A!Holds(a, q[k])
  <2> SUFFICES ASSUME NEW k \in others, false # {} PROVE A!Holds(a, q[k])
    OBVIOUS
  <2>1. CASE \E i \in false : i < k
    <3>1. PICK i \in false : i < k
      BY <2>1
    <3>2. PICK j \in DOMAIN q : j \in {i, i - 1} /\ ~ A!Holds(a, q[j])
      BY <1>10
    <3>3. j # k /\ k \in DOMAIN q
      BY <1>6, <1>11, <3>1, <3>2
    <3> QED
      BY <1>5, <3>2, <3>3
  <2>2. CASE k \in kept /\ \E i \in kept : k < i
    <3>1. PICK n \in kept : k < n
      BY <2>2
    <3>2. PICK i \in false : TRUE
      OBVIOUS
    <3>3. n < i /\ i \in DOMAIN q /\ n \in DOMAIN q /\ k \in DOMAIN q
      BY <2>2
    <3>4. PICK j \in DOMAIN q : j \in {i, i - 1} /\ ~ A!Holds(a, q[j])
      BY <1>10
    <3>5. j # k
      BY <1>6, <3>1, <3>3, <3>4
    <3> QED
      BY <1>5, <3>3, <3>4, <3>5
  <2> QED
    BY <2>1, <2>2
<1> HIDE DEF Again, false, before, kept, T, others
<1>14. /\ twice \in Seq(UsedLits)
       /\ \A m \in DOMAIN twice : A!Holds(a, twice[m])
  <2>1. /\ twice \in Seq(UsedLits)
        /\ \A n \in DOMAIN twice : \E i \in T : twice[n] = q[i]
    BY <1>5, <1>11, ChosenIs
  <2> HIDE DEF twice
  <2> QED
    BY <1>12, <2>1
<1> HIDE DEF twice
<1>15. CASE false = {} /\ Settle(Chosen(q, kept), "single", twice)
  <2> DEFINE c == Chosen(q, kept)
  <2>1. PICK f : ChosenAt(c, f, q, kept)
    BY <1>5, <1>11, ChosenPlaces
  <2>2. c \in Seq(UsedLits)
    BY <1>5, <1>11, ChosenPlaces
  <2>3. Settle(c, "single", twice)
    BY <1>15
  <2> HIDE DEF c
  <2>4. /\ \A n \in DOMAIN c : f[n] \in kept /\ c[n] = q[f[n]]
        /\ \A m, n \in DOMAIN c : m < n => f[m] < f[n]
        /\ \A i \in kept : \E n \in DOMAIN c : f[n] = i
    BY <2>1 DEF ChosenAt
  <2>5. DOMAIN c = 1 .. Len(c) /\ Len(c) \in Nat
    BY <2>2
  <2>6. Len(c) > 1
    <3>1. PICK i \in kept, k \in kept : i # k
      BY <1>4, <1>15
    <3>2. PICK m \in DOMAIN c, n \in DOMAIN c : f[m] = i /\ f[n] = k
      BY <2>4
    <3> QED
      BY <2>5, <3>1, <3>2
  <2>7. \A m, n \in DOMAIN c : m # n => A!Holds(a, c[m]) \/ A!Holds(a, c[n])
    <3> SUFFICES ASSUME NEW m \in DOMAIN c, NEW n \in DOMAIN c, m # n
                 PROVE  A!Holds(a, c[m]) \/ A!Holds(a, c[n])
      OBVIOUS
    <3>1. m < n \/ n < m
      BY <2>5
    <3>2. f[m] \in DOMAIN q /\ f[n] \in DOMAIN q
      BY <1>11, <2>4
    <3>3. f[m] # f[n]
      BY <1>6, <2>4, <3>1, <3>2
    <3> QED
      BY <1>5, <2>4, <3>2, <3>3
  <2> QED
    BY <1>1, <1>14, <2>2, <2>3, <2>6, <2>7, SettleMeans
<1>16. CASE false # {} /\ ForceAll(twice, Chosen(q, others))
  <2> DEFINE c == Chosen(q, others)
  <2>1. /\ c \in Seq(UsedLits)
        /\ \A n \in DOMAIN c : \E i \in others : c[n] = q[i]
    BY <1>5, <1>11, ChosenIs
  <2>2. ForceAll(twice, c)
    BY <1>16
  <2> HIDE DEF c
  <2>3. \A n \in DOMAIN c : A!Holds(a, c[n])
    BY <1>13, <1>16, <2>1
  <2> QED
    BY <1>1, <1>2, <1>14, <2>1, <2>2, <2>3, ForceAllMeans
<1> QED
  BY <1>3, <1>15, <1>16

---------------------------------------------------------------------------
(* What is given and what slips happened only grow.                        *)
LEMMA GivenGrows ==
  ASSUME Next
  PROVE  /\ slips \subseteq slips' /\ given \subseteq given'
         /\ given' = given \/ AddsSome \/ AssertSucceeds
         /\ \/ ok' = ok \/ AddsSome \/ AddRefutes \/ AttemptRefutes \/ SearchRefutes
            \/ Denied /\ ok' = TRUE /\ (~ ok => "revived" \in slips')
<1>1. CASE AddAClause \/ AddASingle \/ AddAPair
  <2>1. given \subseteq given' /\ AddsSome
    BY <1>1 DEF AddAClause, AddASingle, AddAPair, Adds, AddsSome
  <2>2. slips \subseteq slips'
    BY <1>1 DEF AddAClause, AddASingle, AddAPair
  <2> QED
    BY <2>1, <2>2
<1>2. CASE \/ AddFinished \/ AddRefutes \/ LightSolve \/ Reset \/ PopCheck
           \/ AnswerKnown
  BY <1>2 DEF AddFinished, AddRefutes, LightSolve, Reset, PopCheck, GoesBack,
              AnswerKnown
<1>3. CASE Attempt
  BY <1>3 DEF Attempt
<1>4. CASE \/ NextWatchList \/ VisitTrue \/ VisitMoves \/ VisitForces
           \/ VisitSettles \/ VisitSwaps
  BY <1>4 DEF NextWatchList, VisitTrue, VisitMoves, VisitForces, VisitSettles,
              VisitSwaps, Keep, Moves, UnchangedByVisit
<1>5. CASE VisitFails \/ VisitRefutes \/ VisitClashes
  <2>1. given' = given /\ ok' = ok
    BY <1>5 DEF VisitFails, VisitRefutes, VisitClashes, Conflict, UnchangedByVisit
  <2>2. slips \subseteq slips'
    BY <1>5 DEF VisitFails, VisitRefutes, VisitClashes, ExposedIf
  <2> QED
    BY <2>1, <2>2
<1>6. CASE Resolve \/ TrySucceeds \/ CheckSucceeds \/ AttemptRefutes
  BY <1>6 DEF Resolve, TrySucceeds, CheckSucceeds, Ends, AttemptRefutes
<1>13. CASE Denied
  BY <1>13 DEF Denied
<1>7. CASE AssertSucceeds
  BY <1>7 DEF AssertSucceeds
<1>8. CASE AssertFails \/ CheckFails
  BY <1>8 DEF AssertFails, CheckFails, LeavesExposed, ExposedIf
<1>9. CASE SearchLearns \/ TryBacktracks
  BY <1>9 DEF SearchLearns, TryBacktracks, Learn
<1>10. CASE \/ Refused \/ SearchRefutes \/ AssumeFalse \/ ModelFound \/ FoundTooLate
            \/ RefutesTooLate \/ RestartsTooLate \/ AssumesTooLate
  BY <1>10 DEF Refused, SearchRefutes, AssumeFalse, ModelFound, FoundTooLate,
               RefutesTooLate, RestartsTooLate, AssumesTooLate, Bail,
               UnchangedByAnswer, UnchangedInSearch
<1>11. CASE Solve \/ Restart \/ Tidy \/ AssumeTrue \/ AssumeOpen \/ Reduce \/ Branch
  BY <1>11 DEF Solve, Restart, Tidy, AssumeTrue, AssumeOpen, Reduce, Branch, Decide,
               UnchangedInside, UnchangedInSearch
<1>12. CASE Returned
  BY <1>12 DEF Returned, vars
<1> QED
  BY <1>1, <1>2, <1>3, <1>4, <1>5, <1>6, <1>13, <1>7, <1>8, <1>9, <1>10, <1>11,
     <1>12 DEF Next

LEMMA FewerModels ==
  ASSUME NEW F, NEW G, F \subseteq G, NEW a \in A!Models(G)
  PROVE  a \in A!Models(F) /\ a \in A!Assignments
BY DEF A!Models

(* A conflict below the first guess leaves no model. *)
LEMMA NoModels ==
  ASSUME PlainTypes, TrailInv, Clash, Follows, "mistaken" \notin slips,
         pc = "conflict", Len(lim) = 0
  PROVE  A!Models(given) = {}
<1> SUFFICES ASSUME NEW a \in A!Models(given) PROVE FALSE
  OBVIOUS
<1>1. a \in A!Assignments /\ Obeyed(a, clauses) /\ FactsIn(a, trail)
  BY DEF Follows, Allows, A!Models
<1>2. \A i \in DOMAIN trail : A!Holds(a, trail[i].lit)
  BY <1>1, AllFacts
<1> QED
  BY <1>1, <1>2 DEF Clash

LEMMA AssertedMeans ==
  ASSUME PlainTypes, TrailInv, ListsInv, ReasonsInv, CallInv, AssertSucceeds,
         NEW a \in A!Assignments, Allows(a, clauses, trail), A!Holds(a, Lit)
  PROVE  Allows(a, clauses', trail')
<1>1. /\ Len(lim) = 1 /\ lim[1] + 1 \in DOMAIN trail /\ trail[lim[1] + 1].lit = Lit
      /\ clauses' = clauses
  BY DEF AssertSucceeds, During, CallInv, UnchangedInAttempt, database
<1>2. ASSUME NEW i \in DOMAIN trail, IsGuess(i) PROVE A!Holds(a, trail[i].lit)
  <2>1. trail[i].level \in 1 .. 1
    BY <1>1, <1>2, StateIs DEF IsGuess
  <2>2. i = lim[trail[i].level] + 1
    BY <1>2, StateIs DEF IsGuess, GuessFirst
  <2> QED
    BY <1>1, <2>1, <2>2
<1>3. \A i \in DOMAIN trail : A!Holds(a, trail[i].lit)
  BY <1>2, Respected
<1>4. trail' = [i \in DOMAIN trail |-> [trail[i] EXCEPT !.level = 0]]
  BY DEF AssertSucceeds
<1>5. DOMAIN trail' = DOMAIN trail /\ \A i \in DOMAIN trail : trail'[i].lit = trail[i].lit
  <2>1. \A i \in DOMAIN trail : trail[i] \in EntryTypes(used, next)
    BY StateIs
  <2> QED
    BY <1>4, <2>1 DEF EntryTypes
<1> QED
  BY <1>1, <1>3, <1>5 DEF Allows, FactsIn

LEMMA FollowsStep ==
  ASSUME PlainTypes, CallsTyped, TrailInv, ListsInv, ReasonsInv, CallInv, WorkInv,
         WorkMeans, Clash, NoLevel, Follows, Next
  PROVE  Follows'
<1> SUFFICES ASSUME "mistaken" \notin slips', NEW a \in A!Models(given')
             PROVE  ok' /\ Allows(a, clauses', trail')
  BY DEF Follows
<1>1. slips \subseteq slips' /\ given \subseteq given'
      /\ (given' = given \/ AddsSome \/ AssertSucceeds)
      /\ \/ ok' = ok \/ AddsSome \/ AddRefutes \/ AttemptRefutes \/ SearchRefutes
         \/ Denied /\ ok' = TRUE
  BY GivenGrows
<1>2. "mistaken" \notin slips /\ a \in A!Models(given) /\ a \in A!Assignments
  BY <1>1, FewerModels
<1>3. ok /\ Allows(a, clauses, trail)
  BY <1>2 DEF Follows
<1>4. CASE AddsSome
  BY <1>3, <1>4, ClauseMeans, PairMeans, SingleMeans DEF AddsSome
<1>5. CASE Learns
  <2>1. Learn /\ ok' = ok
    BY <1>5 DEF Learns, SearchLearns, TryBacktracks, Learn
  <2> QED
    BY <1>2, <1>3, <2>1, LearnKeeps
<1>6. CASE AssertSucceeds
  <2>1. given' = given \cup {{Lit}} /\ ok' = ok
    BY <1>6 DEF AssertSucceeds
  <2>2. \A c \in {{Lit}} : \E l \in c : A!Holds(a, l)
    <3>1. a \in A!Models(given \cup {{Lit}})
      BY <2>1
    <3> QED
      BY <3>1, MoreGiven
  <2> QED
    BY <1>2, <1>3, <1>6, <2>1, <2>2, AssertedMeans
<1>7. CASE ~ AddsSome /\ ~ Learns /\ ~ AssertSucceeds
  <2>1. Obeyed(a, clauses') /\ FactsIn(a, trail')
    BY <1>2, <1>3, <1>7, ClausesKept, FactsKept DEF Allows
  <2>2. ~ (pc = "conflict" /\ Len(lim) = 0)
    BY <1>2, NoModels
  <2>3. ~ AddRefutes /\ ~ AttemptRefutes /\ ~ SearchRefutes
    BY <2>2 DEF AddRefutes, AttemptRefutes, SearchRefutes, During, NoLevel,
                CurrentLevel
  <2> QED
    BY <1>1, <1>3, <1>7, <2>1, <2>3 DEF Allows
<1> QED
  BY <1>4, <1>5, <1>6, <1>7

---------------------------------------------------------------------------
(* Attempts.                                                               *)
LEMMA GuessesFalse ==
  ASSUME PlainTypes, TrailInv, ListsInv, ReasonsInv, Clash, Follows,
         "mistaken" \notin slips, pc = "conflict"
  PROVE  ModelsWith(Guesses) = {}
<1> SUFFICES ASSUME NEW a \in A!Models(given), \A l \in Guesses : A!Holds(a, l)
             PROVE  FALSE
  BY DEF ModelsWith
<1>1. a \in A!Assignments /\ Allows(a, clauses, trail)
  BY DEF Follows, A!Models
<1>2. \A i \in DOMAIN trail : IsGuess(i) => A!Holds(a, trail[i].lit)
  BY DEF Guesses
<1>3. \A i \in DOMAIN trail : A!Holds(a, trail[i].lit)
  BY <1>1, <1>2, Respected
<1> QED
  BY <1>1, <1>3 DEF Clash, Allows

(* A guess was there before the step, or the step has guessed it. *)
LEMMA GuessesFrom ==
  ASSUME PlainTypes, CallsTyped, TrailInv, ListsInv, CallInv, WorkInv, Next,
         NEW i \in DOMAIN trail', trail'[i].level > 0, trail'[i].why = 0
  PROVE  \/ i \in DOMAIN trail /\ trail'[i] = trail[i]
         \/ GuessesLit(trail'[i].lit) /\ i = Len(trail) + 1
            /\ trail'[i].level = Len(lim) + 1
<1>1. /\ used' = used /\ next' \in Nat \ {0} /\ next' \in Nat /\ next <= next'
  <2>1. used' = used
    BY FlatStep
  <2>2. next' \in Nat \ {0} /\ next <= next'
    BY NextGrows
  <2> QED
    BY <2>1, <2>2
<1>2. DOMAIN trail = 1 .. Len(trail) /\ Len(trail) \in Nat /\ Len(lim) \in Nat
      /\ next \in Nat \ {0}
  BY StateIs
<1>3. \A l, why, n : /\ Entry(l, why, n).lit = l /\ Entry(l, why, n).why = why
                     /\ Entry(l, why, n).level = n
  BY DEF Entry
<1>4. CASE trail' = trail
  BY <1>4
<1>5. CASE GoesUp
  <2>1. PICK n \in Nat : trail' = TrailUpTo(n)
    BY <1>5 DEF GoesUp, CancelUntil
  <2>2. Prefix(TrailUpTo(n), trail)
    BY BackIs, StateIs
  <2> QED
    BY <2>1, <2>2 DEF Prefix
<1>6. CASE \E q, why : Gains(q, why)
  <2>1. PICK q, why : Gains(q, why)
    BY <1>6
  <2>2. Prefix(trail, trail') /\ HasPut(trail', trail, q, why, Len(lim))
    BY <1>1, <2>1, GainKeepsSound
  <2>3. i \in DOMAIN trail
    <3> SUFFICES ASSUME i \notin DOMAIN trail PROVE FALSE
      OBVIOUS
    <3>1. trail'[i].why = why /\ trail'[i].level = Len(lim)
      BY <2>2 DEF HasPut
    <3> QED
      BY <2>1, <3>1 DEF Gains
  <2> QED
    BY <2>2, <2>3 DEF Prefix
<1>7. CASE \E l \in UsedLits : GuessesLit(l)
  <2>1. PICK l \in UsedLits : GuessesLit(l)
    BY <1>7
  <2>2. /\ Len(trail') = Len(trail) + 1 /\ DOMAIN trail' = 1 .. Len(trail')
        /\ Prefix(trail, trail')
        /\ trail'[Len(trail) + 1] = Entry(l, 0, Len(lim) + 1)
    BY <1>1, <2>1, GuessKeepsSound
  <2>3. CASE i \in DOMAIN trail
    BY <2>2, <2>3 DEF Prefix
  <2>4. CASE i \notin DOMAIN trail
    <3>1. i = Len(trail) + 1
      BY <1>2, <2>2, <2>4
    <3>2. trail'[i] = Entry(l, 0, Len(lim) + 1)
      BY <2>2, <3>1
    <3>3. trail'[i].lit = l /\ trail'[i].level = Len(lim) + 1
      BY <1>3, <3>2
    <3> QED
      BY <2>1, <3>1, <3>3
  <2> QED
    BY <2>3, <2>4
<1>8. CASE Learn
  <2> DEFINE t == TrailUpTo(BackLevel)
             why == IF Kept = << >> THEN 0 ELSE next
  <2>1. /\ Kept # << >> => next < next'
    BY <1>2, <1>8 DEF Learn, NewClause
  <2>2. /\ DOMAIN trail' = 1 .. Len(trail') /\ Len(trail') \in Nat
        /\ Len(trail') = Len(t) + 1 /\ Prefix(t, trail')
        /\ trail'[Len(trail')] = Entry(Asserting, why, BackLevel)
        /\ BackLevel \in Nat
    BY <1>1, <1>8, <2>1, LearnKeepsSound
  <2>3. Prefix(t, trail) /\ DOMAIN t = 1 .. Len(t) /\ Len(t) \in Nat
    BY <1>2, <2>2, BackIs
  <2>4. Kept = << >> => BackLevel = 0
    BY DEF BackLevel
  <2> HIDE DEF t
  <2>5. CASE i \in DOMAIN t
    BY <2>2, <2>3, <2>5 DEF Prefix
  <2>6. CASE i \notin DOMAIN t
    <3>1. i = Len(trail')
      BY <2>2, <2>3, <2>6
    <3>2. trail'[i].why = why /\ trail'[i].level = BackLevel
      BY <1>3, <2>2, <3>1
    <3> QED
      BY <1>2, <2>4, <3>2
  <2> QED
    BY <2>5, <2>6
<1>9. CASE AssertSucceeds
  <2>1. \A k \in DOMAIN trail' : trail'[k].level = 0
    BY <1>9, FactsKeepSound
  <2> QED
    BY <2>1
<1>10. CASE AssertFails
  <2> DEFINE t == TrailUpTo(0)
  <2>1. /\ DOMAIN trail' = 1 .. Len(trail') /\ Len(trail') \in Nat
        /\ Len(trail') = Len(t) + 1 /\ Prefix(t, trail')
        /\ trail'[Len(trail')] = Entry(Neg(Lit), 0, 0)
    BY <1>10, DenyKeepsSound
  <2>2. Prefix(t, trail) /\ DOMAIN t = 1 .. Len(t) /\ Len(t) \in Nat
    BY <1>2, BackIs
  <2> HIDE DEF t
  <2>3. CASE i \in DOMAIN t
    BY <2>1, <2>2, <2>3 DEF Prefix
  <2>4. CASE i \notin DOMAIN t
    <3>1. i = Len(trail')
      BY <2>1, <2>2, <2>4
    <3>2. trail'[i].level = 0
      BY <1>3, <2>1, <3>1
    <3> QED
      BY <3>2
  <2> QED
    BY <2>3, <2>4
<1> QED
  BY <1>4, <1>5, <1>6, <1>7, <1>8, <1>9, <1>10, TrailEffects DEF Stays, OpensLevel

(* The steps inside a call, and those of a search.                         *)
Inside == NextWatchList \/ Visits \/ Resolve
Searches == \/ Refused \/ Tidy \/ SearchLearns \/ SearchRefutes \/ RefutesTooLate
            \/ Restart \/ RestartsTooLate \/ AssumeTrue \/ AssumeOpen
            \/ AssumeFalse \/ AssumesTooLate \/ Reduce \/ Branch \/ ModelFound
            \/ FoundTooLate

LEMMA InsideKeeps ==
  ASSUME Inside
  PROVE  /\ pc \in {"propagate", "conflict"} /\ pc' \in {"propagate", "conflict"}
         /\ UNCHANGED <<used, next, call, reply, given, lim, answer, assumed>>
<1>1. CASE NextWatchList
  BY <1>1 DEF NextWatchList, Pending, UnchangedByVisit, outcome
<1>2. CASE Visits
  <2>1. Pending
    BY <1>2 DEF Visits, VisitTrue, VisitMoves, VisitForces, VisitFails, VisitSettles,
                VisitRefutes, VisitSwaps, VisitClashes, Reading
  <2>2. UnchangedByVisit /\ (pc' = pc \/ pc' = "conflict")
    BY <1>2 DEF Visits, VisitTrue, VisitMoves, VisitForces, VisitFails, VisitSettles,
                VisitRefutes, VisitSwaps, VisitClashes, Keep, Moves, Conflict
  <2> QED
    BY <2>1, <2>2 DEF Pending, UnchangedByVisit, outcome
<1>3. CASE Resolve
  BY <1>3 DEF Resolve, Analyzing, outcome, assignment, database
<1> QED
  BY <1>1, <1>2, <1>3 DEF Inside

LEMMA GuessesKept ==
  ASSUME PlainTypes, CallsTyped, TrailInv, ListsInv, Inside
  PROVE  Guesses' = Guesses
<1>1. CASE trail' = trail
  BY <1>1 DEF Guesses, IsGuess
<1>2. CASE \E q, why : Gains(q, why)
  <2>1. PICK q, why : Gains(q, why)
    BY <1>2
  <2>2. used' = used /\ next' = next /\ next \in Nat
    BY InsideKeeps, StateIs
  <2>3. Prefix(trail, trail') /\ HasPut(trail', trail, q, why, Len(lim))
    BY <2>1, <2>2, GainKeepsSound
  <2>4. DOMAIN trail \subseteq DOMAIN trail'
        /\ \A i \in DOMAIN trail : trail'[i] = trail[i]
    BY <2>3 DEF Prefix
  <2>5. \A i \in DOMAIN trail' : i \notin DOMAIN trail =>
          trail'[i].why = why /\ trail'[i].level = Len(lim)
    BY <2>3 DEF HasPut
  <2>6. Len(lim) = 0 \/ why # 0
    BY <2>1 DEF Gains
  <2>7. \A i \in DOMAIN trail' : trail'[i].level > 0 /\ trail'[i].why = 0
          => i \in DOMAIN trail
    BY <2>5, <2>6
  <2>8. {i \in DOMAIN trail' : trail'[i].level > 0 /\ trail'[i].why = 0}
        = {i \in DOMAIN trail : trail[i].level > 0 /\ trail[i].why = 0}
    BY <2>4, <2>7
  <2> QED
    BY <2>4, <2>8 DEF Guesses, IsGuess
<1>3. CASE VisitForces \/ VisitSettles \/ VisitRefutes
  BY <1>2, <1>3, VisitsGain
<1>4. CASE ~ (VisitForces \/ VisitSettles \/ VisitRefutes)
  <2>1. trail' = trail
    BY <1>4 DEF Inside, Visits, NextWatchList, VisitTrue, VisitMoves, VisitFails,
                VisitSwaps, VisitClashes, Resolve, Keep, Moves, assignment
  <2> QED
    BY <1>1, <2>1
<1> QED
  BY <1>3, <1>4

LEMMA ExcludedStays ==
  ASSUME Next, Excluded(Tried), reply'.before = reply.before, reply'.lit = reply.lit
  PROVE  Excluded(Tried)'
<1> SUFFICES ASSUME "mistaken" \notin slips',
                    NEW a \in A!Models(given'), \A l \in Tried' : A!Holds(a, l)
             PROVE  FALSE
  BY DEF Excluded, ModelsWith
<1>1. slips \subseteq slips' /\ given \subseteq given'
  BY GivenGrows
<1>2. a \in A!Models(given) /\ "mistaken" \notin slips
  BY <1>1, FewerModels
<1>3. Tried' = Tried
  BY DEF Tried
<1> QED
  BY <1>2, <1>3 DEF Excluded, ModelsWith

(* A search has its call. *)
LEMMA SearchCall ==
  ASSUME CallInv, Searches
  PROVE  call.op \in {"tidy", "solve"}
<1>1. CASE Refused
  BY <1>1 DEF Refused, CallInv
<1>2. CASE \/ Tidy \/ SearchLearns \/ SearchRefutes \/ RefutesTooLate \/ Restart
           \/ RestartsTooLate
  BY <1>2 DEF Tidy, SearchLearns, SearchRefutes, RefutesTooLate, Restart,
              RestartsTooLate, Restarting, RestartDue, TooLong, Searching, During
<1>3. Deciding => call.op = "solve"
  BY DEF Deciding, Searching, During, CallInv
<1>4. Picking => call.op = "solve"
  BY <1>3 DEF Picking, Branching, CallInv
<1>5. CASE \/ AssumeTrue \/ AssumeOpen \/ AssumeFalse \/ AssumesTooLate \/ Reduce
           \/ Branch \/ ModelFound \/ FoundTooLate
  BY <1>3, <1>4, <1>5 DEF AssumeTrue, AssumeOpen, AssumeFalse, AssumesTooLate,
     Assuming, Reduce, Branching, Branch, ModelFound, FoundTooLate
<1> QED
  BY <1>1, <1>2, <1>5 DEF Searches

LEMMA SearchKeeps ==
  ASSUME Searches, CallsTyped
  PROVE  /\ UNCHANGED <<reply, given, assumed>>
         /\ \/ call' = call \/ call' = NoCall
            \/ Tidy /\ call' = [call EXCEPT !.op = "solve"]
<1>1. CASE \/ Refused \/ SearchRefutes \/ RefutesTooLate \/ RestartsTooLate
           \/ AssumeFalse \/ AssumesTooLate \/ ModelFound \/ FoundTooLate
  <2>1. UnchangedByAnswer /\ call' = NoCall
    BY <1>1 DEF Refused, SearchRefutes, RefutesTooLate, RestartsTooLate, AssumeFalse,
                AssumesTooLate, ModelFound, FoundTooLate, Bail, Answers
  <2> QED
    BY <2>1 DEF UnchangedByAnswer, UnchangedInSearch
<1>2. CASE SearchLearns
  BY <1>2 DEF SearchLearns, Learn, outcome
<1>3. CASE Restart \/ AssumeTrue \/ AssumeOpen \/ Reduce \/ Branch
  BY <1>3 DEF Restart, AssumeTrue, AssumeOpen, Reduce, Branch, Decide,
              UnchangedInside, UnchangedInSearch
<1>4. CASE Tidy
  BY <1>4 DEF Tidy, UnchangedInside, UnchangedInSearch
<1> QED
  BY <1>1, <1>2, <1>3, <1>4 DEF Searches

LEMMA ReplyEnds ==
  ASSUME ReplyTyped, NEW g \in BOOLEAN
  PROVE  LET r == [reply EXCEPT !.good = g]
         IN  /\ r \in ReplyTypes(UsedLits) /\ r.op = reply.op /\ r.lit = reply.lit
             /\ r.before = reply.before /\ (r.good <=> g)
BY DEF ReplyTyped, ReplyTypes

LEMMA NoReplyTyped == NoReply \in ReplyTypes(UsedLits)
BY DEF NoReply, ReplyTypes

LEMMA NewReplyTyped ==
  ASSUME PlainTypes, CallsTyped, TrailInv, NEW op \in Attempts, NextCall(op),
         NEW good \in BOOLEAN, Replies(op, good)
  PROVE  /\ Args \in Seq(UsedLits) /\ Len(Args) = 1 /\ Args[1] \in UsedLits
         /\ Guesses \in SUBSET UsedLits
         /\ reply' \in ReplyTypes(UsedLits)
         /\ reply'.lit = Args[1] /\ reply'.before = Guesses
         /\ reply'.op = op /\ (reply'.good <=> good)
<1>1. Args \in Seq(UsedLits) /\ Len(Args) = 1
  BY CallIs DEF WellFormed, Args
<1>2. Args[1] \in UsedLits
  BY <1>1
<1>3. Guesses \in SUBSET UsedLits
  BY StateIs DEF Guesses
<1> QED
  BY <1>1, <1>2, <1>3 DEF Replies, ReplyTypes

(* How a call that tries a literal goes on after a conflict. *)
LEMMA TriedExcluded ==
  ASSUME PlainTypes, TrailInv, ListsInv, ReasonsInv, Clash, Follows, AttemptInv,
         call.op \in Attempts, pc = "conflict"
  PROVE  Excluded(Tried)
<1>1. CASE call.good
  <2>1. Guesses = Tried
    BY <1>1 DEF AttemptInv
  <2> QED
    BY <2>1, GuessesFalse DEF Excluded
<1>2. CASE ~ call.good
  BY <1>2 DEF AttemptInv
<1> QED
  BY <1>1, <1>2

LEMMA AttemptStep ==
  ASSUME PlainTypes, CallsTyped, TrailInv, ListsInv, ReasonsInv, CallInv, WorkInv,
         Clash, Follows, AttemptInv, Next
  PROVE  AttemptInv'
<1>1. UsedLits' = UsedLits
  BY FlatStep DEF UsedLits
<1>2. ReplyTyped /\ NoReply \in ReplyTypes(UsedLits) /\ NoReply.op = "none"
      /\ NoCall.op = "none"
  BY NoReplyTyped DEF AttemptInv, NoReply, NoCall
<1>3. pc = "call" => call.op = "none"
  BY DEF CallInv
<1> USE DEF Attempts
<1>4. CASE AddsSome
  <2>1. Adding /\ reply' = NoReply /\ pc = "call"
    BY <1>4, ClauseAdds, SingleAdds, PairAdds
       DEF AddsSome, AddAClause, AddASingle, AddAPair, Adds, NextCall
  <2>2. call'.op \in {"none", "fact"}
    BY <1>3, <2>1 DEF Adding, Begin
  <2> QED
    BY <1>1, <1>2, <2>1, <2>2 DEF AttemptInv, ReplyTyped
<1>5. CASE AddFinished \/ AddRefutes
  <2>1. call' = NoCall /\ reply' = reply
    BY <1>5 DEF AddFinished, AddRefutes
  <2> QED
    BY <1>1, <1>2, <2>1 DEF AttemptInv, ReplyTyped
<1>6. CASE LightSolve \/ Returned
  <2>1. call' = call /\ reply' = reply /\ pc = "call"
    BY <1>6 DEF LightSolve, Returned, vars, Running, NextCall
  <2> QED
    BY <1>1, <1>2, <1>3, <2>1 DEF AttemptInv, ReplyTyped
<1>7. CASE Reset \/ PopCheck
  <2>1. call' = call /\ reply' = NoReply /\ pc = "call"
    BY <1>7 DEF Reset, PopCheck, GoesBack, NextCall
  <2> QED
    BY <1>1, <1>2, <1>3, <2>1 DEF AttemptInv, ReplyTyped
<1>8. CASE AnswerKnown
  <2>1. PICK op \in Attempts :
          /\ NextCall(op)
          /\ Replies(op, IsTrue(Args[1]) /\ (ok \/ op = "assert"))
          /\ call' = call
    BY <1>8 DEF AnswerKnown
  <2>2. (IsTrue(Args[1]) /\ (ok \/ op = "assert")) \in BOOLEAN
    BY DEF IsTrue
  <2>3. reply' \in ReplyTypes(UsedLits) /\ call'.op = "none"
    BY <1>3, <2>1, <2>2, NewReplyTyped DEF NextCall
  <2> QED
    BY <1>1, <2>3 DEF AttemptInv, ReplyTyped
<1>9. CASE Attempt
  <2>1. PICK op \in Attempts :
          /\ NextCall(op) /\ Replies(op, TRUE)
          /\ trail' = Append(trail, Entry(Args[1], 0, CurrentLevel + 1))
          /\ call' = Begin(op, Args)
    BY <1>9 DEF Attempt
  <2>2. /\ reply' \in ReplyTypes(UsedLits)
        /\ reply'.lit = Args[1] /\ reply'.before = Guesses
    BY <2>1, NewReplyTyped
  <2>3. call'.op = op /\ call'.good
    BY <2>1 DEF Begin
  <2>4. Guesses' = Guesses \cup {Args[1]}
    <3> DEFINE e == Entry(Args[1], 0, CurrentLevel + 1)
    <3>1. e.lit = Args[1] /\ e.why = 0 /\ e.level = Len(lim) + 1 /\ Len(lim) \in Nat
      BY StateIs DEF Entry, CurrentLevel
    <3>2. /\ DOMAIN trail' = DOMAIN trail \cup {Len(trail) + 1}
          /\ \A i \in DOMAIN trail : trail'[i] = trail[i]
          /\ trail'[Len(trail) + 1] = e
      <4>1. trail \in Seq(EntryTypes(used, next))
        BY StateIs
      <4> HIDE DEF e
      <4> QED
        BY <2>1, <4>1 DEF e
    <3> HIDE DEF e
    <3>3. {i \in DOMAIN trail' : trail'[i].level > 0 /\ trail'[i].why = 0}
          = {i \in DOMAIN trail : trail[i].level > 0 /\ trail[i].why = 0}
            \cup {Len(trail) + 1}
      BY <3>1, <3>2
    <3> QED
      BY <3>1, <3>2, <3>3 DEF Guesses, IsGuess
  <2> QED
    BY <1>1, <2>2, <2>3, <2>4 DEF AttemptInv, ReplyTyped, Tried
<1>10. CASE Inside
  <2>1. call' = call /\ reply' = reply /\ Guesses' = Guesses
    BY <1>10, InsideKeeps, GuessesKept
  <2>2. Excluded(Tried) => Excluded(Tried)'
    BY <2>1, ExcludedStays
  <2> QED
    BY <1>1, <2>1, <2>2 DEF AttemptInv, ReplyTyped, Tried
<1>11. CASE \/ TrySucceeds \/ AssertSucceeds \/ Denied \/ CheckSucceeds \/ CheckFails
            \/ AttemptRefutes
  <2>1. PICK g \in BOOLEAN : call' = NoCall /\ reply' = [reply EXCEPT !.good = g]
    <3>1. call.good \in BOOLEAN
      BY DEF CallsTyped, CallTypes
    <3> QED
      BY <1>11, <3>1 DEF TrySucceeds, AssertSucceeds, Denied, CheckSucceeds,
         CheckFails, AttemptRefutes, Ends, Finish
  <2>2. reply' \in ReplyTypes(UsedLits)
    BY <1>2, <2>1, ReplyEnds
  <2> QED
    BY <1>1, <1>2, <2>1, <2>2 DEF AttemptInv, ReplyTyped
<1>12. CASE TryBacktracks \/ AssertFails
  <2>1. /\ pc = "conflict" /\ call.op \in Attempts /\ reply' = reply
        /\ \/ call' = [call EXCEPT !.good = FALSE]
           \/ call' = [call EXCEPT !.op = "denied"]
    BY <1>12 DEF TryBacktracks, AssertFails, Learn, Analyzing, During
  <2>2. Excluded(Tried)'
    BY <2>1, TriedExcluded, ExcludedStays
  <2>3. (call'.op = call.op /\ ~ call'.good) \/ call'.op = "denied"
    BY <2>1 DEF CallsTyped, CallTypes
  <2>4. call.op = "try" \/ call'.op = "denied"
    BY <1>12, <2>3 DEF TryBacktracks, AssertFails, During, CallsTyped, CallTypes
  <2> QED
    BY <1>1, <1>2, <2>1, <2>2, <2>3, <2>4 DEF AttemptInv, ReplyTyped
<1>13. CASE Solve
  <2>1. call' = Begin("tidy", Args) /\ reply' = NoReply
    BY <1>13 DEF Solve
  <2> QED
    BY <1>1, <1>2, <2>1 DEF AttemptInv, ReplyTyped, Begin
<1>14. CASE Searches
  <2>1. call.op \in {"tidy", "solve"} /\ reply' = reply
    BY <1>14, SearchCall, SearchKeeps
  <2>2. reply.op = "none"
    BY <2>1 DEF AttemptInv
  <2>3. call'.op \in {"tidy", "solve", "none"}
    <3>1. call' = call \/ call' = NoCall \/ call' = [call EXCEPT !.op = "solve"]
      BY <1>14, SearchKeeps
    <3> QED
      BY <1>2, <2>1, <3>1 DEF CallsTyped, CallTypes
  <2> QED
    BY <1>1, <1>2, <2>1, <2>2, <2>3 DEF AttemptInv, ReplyTyped
<1> QED
  BY <1>4, <1>5, <1>6, <1>7, <1>8, <1>9, <1>10, <1>11, <1>12, <1>13, <1>14
     DEF Next, AddsSome, Inside, Visits, Searches

(* What holds when an attempt is answered. *)
LEMMA KnownRight ==
  ASSUME PlainTypes, CallsTyped, TrailInv, ListsInv, ReasonsInv, Follows, AnswerKnown,
         "mistaken" \notin slips'
  PROVE  IF reply'.good
         THEN IsTrue(reply.lit)' /\ reply'.before \subseteq TrueLits'
         ELSE ModelsWith(reply.before \cup {reply.lit})' = {}
<1>1. PICK op \in Attempts :
        /\ NextCall(op) /\ Known(op, Args[1])
        /\ Replies(op, IsTrue(Args[1]) /\ (ok \/ op = "assert"))
        /\ trail' = trail /\ given' = given /\ slips' = slips
  BY DEF AnswerKnown, assignment
<1>2. (IsTrue(Args[1]) /\ (ok \/ op = "assert")) \in BOOLEAN
  BY DEF IsTrue
<1>3. /\ Args[1] \in UsedLits
      /\ reply'.lit = Args[1] /\ reply'.before = Guesses
      /\ reply'.good <=> IsTrue(Args[1]) /\ (ok \/ op = "assert")
  BY <1>1, <1>2, NewReplyTyped
<1>4. CASE reply'.good
  <2>1. Guesses \subseteq TrueLits
    BY DEF Guesses, TrueLits
  <2> QED
    BY <1>1, <1>3, <1>4, <2>1 DEF IsTrue, TrueLits
<1>5. CASE ~ reply'.good
  <2> SUFFICES ASSUME NEW a \in A!Models(given),
                      \A l \in Guesses \cup {Args[1]} : A!Holds(a, l)
               PROVE  FALSE
    BY <1>1, <1>3, <1>5 DEF ModelsWith
  <2>1. a \in A!Assignments /\ ok /\ Allows(a, clauses, trail)
    BY <1>1 DEF Follows, A!Models
  <2>2. \A i \in DOMAIN trail : IsGuess(i) => A!Holds(a, trail[i].lit)
    BY DEF Guesses
  <2>3. \A i \in DOMAIN trail : A!Holds(a, trail[i].lit)
    BY <2>1, <2>2, Respected
  <2>4. IsFalse(Args[1])
    BY <1>1, <1>3, <1>5, <2>1 DEF Known, IsOpen
  <2> QED
    BY <1>3, <2>1, <2>3, <2>4, FalseFails
<1> QED
  BY <1>4, <1>5

LEMMA EndsRight ==
  ASSUME PlainTypes, CallsTyped, TrailInv, ListsInv, ReasonsInv, CallInv, Follows,
         Clash, AttemptInv, "mistaken" \notin slips,
         \/ TrySucceeds \/ AssertSucceeds \/ Denied \/ CheckSucceeds \/ CheckFails
         \/ AttemptRefutes
  PROVE  IF reply'.good
         THEN IsTrue(reply.lit)' /\ reply'.before \subseteq TrueLits'
         ELSE ModelsWith(reply.before \cup {reply.lit})' = {}
<1>1. \A g \in BOOLEAN : reply' = [reply EXCEPT !.good = g] =>
        reply'.lit = reply.lit /\ reply'.before = reply.before /\ (reply'.good <=> g)
  BY ReplyEnds DEF AttemptInv
<1>2. Guesses \subseteq TrueLits
  BY DEF Guesses, TrueLits
<1>3. call.good \in BOOLEAN
  BY DEF CallsTyped, CallTypes
(* No: no model had the literal and the guesses. *)
<1>4. ASSUME Excluded(Tried), given' = given, reply' = [reply EXCEPT !.good = FALSE]
      PROVE  ~ reply'.good /\ ModelsWith(reply.before \cup {reply.lit})' = {}
  BY <1>1, <1>4 DEF Excluded, Tried, ModelsWith
<1>5. CASE TrySucceeds \/ CheckSucceeds
  <2>1. /\ call.op \in Attempts /\ trail' = trail /\ given' = given
        /\ \/ reply' = [reply EXCEPT !.good = call.good]
           \/ call.op = "check" /\ reply' = [reply EXCEPT !.good = TRUE]
    BY <1>5 DEF TrySucceeds, CheckSucceeds, Ends, Finish, During, Attempts, assignment
  <2>2. CASE call.good
    <3>1. Guesses = Tried
      BY <2>1, <2>2 DEF AttemptInv
    <3>2. reply'.good /\ reply'.lit = reply.lit /\ reply'.before = reply.before
      BY <1>1, <1>3, <2>1, <2>2
    <3>3. reply.lit \in TrueLits /\ reply.before \subseteq TrueLits
      BY <1>2, <3>1 DEF Tried
    <3>4. TrueLits' = TrueLits /\ (IsTrue(reply.lit)' <=> reply'.lit \in TrueLits')
      BY <2>1 DEF TrueLits, IsTrue
    <3> QED
      BY <3>2, <3>3, <3>4
  <2>3. CASE ~ call.good
    <3>1. Excluded(Tried)
      BY <2>1, <2>3 DEF AttemptInv
    <3>2. reply' = [reply EXCEPT !.good = FALSE]
      <4>1. call.good = FALSE
        BY <1>3, <2>3
      <4> QED
        BY <2>1, <2>3, <4>1 DEF AttemptInv
    <3> QED
      BY <1>4, <2>1, <3>1, <3>2
  <2> QED
    BY <2>2, <2>3
<1>6. CASE AssertSucceeds
  <2>1. /\ call.op = "assert" /\ reply' = [reply EXCEPT !.good = TRUE]
        /\ trail' = [i \in DOMAIN trail |-> [trail[i] EXCEPT !.level = 0]]
    BY <1>6 DEF AssertSucceeds, During, Finish
  <2>2. Guesses = Tried
    BY <2>1 DEF AttemptInv, Attempts
  <2>3. reply'.good /\ reply'.lit = reply.lit /\ reply'.before = reply.before
    BY <1>1, <2>1
  <2>4. DOMAIN trail' = DOMAIN trail
        /\ \A i \in DOMAIN trail : trail'[i].lit = trail[i].lit
    <3>1. \A i \in DOMAIN trail : trail[i] \in EntryTypes(used, next)
      BY StateIs
    <3> QED
      BY <2>1, <3>1 DEF EntryTypes
  <2>5. reply.lit \in TrueLits /\ reply.before \subseteq TrueLits
    BY <1>2, <2>2 DEF Tried
  <2>6. TrueLits' = TrueLits /\ (IsTrue(reply.lit)' <=> reply'.lit \in TrueLits')
    BY <2>4 DEF TrueLits, IsTrue
  <2> QED
    BY <2>3, <2>5, <2>6
<1>7. CASE Denied
  <2>1. call.op = "denied" /\ given' = given /\ reply' = [reply EXCEPT !.good = FALSE]
    BY <1>7 DEF Denied, During, Finish
  <2> QED
    BY <1>4, <2>1 DEF AttemptInv
<1>8. CASE CheckFails
  <2>1. /\ call.op \in Attempts /\ pc = "conflict" /\ given' = given
        /\ reply' = [reply EXCEPT !.good = FALSE]
    BY <1>8 DEF CheckFails, During, Finish, Attempts
  <2>2. Excluded(Tried)
    BY <2>1, TriedExcluded
  <2> QED
    BY <1>4, <2>1, <2>2
<1>9. CASE AttemptRefutes
  <2>1. /\ pc = "conflict" /\ Len(lim) = 0 /\ given' = given
        /\ reply' = [reply EXCEPT !.good = FALSE]
    BY <1>9 DEF AttemptRefutes, CurrentLevel, Finish
  <2>2. Excluded(Tried)
    BY <2>1, NoModels DEF Excluded, ModelsWith
  <2> QED
    BY <1>4, <2>1, <2>2
<1> QED
  BY <1>5, <1>6, <1>7, <1>8, <1>9

LEMMA AttemptsRightStep ==
  ASSUME PlainTypes, CallsTyped, TrailInv, ListsInv, ReasonsInv, CallInv, Follows,
         Clash, AttemptInv, AttemptsRight, Next
  PROVE  AttemptsRight'
<1> SUFFICES ASSUME pc' = "call", reply'.op # "none", "mistaken" \notin slips'
             PROVE  IF reply'.good
                    THEN IsTrue(reply.lit)' /\ reply'.before \subseteq TrueLits'
                    ELSE ModelsWith(reply.before \cup {reply.lit})' = {}
  BY DEF AttemptsRight
<1>1. "mistaken" \notin slips
  BY GivenGrows
<1>2. AddsSome \/ Reset \/ PopCheck \/ Solve => reply' = NoReply
  BY DEF AddsSome, AddAClause, AddASingle, AddAPair, Adds, Reset, PopCheck, GoesBack,
         Solve
<1>3. ~ (AddsSome \/ Reset \/ PopCheck \/ Solve)
  BY <1>2 DEF NoReply
<1>4. ~ (AddFinished \/ AddRefutes)
  BY DEF AddFinished, AddRefutes, During, AttemptInv
<1>5. ~ Searches
  BY SearchCall, SearchKeeps DEF AttemptInv
<1>6. ~ (Attempt \/ TryBacktracks \/ AssertFails)
  BY DEF Attempt, TryBacktracks, AssertFails, Learn
<1>7. ~ Inside
  BY InsideKeeps
<1>8. CASE LightSolve \/ Returned
  <2>1. UNCHANGED <<pc, reply, given, slips, trail>>
    BY <1>8 DEF LightSolve, Returned, vars, assignment
  <2> QED
    BY <2>1 DEF AttemptsRight, IsTrue, TrueLits, ModelsWith
<1> QED
  BY <1>1, <1>3, <1>4, <1>5, <1>6, <1>7, <1>8, KnownRight, EndsRight
     DEF Next, AddsSome, Inside, Visits, Searches

---------------------------------------------------------------------------
(* Searches.                                                               *)
LEMMA CallGoes ==
  ASSUME PlainTypes, CallsTyped, TrailInv, CallInv, Next
  PROVE  \/ call'.op \in Attempts \cup {"denied", "none"}
         \/ AddsSome /\ call'.op = "fact"
         \/ Inside
         \/ Solve /\ call'.op = "tidy" /\ call'.lits = Args
         \/ Searches /\ call'.op = "solve" /\ call'.lits = call.lits
<1>1. NoCall.op = "none" /\ (pc = "call" => call.op = "none")
  BY DEF NoCall, CallInv
<1>2. CASE AddsSome
  <2>1. Adding /\ pc = "call"
    BY <1>2, ClauseAdds, SingleAdds, PairAdds
       DEF AddsSome, AddAClause, AddASingle, AddAPair, Adds, NextCall
  <2> QED
    BY <1>1, <1>2, <2>1 DEF Adding, Begin
<1>3. CASE AddFinished \/ AddRefutes
  BY <1>1, <1>3 DEF AddFinished, AddRefutes
<1>4. CASE LightSolve \/ Returned \/ Reset \/ PopCheck \/ AnswerKnown
  BY <1>1, <1>4 DEF LightSolve, Returned, vars, Running, Reset, PopCheck, GoesBack,
     AnswerKnown, NextCall
<1>5. CASE Attempt
  BY <1>5 DEF Attempt, Begin
<1>6. CASE \/ TrySucceeds \/ AssertSucceeds \/ Denied \/ CheckSucceeds \/ CheckFails
           \/ AttemptRefutes
  BY <1>1, <1>6 DEF TrySucceeds, AssertSucceeds, Denied, CheckSucceeds,
     CheckFails, AttemptRefutes, Ends, Finish
<1>7. CASE TryBacktracks \/ AssertFails
  BY <1>7 DEF TryBacktracks, AssertFails, During, Attempts, CallsTyped, CallTypes
<1>8. CASE Solve
  BY <1>8 DEF Solve, Begin
<1>9. CASE Searches
  <2>1. CASE call' = NoCall
    BY <1>1, <2>1
  <2>2. CASE Tidy
    BY <1>9, <2>2 DEF Tidy, CallsTyped, CallTypes
  <2>3. CASE call' = call /\ ~ Tidy
    <3>1. ~ Refused /\ ~ SearchRefutes
      <4>1. call.op \in {"tidy", "solve"}
        BY <1>9, SearchCall
      <4> QED
        BY <1>1, <2>3, <4>1 DEF Refused, SearchRefutes, Answers
    <3>2. Deciding => call.op = "solve"
      BY DEF Deciding, Searching, During, CallInv
    <3>3. Picking => call.op = "solve"
      BY <3>2 DEF Picking, Branching, CallInv
    <3>4. CASE SearchLearns \/ RefutesTooLate \/ Restart \/ RestartsTooLate
      BY <1>9, <2>3, <3>4 DEF SearchLearns, RefutesTooLate, Restart, RestartsTooLate,
         Restarting, RestartDue, TooLong, Searching, During
    <3>5. CASE \/ AssumeTrue \/ AssumeOpen \/ AssumeFalse \/ AssumesTooLate \/ Reduce
               \/ Branch \/ ModelFound \/ FoundTooLate
      BY <1>9, <2>3, <3>2, <3>3, <3>5 DEF AssumeTrue, AssumeOpen, AssumeFalse,
         AssumesTooLate, Assuming, Reduce, Branching, Branch, ModelFound, FoundTooLate
    <3> QED
      BY <1>9, <2>3, <3>1, <3>4, <3>5 DEF Searches
  <2> QED
    BY <1>9, <2>1, <2>2, <2>3, SearchKeeps
<1> QED
  BY <1>2, <1>3, <1>4, <1>5, <1>6, <1>7, <1>8, <1>9
     DEF Next, AddsSome, Inside, Visits, Searches

LEMMA NoLevelStep ==
  ASSUME PlainTypes, CallsTyped, TrailInv, CallInv, NoLevel, Next
  PROVE  NoLevel'
<1>1. CASE AddsSome \/ Solve
  <2>1. lim' = lim /\ Len(lim) = 0
    BY <1>1 DEF AddsSome, AddAClause, AddASingle, AddAPair, Adds, Solve, CurrentLevel,
       assignment
  <2> QED
    BY <2>1 DEF NoLevel
<1>2. CASE Inside
  BY <1>2, InsideKeeps DEF NoLevel
<1> QED
  BY <1>1, <1>2, CallGoes DEF NoLevel, Attempts

(* Which steps refuse a solve, go on to pick a variable, and find no model. *)
LEMMA PlaceFrom ==
  ASSUME PlainTypes, CallsTyped, TrailInv, CallInv, Next
  PROVE  pc' \in {"refused", "pick"} => Solve \/ Reduce
<1>1. CASE AddsSome
  <2>1. Adding
    BY <1>1, ClauseAdds, SingleAdds, PairAdds DEF AddsSome
  <2>2. pc = "call"
    BY <1>1 DEF AddsSome, AddAClause, AddASingle, AddAPair, Adds, NextCall
  <2> QED
    BY <2>1, <2>2 DEF Adding
<1>2. CASE \/ AddFinished \/ AddRefutes \/ LightSolve \/ Reset \/ PopCheck
           \/ AnswerKnown \/ Attempt
  BY <1>2 DEF AddFinished, AddRefutes, LightSolve, Reset, PopCheck, GoesBack,
              AnswerKnown, Attempt, NextCall
<1>3. CASE Inside
  BY <1>3, InsideKeeps
<1>4. CASE \/ TrySucceeds \/ Denied \/ CheckSucceeds \/ AttemptRefutes
           \/ AssertSucceeds \/ AssertFails \/ CheckFails
  BY <1>4 DEF TrySucceeds, Denied, CheckSucceeds, Ends, Finish, AttemptRefutes,
              AssertSucceeds, AssertFails, CheckFails
<1>5. CASE SearchLearns \/ TryBacktracks
  BY <1>5 DEF SearchLearns, TryBacktracks, Learn
<1>6. CASE \/ Refused \/ SearchRefutes \/ RefutesTooLate \/ RestartsTooLate
           \/ AssumeFalse \/ AssumesTooLate \/ ModelFound \/ FoundTooLate
  BY <1>6 DEF Refused, SearchRefutes, RefutesTooLate, RestartsTooLate, AssumeFalse,
              AssumesTooLate, ModelFound, FoundTooLate, Bail, Answers
<1>7. CASE Restart \/ Tidy \/ AssumeTrue \/ AssumeOpen \/ Branch
  BY <1>7 DEF Restart, Restarting, Quiet, Tidy, AssumeTrue, AssumeOpen,
              Branch, Decide
<1>8. CASE Returned
  BY <1>8 DEF Returned, vars, Running
<1> QED
  BY <1>1, <1>2, <1>3, <1>4, <1>5, <1>6, <1>7, <1>8
     DEF Next, AddsSome, Inside, Visits

(* A guess of a search is an assumption of the first levels, or above them. *)
LEMMA SearchGuesses ==
  ASSUME PlainTypes, CallsTyped, TrailInv, WorkInv, Searches,
         NEW l, GuessesLit(l)
  PROVE  \/ Assuming /\ l = Assumption
         \/ pc = "pick"
         \/ Deciding /\ ~ Assuming
<1>1. Len(lim) \in Nat /\ Len(lim') = Len(lim) + 1 /\ trail' # trail
  <2>1. lim' = Append(lim, Len(trail)) /\ trail' = Append(trail, Entry(l, 0, Len(lim) + 1))
    BY DEF GuessesLit
  <2>2. lim \in Seq(0 .. Len(trail)) /\ trail \in Seq(EntryTypes(used, next))
    BY StateIs
  <2>3. Len(trail') = Len(trail) + 1 /\ Len(trail) \in Nat
    BY <2>1, <2>2
  <2> QED
    BY <2>1, <2>2, <2>3
<1>2. CASE AssumeOpen
  <2>1. Assuming /\ trail' = Append(trail, Entry(Assumption, 0, Len(lim) + 1))
    BY <1>2 DEF AssumeOpen, Decide, CurrentLevel
  <2>2. trail' = Append(trail, Entry(l, 0, Len(lim) + 1))
    BY DEF GuessesLit
  <2>3. trail \in Seq(EntryTypes(used, next))
    BY StateIs
  <2>4. Entry(Assumption, 0, Len(lim) + 1) = Entry(l, 0, Len(lim) + 1)
    BY <2>1, <2>2, <2>3
  <2>5. Assumption = l
    BY <2>4 DEF Entry
  <2> QED
    BY <2>1, <2>5
<1>3. CASE Branch
  <2>1. Picking
    BY <1>3 DEF Branch
  <2> QED
    BY <2>1 DEF Picking, Branching
<1>4. CASE \/ RefutesTooLate \/ RestartsTooLate \/ AssumesTooLate \/ Restart
           \/ AssumeFalse \/ ModelFound \/ FoundTooLate
  <2>1. CancelUntil(0)
    BY <1>4 DEF RefutesTooLate, RestartsTooLate, AssumesTooLate, Bail, Restart,
       AssumeFalse, ModelFound, FoundTooLate
  <2>2. Len(lim') <= Len(lim)
    <3>1. lim' = LimUpTo(0)
      BY <2>1 DEF CancelUntil
    <3>2. next \in Nat /\ next <= next /\ 0 \in Nat
      BY StateIs
    <3>3. Len(LimUpTo(0)) = IF Len(lim) <= 0 THEN Len(lim) ELSE 0
      BY <3>2, BackIs
    <3> QED
      BY <1>1, <3>1, <3>3
  <2> QED
    BY <1>1, <2>2
<1>5. CASE Refused \/ Tidy \/ SearchRefutes \/ AssumeTrue \/ Reduce
  <2>1. trail' = trail
    BY <1>5 DEF Refused, Tidy, SearchRefutes, AssumeTrue, Reduce, assignment
  <2> QED
    BY <1>1, <2>1
<1>6. CASE SearchLearns
  <2>1. Learn
    BY <1>6 DEF SearchLearns
  <2>2. next' \in Nat \ {0} /\ next <= next' /\ (Kept # << >> => next < next')
    BY <2>1, StateIs DEF Learn, NewClause, database
  <2>3. Len(lim') < Len(lim)
    BY <2>1, <2>2, LearnKeepsSound
  <2> QED
    BY <1>1, <2>3
<1> QED
  BY <1>2, <1>3, <1>4, <1>5, <1>6 DEF Searches

LEMMA SolveStep ==
  ASSUME PlainTypes, CallsTyped, TrailInv, ListsInv, CallInv, WorkInv, NoLevel,
         SolveInv, Next
  PROVE  SolveInv'
<1>1. Len(lim) \in Nat /\ call.lits \in Seq(UsedLits) /\ Len(call.lits) \in Nat
  BY StateIs DEF CallsTyped, CallTypes
<1>2. pc' = "refused" => ~ ok'
  <2>1. pc' = "refused" => Solve
    BY PlaceFrom DEF Reduce
  <2> QED
    BY <2>1 DEF Solve
<1>3. pc' = "pick" => Len(lim') >= Len(call'.lits)
  <2>1. CASE Reduce
    <3>1. Deciding /\ ~ Assuming /\ lim' = lim /\ call' = call
      BY <2>1 DEF Reduce, Branching, assignment
    <3> QED
      BY <1>1, <3>1 DEF Assuming, CurrentLevel
  <2>2. CASE Solve
    BY <2>2 DEF Solve
  <2> QED
    BY <2>1, <2>2, PlaceFrom
<1>4. call'.op \in {"tidy", "solve"} => assumed' = Range(call'.lits)
  <2>1. CASE Inside
    BY <2>1, InsideKeeps DEF SolveInv
  <2>2. CASE Solve
    BY <2>2 DEF Solve, Begin
  <2>3. CASE Searches /\ call'.lits = call.lits
    BY <2>3, SearchCall, SearchKeeps DEF SolveInv
  <2> QED
    BY <2>1, <2>2, <2>3, CallGoes DEF Attempts
<1>5. ASSUME call'.op = "solve", NEW i \in DOMAIN trail', trail'[i].level > 0,
             trail'[i].why = 0, trail'[i].level <= Len(call'.lits)
      PROVE  trail'[i].lit = call'.lits[trail'[i].level]
  <2>1. (Inside \/ Searches) /\ call'.lits = call.lits
    BY <1>5, CallGoes, InsideKeeps DEF Attempts
  <2>2. call.op = "solve" \/ (call.op = "tidy" /\ Len(lim) = 0 /\ trail' = trail)
    <3>1. CASE Inside
      BY <1>5, <3>1, InsideKeeps
    <3>2. CASE Searches
      <4>1. CASE call.op = "tidy"
        <5>1. call' # call /\ call' # NoCall
          BY <1>5, <4>1 DEF NoCall
        <5>2. Tidy
          BY <3>2, <5>1, SearchKeeps
        <5> QED
          BY <4>1, <5>2 DEF Tidy, NoLevel, assignment
      <4> QED
        BY <3>2, <4>1, SearchCall
    <3> QED
      BY <2>1, <3>1, <3>2
  <2>3. CASE i \in DOMAIN trail /\ trail'[i] = trail[i]
    <3>1. CASE call.op = "solve"
      BY <1>5, <2>1, <2>3, <3>1 DEF SolveInv, IsGuess
    <3>2. CASE Len(lim) = 0
      <4>1. trail[i].level \in 0 .. Len(lim)
        BY <2>3, StateIs
      <4> QED
        BY <1>5, <2>3, <3>2, <4>1
    <3> QED
      BY <2>2, <3>1, <3>2
  <2>4. CASE GuessesLit(trail'[i].lit) /\ trail'[i].level = Len(lim) + 1
    <3>1. Searches
      <4>1. CASE Inside
        <5>1. lim' = lim /\ lim' = Append(lim, Len(trail))
          BY <2>4, <4>1, InsideKeeps DEF GuessesLit
        <5>2. lim \in Seq(0 .. Len(trail))
          BY StateIs
        <5>3. Len(lim') = Len(lim) + 1
          BY <5>1, <5>2
        <5> QED
          BY <1>1, <5>1, <5>3
      <4> QED
        BY <2>1, <4>1
    <3>2. CASE Assuming /\ trail'[i].lit = Assumption
      BY <2>1, <2>4, <3>2 DEF Assumption, CurrentLevel
    <3>3. CASE pc = "pick" \/ (Deciding /\ ~ Assuming)
      <4>1. Len(lim) >= Len(call.lits)
        BY <1>1, <3>3 DEF SolveInv, Assuming, CurrentLevel
      <4> QED
        BY <1>1, <1>5, <2>1, <2>4, <4>1
    <3> QED
      BY <2>4, <3>1, <3>2, <3>3, SearchGuesses
  <2> QED
    BY <1>5, <2>3, <2>4, GuessesFrom
<1> QED
  BY <1>2, <1>3, <1>4, <1>5 DEF SolveInv, IsGuess

(* Which steps say that there is no model. *)
LEMMA UnsatFrom ==
  ASSUME Next, answer' = "unsat"
  PROVE  \/ Refused \/ SearchRefutes \/ AssumeFalse
         \/ UNCHANGED <<answer, given, assumed>>
<1>1. CASE AddsSome \/ Solve
  BY <1>1 DEF AddsSome, AddAClause, AddASingle, AddAPair, Adds, Solve
<1>2. CASE \/ AddFinished \/ AddRefutes \/ LightSolve \/ Reset \/ PopCheck
           \/ AnswerKnown \/ Attempt
  BY <1>2 DEF AddFinished, AddRefutes, LightSolve, Reset, PopCheck, GoesBack,
              AnswerKnown, Attempt, outcome
<1>3. CASE Inside
  BY <1>3, InsideKeeps
<1>4. CASE \/ TrySucceeds \/ Denied \/ CheckSucceeds \/ AttemptRefutes
           \/ AssertSucceeds \/ AssertFails \/ CheckFails
  BY <1>4 DEF TrySucceeds, Denied, CheckSucceeds, Ends, AttemptRefutes,
              AssertSucceeds, AssertFails, CheckFails, UnchangedInAttempt
<1>5. CASE SearchLearns \/ TryBacktracks
  BY <1>5 DEF SearchLearns, TryBacktracks, Learn, outcome
<1>6. CASE \/ RefutesTooLate \/ RestartsTooLate \/ AssumesTooLate \/ ModelFound
           \/ FoundTooLate
  BY <1>6 DEF RefutesTooLate, RestartsTooLate, AssumesTooLate, ModelFound,
              FoundTooLate, Bail, Answers
<1>7. CASE Restart \/ Tidy \/ AssumeTrue \/ AssumeOpen \/ Reduce \/ Branch
  BY <1>7 DEF Restart, Tidy, AssumeTrue, AssumeOpen, Reduce, Branch, Decide,
              UnchangedInside, UnchangedInSearch
<1>8. CASE Returned
  BY <1>8 DEF Returned, vars, outcome
<1> QED
  BY <1>1, <1>2, <1>3, <1>4, <1>5, <1>6, <1>7, <1>8
     DEF Next, AddsSome, Inside, Visits

LEMMA UnsatStep ==
  ASSUME PlainTypes, CallsTyped, TrailInv, ListsInv, ReasonsInv, CallInv, Follows,
         Clash, SolveInv, UnsatRight, Next
  PROVE  UnsatRight'
<1> SUFFICES ASSUME answer' = "unsat", "mistaken" \notin slips',
                    NEW a \in A!Models(given')
             PROVE  \E l \in assumed' : ~ A!Holds(a, l)
  BY DEF UnsatRight
<1>1. "mistaken" \notin slips /\ given \subseteq given'
  BY GivenGrows
<1>2. a \in A!Models(given) /\ a \in A!Assignments
  BY <1>1, FewerModels
<1>3. ok /\ Allows(a, clauses, trail)
  BY <1>1, <1>2 DEF Follows
<1>4. CASE UNCHANGED <<answer, given, assumed>>
  BY <1>1, <1>2, <1>4 DEF UnsatRight
<1>5. CASE Refused
  BY <1>3, <1>5 DEF Refused, SolveInv
<1>6. CASE SearchRefutes
  BY <1>1, <1>2, <1>6, NoModels DEF SearchRefutes, CurrentLevel
<1>7. CASE AssumeFalse
  <2>1. Assuming /\ IsFalse(Assumption) /\ assumed' = assumed
    BY <1>7 DEF AssumeFalse, UnchangedByAnswer, UnchangedInSearch
  <2>2. call.op = "solve" /\ assumed = Range(call.lits)
    BY <2>1 DEF Assuming, Deciding, Searching, During, CallInv, SolveInv
  <2>3. /\ Len(lim) \in Nat /\ Len(lim) < Len(call.lits)
        /\ call.lits \in Seq(UsedLits) /\ Assumption = call.lits[Len(lim) + 1]
    BY <2>1, StateIs DEF Assuming, Assumption, CurrentLevel, CallsTyped, CallTypes
  <2>4. \A k \in 1 .. Len(lim) + 1 : call.lits[k] \in assumed
    <3>1. \A k \in 1 .. Len(lim) + 1 : k \in DOMAIN call.lits
      BY <2>3
    <3> QED
      BY <2>2, <3>1 DEF Range
  <2> SUFFICES ASSUME \A l \in assumed : A!Holds(a, l) PROVE FALSE
    BY <2>1
  <2>5. ASSUME NEW i \in DOMAIN trail, IsGuess(i) PROVE A!Holds(a, trail[i].lit)
    <3>1. trail[i].level \in 0 .. Len(lim) /\ trail[i].level > 0
      BY <2>5, StateIs DEF IsGuess
    <3>2. trail[i].level \in 1 .. Len(lim) + 1 /\ trail[i].level <= Len(call.lits)
      BY <2>3, <3>1
    <3>3. trail[i].lit = call.lits[trail[i].level]
      BY <2>2, <2>5, <3>2 DEF SolveInv
    <3> QED
      BY <2>4, <3>2, <3>3
  <2>6. \A i \in DOMAIN trail : A!Holds(a, trail[i].lit)
    BY <1>2, <1>3, <2>5, Respected
  <2>7. Assumption \in UsedLits /\ A!Holds(a, Assumption)
    <3>1. Len(lim) + 1 \in 1 .. Len(lim) + 1 /\ Len(lim) + 1 \in DOMAIN call.lits
      BY <2>3
    <3> QED
      BY <2>3, <2>4, <3>1
  <2> QED
    BY <1>2, <2>1, <2>6, <2>7, FalseFails
<1> QED
  BY <1>4, <1>5, <1>6, <1>7, UnsatFrom

---------------------------------------------------------------------------
(* The invariant with all that the state says.                             *)
MInv == /\ IInv /\ Follows /\ Clash /\ WorkMeans /\ AttemptInv /\ NoLevel /\ SolveInv
        /\ AttemptsRight /\ UnsatRight

LEMMA InitMInv ==
  ASSUME Init
  PROVE  MInv
<1>1. /\ ok = TRUE /\ clauses = << >> /\ trail = << >> /\ lim = << >> /\ pc = "call"
      /\ call = NoCall /\ answer = "none" /\ reply = NoReply
  BY DEF Init
<1>2. DOMAIN clauses = {} /\ DOMAIN trail = {} /\ Len(lim) = 0
  BY <1>1
<1>3. Follows /\ Clash /\ WorkMeans
  BY <1>1, <1>2 DEF Follows, Allows, Obeyed, FactsIn, Clash, WorkMeans
<1>4. AttemptInv /\ NoLevel /\ SolveInv
  <2>1. call.op = "none" /\ ReplyTyped
    BY <1>1, NoReplyTyped DEF NoCall, ReplyTyped
  <2> QED
    BY <1>1, <2>1 DEF AttemptInv, NoLevel, SolveInv, Attempts
<1>5. AttemptsRight /\ UnsatRight
  BY <1>1 DEF AttemptsRight, UnsatRight, NoReply
<1> QED
  BY <1>3, <1>4, <1>5, InitIInv DEF MInv

LEMMA NextMInv ==
  ASSUME MInv, [Next]_vars
  PROVE  MInv'
<1>1. IInv'
  BY NextIInv DEF MInv
<1>2. CASE Next
  <2> USE <1>2 DEF MInv, IInv
  <2>1. Clash' /\ WorkMeans' /\ Follows'
    BY ClashStep, WorkMeansStep, FollowsStep
  <2>2. AttemptInv' /\ NoLevel' /\ SolveInv'
    BY AttemptStep, NoLevelStep, SolveStep
  <2>3. AttemptsRight' /\ UnsatRight'
    BY AttemptsRightStep, UnsatStep
  <2> QED
    BY <1>1, <2>1, <2>2, <2>3
<1>3. CASE UNCHANGED vars
  <2>1. /\ UNCHANGED <<used, ok, clauses, trail, lim, pc, call, work>>
        /\ UNCHANGED <<assumed, answer, given, reply, slips>>
    BY <1>3 DEF vars, database, assignment, outcome
  <2>2. Follows' /\ Clash' /\ WorkMeans' /\ NoLevel'
    BY <2>1 DEF MInv, Follows, Clash, WorkMeans, NoLevel
  <2>3. UsedLits' = UsedLits /\ Guesses' = Guesses /\ Tried' = Tried
        /\ (Excluded(Tried)' <=> Excluded(Tried))
    BY <2>1 DEF UsedLits, Guesses, IsGuess, Tried, Excluded, ModelsWith
  <2>4. AttemptInv'
    BY <2>1, <2>3 DEF MInv, AttemptInv, ReplyTyped
  <2>5. SolveInv'
    BY <2>1 DEF MInv, SolveInv, IsGuess
  <2>6. AttemptsRight' /\ UnsatRight'
    BY <2>1 DEF MInv, AttemptsRight, UnsatRight, IsTrue, TrueLits, ModelsWith
  <2> QED
    BY <1>1, <2>2, <2>4, <2>5, <2>6 DEF MInv
<1> QED
  BY <1>2, <1>3

(* What the state says of the clauses given (Solver.cpp): kept and learnt   *)
(* clauses and facts follow from them, a conflict and what analyze has put  *)
(* together of it contradict the trail, and what an attempt or a search     *)
(* holds as a guess is what its caller asked for.                           *)
THEOREM SolverMeans == Spec => []MInv
<1>1. Init => MInv
  BY InitMInv
<1>2. MInv /\ [Next]_vars => MInv'
  BY NextMInv
<1> QED
  BY <1>1, <1>2, PTL DEF Spec

(* Whatever the solver learns, shrinks, forces or deletes, its clauses and  *)
(* its facts follow from what was given; it only takes ok back when nothing *)
(* satisfies that (a single set that addClause has mistaken aside).         *)
THEOREM SolverFollows == Spec => []Follows
<1>1. MInv => Follows
  BY DEF MInv
<1> QED
  BY <1>1, SolverMeans, PTL

(* tryAssignment, assertIfPossible and checkIfPossible answer yes when the  *)
(* literal is true next to the guesses they found, and no only when nothing *)
(* that was given has both, so the value may be ruled out (CheckPossible).  *)
THEOREM SolverAttempts == Spec => []AttemptsRight
<1>1. MInv => AttemptsRight
  BY DEF MInv
<1> QED
  BY <1>1, SolverMeans, PTL

(* After "unsat" nothing satisfies the clauses given so far and the         *)
(* assumptions, however the search came to it and whatever it has learnt in *)
(* earlier solves.                                                          *)
THEOREM SolverUnsat == Spec => []UnsatRight
<1>1. MInv => UnsatRight
  BY DEF MInv
<1> QED
  BY <1>1, SolverMeans, PTL

===============================================================================
