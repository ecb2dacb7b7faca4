--------------------------- MODULE SolverComplete ---------------------------
(***************************************************************************)
(* That the solver is complete: propagation misses no clause, simplifying  *)
(* and deleting lose none, and what solve() returns is a model - as long   *)
(* as none of the slips has happened.                                      *)
(***************************************************************************)
EXTENDS SolverMeaning

Fine == ok /\ slips = {}

(* The literals of the trail whose turn has passed for a clause: those up  *)
(* to qhead, and the next one, when the clause stands before "at" in the   *)
(* list being read.  A conflict ends in going back to before its level.    *)
DoneUpTo == IF pc # "conflict" THEN qhead
            ELSE IF Len(lim) = 0 THEN 0 ELSE lim[Len(lim)]
Handled(id) ==
  {j \in DOMAIN trail :
     \/ j <= DoneUpTo
     \/ /\ Pending /\ j = qhead + 1
        /\ \E n \in 1 .. at - 1 : watches[P][n] = id}

(* Literal l is true, at the level of the trail's j-th or a lower one. *)
Under(t, l, j) == \E i \in DOMAIN t : t[i].lit = l /\ t[i].level <= t[j].level
LastOf(c) == c.lits[Len(c.lits)]
(* When the turn of a false literal has passed that a clause watches, the  *)
(* other one that it watches is true, and stays so as long as the first is *)
(* false.  Of a single set no other watched literal may be such a one, and *)
(* the last is true; that one may wait until a conflict of it is learnt.   *)
Guarded(c, t, H, odd) ==
  IF c.kind = "single"
  THEN \A k \in 1 .. Len(c.lits) - 1 : \A j \in H : t[j].lit = Neg(c.lits[k]) =>
         /\ \A m \in 1 .. Len(c.lits) - 1 : \A i \in H :
              t[i].lit = Neg(c.lits[m]) => m = k
         /\ Under(t, LastOf(c), j) \/ c.lits[k] \in odd
  ELSE \A j \in H : /\ t[j].lit = Neg(c.lits[1]) => Under(t, c.lits[2], j)
                    /\ t[j].lit = Neg(c.lits[2]) => Under(t, c.lits[1], j)
OddOne(id) ==
  /\ pc = "conflict" /\ Len(lim) > 0 /\ id = work.id
  /\ work.seen = {} /\ work.out = << >>
  /\ Len(work.clause) = 2 /\ work.clause[1] = LastOf(clauses[id])
  /\ \E i \in DOMAIN trail : /\ trail[i].lit = Neg(work.clause[1])
                             /\ trail[i].level = Len(lim) /\ i <= work.index
Odd(id) == IF OddOne(id) THEN {work.clause[2]} ELSE {}
IsGuarded(id) == Guarded(clauses[id], trail, Handled(id), Odd(id))
GuardInv == Fine /\ (pc = "conflict" => Len(lim) > 0) =>
              \A id \in DOMAIN clauses : IsGuarded(id)

(* Only the present level can be waiting to be propagated. *)
QueueInv ==
  /\ at > 1 => Pending
  /\ Fine => /\ Len(lim) > 0 => lim[Len(lim)] <= qhead
             /\ pc \in {"decide", "pick"} => qhead = Len(trail)
             /\ pc = "call" /\ Len(lim) > 0 => qhead = Len(trail)

FalseOn(t, l, n) == \E j \in DOMAIN t : t[j].lit = Neg(l) /\ t[j].level = n

---------------------------------------------------------------------------
(* Clauses that stay guarded.                                              *)

(* What was true under the literals at the places G is still true there. *)
Carries(t, s, G) ==
  \A j \in G : s[j].lit = t[j].lit /\ \A l : Under(t, l, j) => Under(s, l, j)

LEMMA GuardedCarried ==
  ASSUME NEW c, NEW t, NEW s, NEW H, NEW G, G \subseteq H, NEW odd, NEW rest,
         Guarded(c, t, H, odd), Carries(t, s, G),
         c.kind = "single" => \A k \in 1 .. Len(c.lits) - 1 : \A j \in G :
           t[j].lit = Neg(c.lits[k]) /\ c.lits[k] \in odd =>
             Under(s, LastOf(c), j) \/ c.lits[k] \in rest
  PROVE  Guarded(c, s, G, rest)
<1>1. \A j \in G : j \in H /\ s[j].lit = t[j].lit
  BY DEF Carries
<1>2. \A j \in G : \A l : Under(t, l, j) => Under(s, l, j)
  BY DEF Carries
<1>3. CASE c.kind = "single"
  <2> SUFFICES ASSUME NEW k \in 1 .. Len(c.lits) - 1, NEW j \in G,
                      s[j].lit = Neg(c.lits[k])
               PROVE  /\ \A m \in 1 .. Len(c.lits) - 1 : \A i \in G :
                           s[i].lit = Neg(c.lits[m]) => m = k
                      /\ Under(s, LastOf(c), j) \/ c.lits[k] \in rest
    BY <1>3 DEF Guarded
  <2>1. j \in H /\ t[j].lit = Neg(c.lits[k])
    BY <1>1
  <2>2. /\ \A m \in 1 .. Len(c.lits) - 1 : \A i \in H :
             t[i].lit = Neg(c.lits[m]) => m = k
        /\ Under(t, LastOf(c), j) \/ c.lits[k] \in odd
    BY <1>3, <2>1 DEF Guarded
  <2>3. \A m \in 1 .. Len(c.lits) - 1 : \A i \in G : s[i].lit = Neg(c.lits[m]) => m = k
    BY <1>1, <2>2
  <2>4. Under(s, LastOf(c), j) \/ c.lits[k] \in rest
    BY <1>2, <1>3, <2>1, <2>2
  <2> QED
    BY <2>3, <2>4
<1>4. CASE c.kind # "single"
  <2>1. \A j \in H : /\ t[j].lit = Neg(c.lits[1]) => Under(t, c.lits[2], j)
                     /\ t[j].lit = Neg(c.lits[2]) => Under(t, c.lits[1], j)
    BY <1>4 DEF Guarded
  <2>2. \A j \in G : /\ s[j].lit = Neg(c.lits[1]) => Under(s, c.lits[2], j)
                     /\ s[j].lit = Neg(c.lits[2]) => Under(s, c.lits[1], j)
    BY <1>1, <1>2, <2>1
  <2> QED
    BY <1>4, <2>2 DEF Guarded
<1> QED
  BY <1>3, <1>4

LEMMA CarriesSame ==
  ASSUME NEW t, NEW G
  PROVE  Carries(t, t, G)
BY DEF Carries

LEMMA CarriesOn ==
  ASSUME NEW t, NEW s, NEW r, NEW G, Carries(t, s, G), Carries(s, r, G)
  PROVE  Carries(t, r, G)
BY DEF Carries

(* The trail grows. *)
LEMMA CarriesGrown ==
  ASSUME NEW t, NEW s, Prefix(t, s), NEW G, G \subseteq DOMAIN t
  PROVE  Carries(t, s, G)
BY DEF Carries, Prefix, Under

(* It is cut where a level begins. *)
LEMMA CarriesCut ==
  ASSUME NEW U, NEW n, NEW t \in Seq(EntryTypes(U, n)), n \in Nat, NEW s, Prefix(s, t),
         NEW d \in Nat,
         \A i \in DOMAIN t : i \in DOMAIN s <=> t[i].level <= d,
         NEW G, G \subseteq DOMAIN s
  PROVE  Carries(t, s, G)
<1> SUFFICES ASSUME NEW j \in G
             PROVE  s[j].lit = t[j].lit /\ \A l : Under(t, l, j) => Under(s, l, j)
  BY DEF Carries
<1>1. \A i \in DOMAIN s : i \in DOMAIN t /\ s[i] = t[i]
  BY DEF Prefix
<1>2. j \in DOMAIN t /\ s[j] = t[j] /\ t[j].level <= d
  BY <1>1
<1>3. \A i \in DOMAIN t : t[i].level \in Nat
  BY EntryIs
<1>4. \A i \in DOMAIN t : t[i].level <= t[j].level => i \in DOMAIN s
  BY <1>2, <1>3
<1> QED
  BY <1>1, <1>2, <1>4 DEF Under

(* Its levels become facts. *)
LEMMA CarriesFacts ==
  ASSUME NEW t, NEW s, DOMAIN s = DOMAIN t,
         \A i \in DOMAIN t : s[i].lit = t[i].lit /\ s[i].level = 0,
         NEW G, G \subseteq DOMAIN t
  PROVE  Carries(t, s, G)
<1> SUFFICES ASSUME NEW j \in G, NEW l, Under(t, l, j)
             PROVE  Under(s, l, j)
  BY DEF Carries
<1>1. PICK i \in DOMAIN t : t[i].lit = l
  BY DEF Under
<1>2. i \in DOMAIN s /\ s[i].lit = l /\ s[i].level = 0 /\ s[j].level = 0
  BY <1>1
<1>3. s[i].level <= s[j].level
  BY <1>2
<1> QED
  BY <1>2, <1>3 DEF Under

---------------------------------------------------------------------------
(* Steps that are no visit: nothing new is handled.                        *)

LEMMA AllFine ==
  ASSUME PlainTypes, CallsTyped, TrailInv, Next, Fine'
  PROVE  Fine /\ ok = TRUE /\ ok' = TRUE
<1>1. slips = {}
  BY GivenGrows DEF Fine
<1>2. ok' = TRUE /\ ok \in BOOLEAN
  <2>1. ok' \in BOOLEAN
    BY FlatStep DEF FlatTypes
  <2> QED
    BY <2>1 DEF Fine, PlainTypes
<1>3. ok = TRUE
  <2>1. CASE ok' = ok
    BY <1>2, <2>1
  <2>2. CASE AddsSome
    <3>1. Adding
      BY <2>2, ClauseAdds, SingleAdds, PairAdds DEF AddsSome
    <3> QED
      BY <1>2, <3>1 DEF Adding
  <2>3. CASE AddRefutes \/ AttemptRefutes \/ SearchRefutes
    BY <1>2, <2>3 DEF AddRefutes, AttemptRefutes, SearchRefutes
  <2>4. CASE ~ ok => "revived" \in slips'
    BY <1>2, <2>4 DEF Fine
  <2> QED
    BY <2>1, <2>2, <2>3, <2>4, GivenGrows
<1> QED
  BY <1>1, <1>2, <1>3 DEF Fine

LEMMA HandledFromOne ==
  ASSUME at' = 1, pc' # "conflict", NEW id
  PROVE  Handled(id)' = {j \in DOMAIN trail' : j <= qhead'}
<1>1. DoneUpTo' = qhead'
  BY DEF DoneUpTo
<1>2. 1 .. at' - 1 = {}
  BY SMT
<1> QED
  BY <1>1, <1>2 DEF Handled

(* What stands up to qhead, or to the present level in a conflict. *)
LEMMA HandledOf ==
  ASSUME NEW id, NEW j \in DOMAIN trail, j <= DoneUpTo
  PROVE  j \in Handled(id)
BY DEF Handled

LEMMA NothingOdd ==
  ASSUME pc # "conflict", NEW id
  PROVE  Odd(id) = {}
BY DEF Odd, OddOne

LEMMA HandledOn ==
  ASSUME PlainTypes, TrailInv, Prefix(trail, trail'), qhead' = qhead, at' = 1,
         Len(trail') \in Nat, DOMAIN trail' = 1 .. Len(trail'),
         pc # "conflict", pc' # "conflict", NEW id
  PROVE  Handled(id)' \subseteq Handled(id) /\ Carries(trail, trail', Handled(id)')
<1>1. Handled(id)' = {j \in DOMAIN trail' : j <= qhead}
  BY HandledFromOne
<1>2. DoneUpTo = qhead
  BY DEF DoneUpTo
<1>3. DOMAIN trail = 1 .. Len(trail) /\ qhead \in 0 .. Len(trail) /\ Len(trail) \in Nat
  BY StateIs
<1>4. \A j \in DOMAIN trail' : j <= qhead => j \in DOMAIN trail
  BY <1>3
<1>5. Handled(id)' \subseteq Handled(id) /\ Handled(id)' \subseteq DOMAIN trail
  BY <1>1, <1>2, <1>4, HandledOf
<1> QED
  BY <1>5, CarriesGrown

(* Going back to level n: what is left up to the new qhead was dealt with. *)
LEMMA BackHandled ==
  ASSUME PlainTypes, TrailInv, QueueInv, Fine, NEW n \in Nat,
         pc = "conflict" => n < Len(lim)
  PROVE  /\ QheadUpTo(n) <= DoneUpTo /\ QheadUpTo(n) \in Nat /\ DoneUpTo \in Nat
         /\ Len(LimUpTo(n)) > 0 => LimUpTo(n)[Len(LimUpTo(n))] <= QheadUpTo(n)
         /\ n < Len(lim) => QheadUpTo(n) = Len(TrailUpTo(n))
<1>1. /\ Len(lim) \in Nat /\ DOMAIN lim = 1 .. Len(lim) /\ Len(trail) \in Nat
      /\ \A k \in DOMAIN lim : lim[k] \in 0 .. Len(trail)
      /\ qhead \in 0 .. Len(trail) /\ lim \in Seq(0 .. Len(trail))
      /\ \A j, k \in DOMAIN lim : j <= k => lim[j] <= lim[k]
      /\ Sound(trail, lim, used, next) /\ next \in Nat
  BY StateIs DEF Levelled, TrailInv
<1>2. Len(lim) > 0 => lim[Len(lim)] <= qhead
  BY DEF QueueInv
<1>3. CASE Len(lim) <= n
  <2>1. QheadUpTo(n) = qhead /\ LimUpTo(n) = lim
    BY <1>3 DEF QheadUpTo, LimUpTo, CurrentLevel
  <2>2. pc # "conflict"
    BY <1>1, <1>3
  <2>3. DoneUpTo = qhead
    BY <2>2 DEF DoneUpTo
  <2> QED
    BY <1>1, <1>2, <1>3, <2>1, <2>3
<1>4. CASE n < Len(lim)
  <2>1. /\ QheadUpTo(n) = lim[n + 1] /\ LimUpTo(n) = SubSeq(lim, 1, n)
        /\ TrailUpTo(n) = SubSeq(trail, 1, lim[n + 1])
    BY <1>1, <1>4 DEF QheadUpTo, LimUpTo, TrailUpTo, CurrentLevel
  <2>2. n + 1 \in DOMAIN lim /\ Len(lim) \in DOMAIN lim /\ n + 1 <= Len(lim)
    BY <1>1, <1>4
  <2>3. lim[n + 1] <= lim[Len(lim)] /\ lim[n + 1] \in Nat /\ lim[Len(lim)] \in Nat
    BY <1>1, <2>2
  <2>4. DoneUpTo = qhead \/ DoneUpTo = lim[Len(lim)]
    BY <1>1, <1>4 DEF DoneUpTo
  <2>5. Len(SubSeq(lim, 1, n)) = n /\ \A k \in 1 .. n : SubSeq(lim, 1, n)[k] = lim[k]
    BY <1>1, <1>4
  <2>6. n > 0 => lim[n] <= lim[n + 1]
    BY <1>1, <1>4
  <2>7. n \in 0 .. Len(lim) - 1
    BY <1>1, <1>4
  <2>8. Len(SubSeq(trail, 1, lim[n + 1])) = lim[n + 1]
    BY <1>1, <2>7, SoundCut
  <2> QED
    BY <1>1, <1>2, <1>4, <2>1, <2>3, <2>4, <2>5, <2>6, <2>8
<1> QED
  BY <1>1, <1>3, <1>4

LEMMA HandledBack ==
  ASSUME PlainTypes, TrailInv, QueueInv, Fine, NEW n \in Nat,
         pc = "conflict" => n < Len(lim),
         Prefix(TrailUpTo(n), trail'), qhead' = QheadUpTo(n), at' = 1,
         Len(trail') \in Nat, DOMAIN trail' = 1 .. Len(trail'),
         pc' # "conflict", NEW id
  PROVE  /\ Handled(id)' \subseteq Handled(id) /\ Carries(trail, trail', Handled(id)')
         /\ \A j \in Handled(id)' : j \in DOMAIN trail' /\ trail'[j] = trail[j]
<1> DEFINE s == TrailUpTo(n)
<1>1. Handled(id)' = {j \in DOMAIN trail' : j <= QheadUpTo(n)}
  BY HandledFromOne
<1>2. QheadUpTo(n) <= DoneUpTo /\ QheadUpTo(n) \in Nat /\ DoneUpTo \in Nat
  BY BackHandled
<1>3. next \in Nat /\ next <= next /\ 0 \in Nat /\ trail \in Seq(EntryTypes(used, next))
  BY StateIs
<1>4. /\ Len(s) \in Nat /\ DOMAIN s = 1 .. Len(s) /\ Prefix(s, trail)
      /\ \A i \in DOMAIN trail : i \in DOMAIN s <=> trail[i].level <= n
      /\ QheadUpTo(n) \in 0 .. Len(s)
  BY <1>3, BackIs
<1>5. \A j \in DOMAIN trail' : j <= QheadUpTo(n) => j \in DOMAIN s
  BY <1>4
<1>6. DOMAIN s \subseteq DOMAIN trail
  BY <1>4 DEF Prefix
<1>7. DOMAIN trail \subseteq Nat
  BY StateIs
<1>8. Handled(id)' \subseteq DOMAIN s
  BY <1>1, <1>5
<1>9. \A j \in Handled(id)' : j \in DOMAIN trail /\ j <= DoneUpTo
  BY <1>1, <1>2, <1>6, <1>7, <1>8
<1>10. Handled(id)' \subseteq Handled(id)
  BY <1>9, HandledOf
<1> HIDE DEF s
<1>11. Carries(trail, s, Handled(id)')
  BY <1>3, <1>4, <1>8, CarriesCut
<1>12. Carries(s, trail', Handled(id)')
  BY <1>8, CarriesGrown DEF s
<1>13. Prefix(s, trail')
  BY DEF s
<1>14. \A j \in Handled(id)' : j \in DOMAIN trail' /\ trail'[j] = trail[j]
  BY <1>4, <1>8, <1>13 DEF Prefix
<1> QED
  BY <1>10, <1>11, <1>12, <1>14, CarriesOn

(* The clause that only changes its place, for such a step. *)
LEMMA StaysGuarded ==
  ASSUME NEW id \in DOMAIN clauses, clauses'[id] = clauses[id],
         IsGuarded(id), Handled(id)' \subseteq Handled(id), Carries(trail, trail', Handled(id)'),
         clauses[id].kind = "single" =>
           \A k \in 1 .. Len(clauses[id].lits) - 1 : \A j \in Handled(id)' :
             trail[j].lit = Neg(clauses[id].lits[k]) /\ clauses[id].lits[k] \in Odd(id) =>
               Under(trail', LastOf(clauses[id]), j)
  PROVE  IsGuarded(id)'
<1> USE DEF IsGuarded
<1> DEFINE c == clauses[id]
<1>1. Guarded(c, trail', Handled(id)', Odd(id)')
  BY GuardedCarried
<1> QED
  BY <1>1

---------------------------------------------------------------------------
(* The kinds of steps that visit no clause and resolve none.               *)
Onward == /\ pc # "conflict" /\ pc' # "conflict" /\ Prefix(trail, trail')
          /\ qhead' = qhead /\ at' = 1
Backs(n) == /\ pc = "conflict" => n < Len(lim)
            /\ pc' # "conflict" /\ Prefix(TrailUpTo(n), trail')
            /\ lim' = LimUpTo(n) /\ qhead' = QheadUpTo(n) /\ at' = 1
AllStays == \/ LightSolve \/ AnswerKnown \/ TrySucceeds \/ CheckSucceeds \/ Denied
            \/ AddFinished \/ Solve \/ Refused \/ Tidy \/ AssumeTrue \/ Reduce
            \/ Returned
AllGuesses == Attempt \/ AssumeOpen \/ Branch
AllBacks == \/ Reset \/ PopCheck \/ CheckFails \/ Restart \/ RestartsTooLate
            \/ AssumeFalse \/ AssumesTooLate \/ ModelFound \/ FoundTooLate

LEMMA KindsOfSteps ==
  ASSUME Next
  PROVE  \/ AllStays \/ AllGuesses \/ AllBacks \/ AddsSome \/ Learns
         \/ AssertSucceeds \/ AssertFails \/ NextWatchList \/ Visits \/ Resolve
         \/ AddRefutes \/ AttemptRefutes \/ SearchRefutes \/ RefutesTooLate
BY DEF Next, AllStays, AllGuesses, AllBacks, AddsSome, Learns, Visits

LEMMA NoneWaiting ==
  ASSUME PlainTypes, QueueInv, ~ Pending
  PROVE  at = 1
<1>1. at \in Nat \ {0} /\ ~ at > 1
  BY DEF PlainTypes, QueueInv
<1> QED
  BY <1>1

LEMMA StaysOn ==
  ASSUME PlainTypes, CallInv, QueueInv, AllStays
  PROVE  Onward /\ trail' = trail /\ ~ Pending
<1>1. /\ pc # "conflict" /\ pc' # "conflict" /\ trail' = trail /\ qhead' = qhead
      /\ at' = at /\ ~ Pending
  <2>1. CASE LightSolve \/ AnswerKnown \/ Solve
    BY <2>1 DEF LightSolve, AnswerKnown, Solve, NextCall, assignment, Pending
  <2>2. CASE TrySucceeds \/ CheckSucceeds \/ Denied \/ AddFinished
    BY <2>2 DEF TrySucceeds, CheckSucceeds, Denied, AddFinished, Ends, Finish, Quiet,
                assignment, Pending
  <2>3. CASE Refused \/ Returned
    BY <2>3 DEF Refused, Returned, Running, Answers, assignment, vars, Pending
  <2>4. CASE Tidy
    BY <2>4 DEF Tidy, Quiet, assignment, Pending
  <2>5. CASE AssumeTrue
    BY <2>5 DEF AssumeTrue, Assuming, Deciding, Quiet, Pending
  <2>6. CASE Reduce
    BY <2>6 DEF Reduce, Branching, Deciding, Quiet, assignment, Pending
  <2> QED
    BY <2>1, <2>2, <2>3, <2>4, <2>5, <2>6 DEF AllStays
<1>2. Prefix(trail, trail')
  BY <1>1 DEF Prefix
<1> QED
  BY <1>1, <1>2, NoneWaiting DEF Onward

LEMMA GuessesOn ==
  ASSUME PlainTypes, CallsTyped, TrailInv, QueueInv, Next, AllGuesses
  PROVE  Onward /\ ~ Pending
<1>1. /\ pc # "conflict" /\ pc' # "conflict" /\ at' = at /\ ~ Pending
  <2>1. CASE Attempt
    BY <2>1 DEF Attempt, NextCall, Pending
  <2>2. CASE AssumeOpen
    BY <2>2 DEF AssumeOpen, Assuming, Deciding, Decide, Quiet, Pending
  <2>3. CASE Branch
    BY <2>3 DEF Branch, Picking, Branching, Deciding, Decide, Quiet, Pending
  <2> QED
    BY <2>1, <2>2, <2>3 DEF AllGuesses
<1>2. PICK l \in UsedLits : GuessesLit(l)
  BY GuessesIs DEF AllGuesses
<1>3. next' \in Nat /\ next <= next'
  BY NextGrows
<1>4. used' = used
  BY FlatStep
<1>5. Prefix(trail, trail') /\ qhead' = qhead
  BY <1>2, <1>3, <1>4, GuessKeepsSound DEF GuessesLit
<1> QED
  BY <1>1, <1>5, NoneWaiting DEF Onward

LEMMA AddsOn ==
  ASSUME PlainTypes, CallsTyped, TrailInv, QueueInv, Next, AddsSome
  PROVE  Onward /\ ~ Pending /\ Len(lim) = 0 /\ lim' = lim
<1>1. /\ pc = "call" /\ at' = at /\ qhead' = qhead /\ lim' = lim
  BY DEF AddsSome, AddAClause, AddASingle, AddAPair, Adds, NextCall
<1>2. pc' # "conflict"
  <2>1. Adding
    BY ClauseAdds, SingleAdds, PairAdds DEF AddsSome
  <2> QED
    BY <1>1, <2>1 DEF Adding
<1>3. PICK q : Len(lim) = 0 /\ Gains(q, 0)
  BY AddsGain DEF AddsSome
<1>4. next' \in Nat /\ next <= next'
  BY NextGrows
<1>5. used' = used
  BY FlatStep
<1>6. Prefix(trail, trail')
  BY <1>3, <1>4, <1>5, GainKeepsSound
<1>7. ~ Pending
  BY <1>1 DEF Pending
<1> QED
  BY <1>1, <1>2, <1>3, <1>6, <1>7, NoneWaiting DEF Onward

LEMMA PrefixItself ==
  ASSUME NEW t
  PROVE  Prefix(t, t)
BY DEF Prefix

LEMMA CancelBacks ==
  ASSUME NEW n \in Nat, CancelUntil(n), pc' # "conflict",
         pc = "conflict" => n < Len(lim)
  PROVE  Backs(n)
BY PrefixItself DEF CancelUntil, Backs

LEMMA CheckLevel ==
  ASSUME PlainTypes, TrailInv, CallInv, call.op = "check"
  PROVE  marks[Len(marks)] \in Nat /\ marks[Len(marks)] < Len(lim)
<1>1. marks # << >> /\ Len(lim) = marks[Len(marks)] + 1
  BY DEF CallInv
<1>2. marks[Len(marks)] \in Nat
  <2>1. marks \in Seq(Nat) /\ Len(lim) \in Nat
    BY StateIs DEF PlainTypes
  <2> QED
    BY <1>1, <2>1, MarksTyped
<1> QED
  BY <1>1, <1>2

LEMMA CancelsBack ==
  ASSUME PlainTypes, CallInv, TrailInv, AllBacks
  PROVE  \E n \in Nat : /\ Backs(n) /\ trail' = TrailUpTo(n)
                        /\ pc' \notin {"decide", "pick"}
                        /\ n < Len(lim) \/ n = 0 \/ pc = "call"
<1>1. CASE CheckFails
  <2> DEFINE n == marks[Len(marks)]
  <2>1. n \in Nat /\ n < Len(lim) /\ pc' = "call" /\ CancelUntil(n)
    BY <1>1, CheckLevel DEF CheckFails, During, Finish
  <2> HIDE DEF n
  <2> QED
    BY <2>1, CancelBacks DEF CancelUntil
<1>2. CASE Reset \/ PopCheck
  <2>1. pc = "call" /\ pc' = pc
    BY <1>2 DEF Reset, PopCheck, NextCall, GoesBack
  <2>2. PICK n \in Nat : CancelUntil(n)
    BY <1>2, GoesUpIs DEF GoesUp
  <2> QED
    BY <2>1, <2>2, CancelBacks DEF CancelUntil
<1>3. CASE \/ Restart \/ RestartsTooLate \/ AssumeFalse \/ AssumesTooLate
           \/ ModelFound \/ FoundTooLate
  <2>1. CancelUntil(0) /\ pc # "conflict" /\ pc' \notin {"conflict", "decide", "pick"}
    BY <1>3 DEF Restart, RestartsTooLate, AssumeFalse, AssumesTooLate, ModelFound,
                FoundTooLate, Bail, Answers, Restarting, Quiet, Assuming, Deciding,
                Picking, Branching
  <2> QED
    BY <2>1, CancelBacks DEF CancelUntil
<1> QED
  BY <1>1, <1>2, <1>3 DEF AllBacks

LEMMA LearnBacks ==
  ASSUME PlainTypes, CallsTyped, TrailInv, WorkInv, Next, Learns
  PROVE  /\ Learn /\ pc = "conflict" /\ Len(lim) > 0
         /\ BackLevel \in Nat /\ BackLevel < Len(lim) /\ Backs(BackLevel)
<1>1. Learn
  BY DEF Learns, SearchLearns, TryBacktracks
<1>2. pc = "conflict" /\ Len(lim) > 0
  BY <1>1 DEF Learn, Analyzing, CurrentLevel
<1>3. /\ next' \in Nat \ {0} /\ next <= next' /\ (Kept # << >> => next < next')
  <2>1. Kept # << >> => next' = next + 1
    BY <1>1 DEF Learn, NewClause
  <2>2. next' \in Nat \ {0} /\ next <= next'
    BY NextGrows
  <2>3. next \in Nat
    BY StateIs
  <2> QED
    BY <2>1, <2>2, <2>3
<1>4. BackLevel \in Nat /\ BackLevel < Len(lim) /\ Prefix(TrailUpTo(BackLevel), trail')
  BY <1>1, <1>3, LearnKeepsSound
<1> QED
  BY <1>1, <1>2, <1>4 DEF Learn, Backs

LEMMA DenyBacks ==
  ASSUME PlainTypes, CallsTyped, TrailInv, CallInv, AssertFails
  PROVE  pc = "conflict" /\ Len(lim) = 1 /\ Backs(0)
<1>1. Len(lim) = 1 /\ LimUpTo(0) = << >>
  BY DeniedLit
<1>2. Prefix(TrailUpTo(0), trail')
  BY DenyKeepsSound
<1> QED
  BY <1>1, <1>2 DEF AssertFails, Backs

(* Visits only put literals on the trail. *)
LEMMA VisitsGrow ==
  ASSUME PlainTypes, CallsTyped, TrailInv, ListsInv, CallInv, WorkInv, Next,
         Visits \/ NextWatchList
  PROVE  /\ Pending /\ Prefix(trail, trail') /\ lim' = lim
         /\ Len(trail') \in Nat /\ Len(trail) <= Len(trail')
         /\ DOMAIN trail' = 1 .. Len(trail')
         /\ \/ pc' = "conflict" /\ at' = 1 /\ qhead' = Len(trail')
            \/ pc' = "propagate" /\ NextWatchList /\ at' = 1 /\ qhead' = qhead + 1
               /\ trail' = trail
            \/ pc' = "propagate" /\ Visits /\ qhead' = qhead
<1>1. /\ used' = used /\ next' \in Nat /\ next <= next'
      /\ Len(trail) \in Nat /\ DOMAIN trail = 1 .. Len(trail)
  BY FlatStep, NextGrows, StateIs
<1>2. Pending /\ lim' = lim
  <2>1. Pending
    BY DEF Visits, VisitTrue, VisitMoves, VisitForces, VisitFails, VisitSettles,
           VisitRefutes, VisitSwaps, VisitClashes, Reading, NextWatchList
  <2>2. Inside
    BY DEF Inside
  <2> QED
    BY <2>1, <2>2, InsideKeeps
<1>3. \/ pc' = "conflict" /\ at' = 1 /\ qhead' = Len(trail')
      \/ pc' = "propagate" /\ NextWatchList /\ at' = 1 /\ qhead' = qhead + 1
         /\ trail' = trail
      \/ pc' = "propagate" /\ Visits /\ qhead' = qhead
  <2>1. CASE NextWatchList
    BY <1>2, <2>1 DEF NextWatchList, Pending
  <2>2. CASE VisitTrue \/ VisitMoves \/ VisitForces \/ VisitSettles \/ VisitSwaps
    BY <1>2, <2>2 DEF Visits, VisitTrue, VisitMoves, VisitForces, VisitSettles,
                      VisitSwaps, Keep, Moves, Pending
  <2>3. CASE VisitFails \/ VisitRefutes \/ VisitClashes
    BY <2>3 DEF VisitFails, VisitRefutes, VisitClashes, Conflict
  <2> QED
    BY <2>1, <2>2, <2>3 DEF Visits
<1>4. Prefix(trail, trail') /\ Len(trail') \in Nat /\ DOMAIN trail' = 1 .. Len(trail')
  <2>1. CASE trail' = trail
    BY <1>1, <2>1 DEF Prefix
  <2>2. CASE VisitForces \/ VisitSettles \/ VisitRefutes
    <3>1. \E q : Gains(q, Id)
      BY <2>2, VisitsGain
    <3> QED
      BY <1>1, <3>1, GainKeepsSound
  <2> QED
    BY <2>1, <2>2 DEF NextWatchList, Visits, VisitTrue, VisitMoves, VisitFails,
                      VisitSwaps, VisitClashes, Keep, Moves
<1>5. Len(trail) <= Len(trail')
  BY <1>1, <1>4 DEF Prefix
<1> QED
  BY <1>2, <1>3, <1>4, <1>5

LEMMA NoMoreFine ==
  ASSUME AddRefutes \/ AttemptRefutes \/ SearchRefutes \/ RefutesTooLate
  PROVE  ~ Fine' /\ pc = "conflict" /\ (at' = at \/ at' = 1)
<1>1. CASE AddRefutes \/ AttemptRefutes \/ SearchRefutes
  BY <1>1 DEF AddRefutes, AttemptRefutes, SearchRefutes, Fine, assignment
<1>2. CASE RefutesTooLate
  BY <1>2 DEF RefutesTooLate, Bail, Fine, CancelUntil
<1> QED
  BY <1>1, <1>2

LEMMA QueueStep ==
  ASSUME PlainTypes, CallsTyped, TrailInv, ListsInv, CallInv, WorkInv, NoLevel,
         QueueInv, Next
  PROVE  QueueInv'
<1> USE DEF Pending
<1>0. /\ Len(trail) \in Nat /\ Len(lim) \in Nat /\ qhead \in 0 .. Len(trail)
      /\ DOMAIN lim = 1 .. Len(lim) /\ \A k \in DOMAIN lim : lim[k] \in 0 .. Len(trail)
      /\ lim \in Seq(0 .. Len(trail))
  BY StateIs
<1>1. Fine' => Fine
  BY AllFine
<1>2. CASE AllStays
  <2>1. Onward /\ trail' = trail /\ ~ Pending
    BY <1>2, StaysOn
  <2>2. CASE lim' = lim
    <3>1. Fine /\ pc' \in {"decide", "pick"} => qhead = Len(trail)
      <4>1. CASE LightSolve \/ AnswerKnown \/ Returned \/ Solve
        BY <4>1 DEF LightSolve, AnswerKnown, Returned, Running, NextCall, Solve, vars
      <4>2. CASE TrySucceeds \/ CheckSucceeds \/ Denied \/ AddFinished
        BY <4>2 DEF TrySucceeds, CheckSucceeds, Denied, AddFinished, Quiet
      <4>3. CASE Refused
        BY <4>3 DEF Refused, Answers
      <4>4. CASE Tidy \/ AssumeTrue \/ Reduce
        BY <4>4 DEF Tidy, AssumeTrue, Reduce, Assuming, Branching, Deciding, Quiet,
                    QueueInv
      <4> QED
        BY <1>2, <4>1, <4>2, <4>3, <4>4 DEF AllStays
    <3>2. pc' = "call" /\ Len(lim) > 0 => qhead = Len(trail) \/ pc = "call"
      <4>1. CASE LightSolve \/ AnswerKnown \/ Returned \/ Solve
        BY <4>1 DEF LightSolve, AnswerKnown, Returned, Running, NextCall, Solve
      <4>2. CASE TrySucceeds \/ CheckSucceeds \/ Denied \/ AddFinished
        BY <4>2 DEF TrySucceeds, CheckSucceeds, Denied, AddFinished, Quiet
      <4>3. CASE Refused
        BY <1>0, <4>3 DEF Refused, CallInv, NoLevel
      <4>4. CASE Tidy \/ AssumeTrue \/ Reduce
        BY <4>4 DEF Tidy, AssumeTrue, Reduce
      <4> QED
        BY <1>2, <4>1, <4>2, <4>3, <4>4 DEF AllStays
    <3> QED
      BY <1>1, <2>1, <2>2, <3>1, <3>2 DEF QueueInv, Onward
  <2>3. CASE AssumeTrue
    <3>1. lim' = Append(lim, Len(trail)) /\ pc' = "decide"
          /\ (Fine => qhead = Len(trail))
      BY <2>3 DEF AssumeTrue, Assuming, Deciding, Quiet, QueueInv
    <3>2. Len(lim') = Len(lim) + 1 /\ lim'[Len(lim')] = Len(trail)
      BY <1>0, <3>1
    <3> QED
      BY <1>0, <1>1, <2>1, <3>1, <3>2 DEF QueueInv, Onward
  <2>4. lim' = lim \/ AssumeTrue
    BY <1>2 DEF AllStays, LightSolve, AnswerKnown, TrySucceeds, CheckSucceeds, Denied,
                AddFinished, Solve, Refused, Tidy, Reduce, Returned, Ends, vars,
                assignment
  <2> QED
    BY <2>2, <2>3, <2>4
<1>3. CASE AllGuesses
  <2>1. Onward /\ ~ Pending
    BY <1>3, GuessesOn
  <2>2. PICK l \in UsedLits : GuessesLit(l)
    BY <1>3, GuessesIs DEF AllGuesses
  <2>3. Len(lim') = Len(lim) + 1 /\ lim'[Len(lim')] = Len(trail)
    BY <1>0, <2>2 DEF GuessesLit
  <2>4. pc' = "propagate"
    BY <1>3 DEF AllGuesses, Attempt, AssumeOpen, Branch, Decide
  <2>5. Fine' => qhead = Len(trail)
    <3>1. CASE Attempt
      <4>1. ~ qhead < Len(trail) \/ "rushed" \in slips'
        BY <3>1 DEF Attempt
      <4> QED
        BY <1>0, <4>1 DEF Fine
    <3>2. CASE AssumeOpen \/ Branch
      BY <1>1, <3>2 DEF AssumeOpen, Branch, Assuming, Picking, Branching, Deciding,
                        Quiet, QueueInv
    <3> QED
      BY <1>3, <3>1, <3>2 DEF AllGuesses
  <2> QED
    BY <1>0, <2>1, <2>3, <2>4, <2>5 DEF QueueInv, Onward
<1>4. CASE AddsSome
  <2>1. Onward /\ ~ Pending /\ Len(lim) = 0 /\ lim' = lim
    BY <1>4, AddsOn
  <2>2. pc' \notin {"decide", "pick"}
    <3>1. Adding /\ pc = "call"
      BY <1>4, ClauseAdds, SingleAdds, PairAdds
         DEF AddsSome, AddAClause, AddASingle, AddAPair, Adds, NextCall
    <3> QED
      BY <3>1 DEF Adding
  <2> QED
    BY <1>0, <2>1, <2>2 DEF QueueInv, Onward
<1>5. ASSUME NEW n \in Nat, Backs(n), pc' \notin {"decide", "pick"},
             pc' = "call" => trail' = TrailUpTo(n),
             pc' = "call" => n < Len(lim) \/ n = 0 \/ pc = "call"
      PROVE  QueueInv'
  <2>2. at' = 1
    BY <1>5 DEF Backs
  <2>3. ASSUME Fine' PROVE /\ Len(lim') > 0 => lim'[Len(lim')] <= qhead'
                           /\ pc' = "call" /\ Len(lim') > 0 => qhead' = Len(trail')
    <3>1. Fine
      BY <1>1, <2>3
    <3>2. /\ Len(LimUpTo(n)) > 0 => LimUpTo(n)[Len(LimUpTo(n))] <= QheadUpTo(n)
          /\ n < Len(lim) => QheadUpTo(n) = Len(TrailUpTo(n))
      BY <1>5, <3>1, BackHandled DEF Backs
    <3>3. lim' = LimUpTo(n) /\ qhead' = QheadUpTo(n)
      BY <1>5 DEF Backs
    <3>4. ASSUME pc' = "call", Len(lim') > 0 PROVE qhead' = Len(trail')
      <4>1. CASE n < Len(lim)
        BY <1>5, <3>2, <3>3, <3>4, <4>1
      <4>2. CASE ~ n < Len(lim)
        <5>1. /\ lim' = lim /\ qhead' = qhead /\ TrailUpTo(n) = trail
          <6>1. Len(lim) <= n
            BY <1>0, <4>2
          <6> QED
            BY <3>3, <6>1 DEF LimUpTo, QheadUpTo, TrailUpTo, CurrentLevel
        <5>2. n # 0
          BY <1>0, <3>4, <4>2, <5>1
        <5>3. pc = "call"
          BY <1>5, <3>4, <4>2, <5>2
        <5> QED
          BY <1>5, <3>1, <3>4, <5>1, <5>3 DEF QueueInv
      <4> QED
        BY <4>1, <4>2
    <3> QED
      BY <3>2, <3>3, <3>4
  <2> QED
    BY <1>5, <2>2, <2>3 DEF QueueInv
<1>6. CASE AllBacks
  <2>1. PICK n \in Nat : /\ Backs(n) /\ trail' = TrailUpTo(n)
                         /\ pc' \notin {"decide", "pick"}
                         /\ n < Len(lim) \/ n = 0 \/ pc = "call"
    BY <1>6, CancelsBack
  <2> QED
    BY <1>5, <2>1
<1>7. CASE Learns
  <2>1. BackLevel \in Nat /\ Backs(BackLevel) /\ Learn
    BY <1>7, LearnBacks
  <2>2. pc' = "propagate"
    BY <2>1 DEF Learn
  <2> QED
    BY <1>5, <2>1, <2>2
<1>8. CASE AssertFails
  <2>1. Backs(0)
    BY <1>8, DenyBacks
  <2>2. pc' = "propagate"
    BY <1>8 DEF AssertFails
  <2> QED
    BY <1>5, <2>1, <2>2
<1>9. CASE AssertSucceeds
  <2>1. pc' = "call" /\ at' = at /\ lim' = << >> /\ ~ Pending
    BY <1>9 DEF AssertSucceeds, Finish, Quiet
  <2> QED
    BY <2>1, NoneWaiting DEF QueueInv
<1>10. CASE Visits \/ NextWatchList
  <2>1. /\ pc' \in {"propagate", "conflict"} /\ lim' = lim
        /\ Len(trail') \in Nat /\ Len(trail) <= Len(trail')
        /\ \/ qhead' = Len(trail') \/ qhead' = qhead + 1 \/ qhead' = qhead
        /\ \/ at' = 1
           \/ pc' = "propagate" /\ qhead' = qhead /\ Pending
    BY <1>10, VisitsGrow
  <2>2. at' > 1 => pc' = "propagate" /\ qhead' < Len(trail')
    BY <1>0, <2>1
  <2>3. ASSUME Fine', Len(lim') > 0 PROVE lim'[Len(lim')] <= qhead'
    <3>1. lim[Len(lim)] <= qhead /\ lim[Len(lim)] \in Nat
      BY <1>0, <1>1, <2>1, <2>3 DEF QueueInv
    <3> QED
      BY <1>0, <2>1, <3>1
  <2> QED
    BY <2>1, <2>2, <2>3 DEF QueueInv
<1>11. CASE Resolve
  <2>1. /\ pc = "conflict" /\ pc' = pc /\ at' = at
        /\ UNCHANGED <<lim, qhead, trail>>
    BY <1>11 DEF Resolve, Analyzing, assignment
  <2>2. at = 1
    BY <2>1, NoneWaiting
  <2> QED
    BY <1>1, <2>1, <2>2 DEF QueueInv
<1>12. CASE AddRefutes \/ AttemptRefutes \/ SearchRefutes \/ RefutesTooLate
  <2>1. ~ Fine' /\ pc = "conflict" /\ (at' = at \/ at' = 1)
    BY <1>12, NoMoreFine
  <2>2. at = 1
    BY <2>1, NoneWaiting
  <2> QED
    BY <2>1, <2>2 DEF QueueInv
<1> QED
  BY <1>2, <1>3, <1>4, <1>6, <1>7, <1>8, <1>9, <1>10, <1>11, <1>12, KindsOfSteps

---------------------------------------------------------------------------
(* What becomes of a clause.                                               *)
LEMMA ClausesChange ==
  ASSUME PlainTypes, CallsTyped, TrailInv, ListsInv, Next, NEW id \in DOMAIN clauses'
  PROVE  \/ id \in DOMAIN clauses /\ clauses'[id] = clauses[id]
         \/ Visits /\ id = Id /\ id \in DOMAIN clauses
         \/ /\ AddsSome /\ id \notin DOMAIN clauses
            /\ \A k \in DOMAIN clauses'[id].lits : IsOpen(clauses'[id].lits[k])
         \/ /\ Learns /\ Kept # << >> /\ id \notin DOMAIN clauses /\ id = next
            /\ clauses'[id] = [lits |-> LearntClause, kind |-> "learnt"]
<1>1. CASE clauses' = clauses
  BY <1>1
<1>2. CASE AddsSome
  <2>1. Adding
    BY <1>2, ClauseAdds, SingleAdds, PairAdds DEF AddsSome
  <2>2. id \in DOMAIN clauses => clauses'[id] = clauses[id]
    BY <2>1, AdditionExtends DEF Adding
  <2>3. id \notin DOMAIN clauses =>
          \A k \in DOMAIN clauses'[id].lits : IsOpen(clauses'[id].lits[k])
    BY <2>1 DEF Adding, NewOnesOpen
  <2> QED
    BY <1>2, <2>2, <2>3
<1>3. CASE Learns
  <2>1. Learn
    BY <1>3 DEF Learns, SearchLearns, TryBacktracks
  <2>2. CASE Kept = << >>
    BY <1>1, <2>1, <2>2 DEF Learn, database
  <2>3. CASE Kept # << >>
    <3> DEFINE c == [lits |-> LearntClause, kind |-> "learnt"]
    <3>1. clauses' = [i \in DOMAIN clauses \cup {next} |->
                        IF i = next THEN c ELSE clauses[i]]
      BY <2>1, <2>3 DEF Learn, NewClause
    <3> HIDE DEF c
    <3>2. next \notin DOMAIN clauses
      <4>1. DOMAIN clauses \subseteq 1 .. next - 1 /\ next \in Nat
        BY StateIs DEF ListsInv, ClausesOf
      <4> QED
        BY <4>1
    <3>3. CASE id = next
      BY <1>3, <2>3, <3>1, <3>2, <3>3 DEF c
    <3>4. CASE id # next
      BY <3>1, <3>4
    <3> QED
      BY <3>3, <3>4
  <2> QED
    BY <2>2, <2>3
<1>4. CASE Visits
  <2>1. Pending /\ (clauses' = clauses \/ \E q : Reorder(q))
    BY <1>4 DEF Visits, VisitTrue, VisitMoves, VisitForces, VisitFails, VisitSettles,
                VisitRefutes, VisitSwaps, VisitClashes, Reading
  <2>2. ASSUME NEW q, Reorder(q)
        PROVE  DOMAIN clauses' = DOMAIN clauses
               /\ (id # Id => clauses'[id] = clauses[id])
    BY <2>2 DEF Reorder
  <2> QED
    BY <1>1, <1>4, <2>1, <2>2
<1>5. CASE Reduce \/ Tidy
  <2>1. CASE Reduce
    <3>1. PICK S : clauses' = [i \in DOMAIN clauses \ S |-> clauses[i]]
      BY <2>1 DEF Reduce, ReduceDB, Removed
    <3> QED
      BY <3>1
  <2>2. CASE Tidy
    <3>1. UNCHANGED database \/ clauses' = [i \in Staying |-> clauses[i]]
      BY <2>2 DEF Tidy, SimplifyAndCompact, Compact
    <3>2. Staying \subseteq DOMAIN clauses
      BY DEF Staying
    <3> QED
      BY <1>1, <3>1, <3>2 DEF database
  <2> QED
    BY <1>5, <2>1, <2>2
<1>6. CASE AllBacks \/ RefutesTooLate
  <2>1. UNCHANGED database
    BY <1>6 DEF AllBacks, Reset, PopCheck, GoesBack, CheckFails, UnchangedInAttempt,
                RefutesTooLate, Restart, RestartsTooLate, AssumeFalse,
                AssumesTooLate, ModelFound, FoundTooLate, Bail, UnchangedByAnswer
  <2> QED
    BY <1>1, <2>1 DEF database
<1>7. CASE AllGuesses \/ AssertSucceeds \/ AssertFails
  BY <1>1, <1>7 DEF AllGuesses, Attempt, AssumeOpen, Branch, Decide, AssertSucceeds,
                    AssertFails, UnchangedInAttempt, database
<1>8. CASE NextWatchList \/ Resolve \/ AddRefutes \/ AttemptRefutes \/ SearchRefutes
  BY <1>1, <1>8 DEF NextWatchList, Resolve, AddRefutes, AttemptRefutes, SearchRefutes,
                    UnchangedInAttempt, UnchangedByAnswer, database
<1>9. CASE AllStays /\ ~ Reduce /\ ~ Tidy
  BY <1>1, <1>9 DEF AllStays, AddFinished, LightSolve, AnswerKnown, TrySucceeds,
                    Denied, CheckSucceeds, Ends, UnchangedInAttempt, Solve, Refused,
                    UnchangedByAnswer, AssumeTrue, Returned, vars, database
<1> QED
  BY <1>2, <1>3, <1>4, <1>5, <1>6, <1>7, <1>8, <1>9, KindsOfSteps

---------------------------------------------------------------------------
(* What a visit and a learnt clause put on the trail.                      *)

(* The literal whose list is being read is of the present level. *)
LEMMA PresentLevel ==
  ASSUME PlainTypes, TrailInv, QueueInv, Fine, Pending
  PROVE  /\ qhead + 1 \in DOMAIN trail /\ trail[qhead + 1].level = Len(lim)
         /\ P \in UsedLits /\ Neg(Neg(P)) = P
<1>1. /\ Len(trail) \in Nat /\ DOMAIN trail = 1 .. Len(trail) /\ Len(lim) \in Nat
      /\ qhead \in 0 .. Len(trail) /\ Levelled(trail, lim) /\ DOMAIN lim = 1 .. Len(lim)
      /\ \A k \in DOMAIN lim : lim[k] \in 0 .. Len(trail)
      /\ \A i \in DOMAIN trail : trail[i].lit \in UsedLits /\ trail[i].level \in 0 .. Len(lim)
      /\ UsedLits \subseteq NatLits
  BY StateIs
<1>2. qhead + 1 \in DOMAIN trail
  BY <1>1 DEF Pending
<1>3. trail[qhead + 1].level = Len(lim)
  <2>1. CASE Len(lim) = 0
    BY <1>1, <1>2, <2>1
  <2>2. CASE Len(lim) > 0
    <3>0. lim[Len(lim)] <= qhead
      BY <2>2 DEF QueueInv
    <3>1. Len(lim) \in DOMAIN lim
      BY <1>1, <2>2
    <3>2. lim[Len(lim)] < qhead + 1
      BY <1>1, <3>0, <3>1
    <3>3. Len(lim) <= trail[qhead + 1].level
      BY <1>1, <1>2, <3>1, <3>2 DEF Levelled
    <3> QED
      BY <1>1, <1>2, <3>3
  <2> QED
    BY <1>1, <2>1, <2>2
<1>4. P \in UsedLits /\ P \in NatLits
  BY <1>1, <1>2 DEF P
<1>5. Neg(Neg(P)) = P
  BY <1>4, Numbered
<1> QED
  BY <1>2, <1>3, <1>4, <1>5

(* A learnt clause watches, with the literal that it forces, one of the    *)
(* level that this one gets.                                               *)
LEMMA LearntSecond ==
  ASSUME PlainTypes, CallsTyped, TrailInv, WorkInv, Next, Learns, Kept # << >>
  PROVE  /\ Len(LearntClause) > 1 /\ Len(LearntClause) \in Nat
         /\ LearntClause[1] = Asserting /\ Asserting \in UsedLits
         /\ FalseOn(trail', LearntClause[2], BackLevel)
         /\ Len(trail') \in DOMAIN trail'
         /\ trail'[Len(trail')] = Entry(Asserting, next, BackLevel)
         /\ DOMAIN trail' = 1 .. Len(TrailUpTo(BackLevel)) + 1
         /\ DOMAIN TrailUpTo(BackLevel) = 1 .. Len(TrailUpTo(BackLevel))
         /\ Len(TrailUpTo(BackLevel)) \in Nat
         /\ Len(trail') = Len(TrailUpTo(BackLevel)) + 1
<1> DEFINE b == BackLevel
           s == Swap(Kept, 1, Foremost)
           t == TrailUpTo(b)
<1>0. Learn /\ b \in Nat /\ b < Len(lim)
  BY LearnBacks
<1>1. Analyzing /\ Present # {}
  BY <1>0 DEF Learn
<1>2. /\ Kept \in Seq(UsedLits) /\ Foremost \in DOMAIN Kept
      /\ IsFalse(Kept[Foremost]) /\ Kept[Foremost] \in UsedLits
      /\ Level(Kept[Foremost][1]) = b
  BY <1>1, KeptIs
<1>3. /\ LearntClause \in Seq(UsedLits) /\ Len(LearntClause) > 1
      /\ LearntClause[1] = Asserting /\ Asserting \in UsedLits
  BY <1>1, LearntIs
<1>4. LearntClause[2] = Kept[Foremost]
  <2>1. LearntClause = <<Asserting>> \o s
    BY DEF LearntClause
  <2>2. 1 \in DOMAIN Kept
    BY <1>2
  <2>3. s \in Seq(UsedLits) /\ Len(s) = Len(Kept) /\ s[1] = Kept[Foremost]
    BY <1>2, <2>2, Swapped
  <2>4. 1 \in 1 .. Len(s)
    BY <2>2, <2>3, <1>2
  <2> DEFINE one == <<Asserting>>
  <2>5. one \in Seq(UsedLits) /\ Len(one) = 1
    BY <1>3
  <2> HIDE DEF s, one
  <2>6. /\ one \o s \in Seq(UsedLits) /\ Len(one \o s) = Len(one) + Len(s)
        /\ \A i \in DOMAIN one : (one \o s)[i] = one[i]
        /\ \A m \in 1 .. Len(s) : (one \o s)[Len(one) + m] = s[m]
    <3>1. s \in Seq(UsedLits) /\ one \in Seq(UsedLits)
      BY <2>3, <2>5
    <3> QED
      BY <3>1, Joined
  <2> DEFINE c == one \o s
  <2>7. c[Len(one) + 1] = s[1]
    BY <2>4, <2>6
  <2> HIDE DEF c
  <2>8. Len(one) + 1 = 2
    BY <2>5
  <2>9. c[2] = s[1]
    BY <2>7, <2>8
  <2> QED
    BY <2>1, <2>3, <2>9 DEF one, c
<1>5. /\ next' \in Nat \ {0} /\ next <= next' /\ next < next'
  <2>1. next' = next + 1
    BY <1>0 DEF Learn, NewClause
  <2>2. next' \in Nat \ {0} /\ next <= next'
    BY NextGrows
  <2>3. next \in Nat
    BY StateIs
  <2> QED
    BY <2>1, <2>2, <2>3
<1>6. /\ Len(trail') \in Nat /\ DOMAIN trail' = 1 .. Len(trail')
      /\ Len(trail') = Len(t) + 1 /\ Prefix(t, trail')
      /\ trail'[Len(trail')] = Entry(Asserting, next, b)
  BY <1>0, <1>5, LearnKeepsSound
<1>7. /\ DOMAIN t = 1 .. Len(t) /\ Len(t) \in Nat /\ Prefix(t, trail)
      /\ \A i \in DOMAIN trail : i \in DOMAIN t <=> trail[i].level <= b
  <2>1. next \in Nat /\ next <= next /\ Len(trail) \in Nat
    BY StateIs
  <2> QED
    BY <1>0, <2>1, BackIs
<1>8. FalseOn(trail', Kept[Foremost], b)
  <2>1. PICK i \in DOMAIN trail : trail[i].lit = Neg(Kept[Foremost]) /\ trail[i].level = b
    BY <1>2, FalseHasPlace
  <2>2. i \in DOMAIN t
    BY <1>0, <1>7, <2>1
  <2>3. i \in DOMAIN trail' /\ trail'[i] = trail[i]
    BY <1>6, <1>7, <2>2 DEF Prefix
  <2> QED
    BY <2>1, <2>3 DEF FalseOn
<1>9. Len(LearntClause) \in Nat
  BY <1>3
<1>10. Len(trail') \in DOMAIN trail'
  BY <1>6, <1>7
<1> QED
  BY <1>3, <1>4, <1>6, <1>7, <1>8, <1>9, <1>10

---------------------------------------------------------------------------
(* That every clause stays guarded.                                        *)

LEMMA OnStays ==
  ASSUME PlainTypes, TrailInv, Onward, Len(trail') \in Nat,
         DOMAIN trail' = 1 .. Len(trail'),
         NEW id \in DOMAIN clauses, clauses'[id] = clauses[id], IsGuarded(id)
  PROVE  IsGuarded(id)'
<1>1. pc # "conflict" /\ pc' # "conflict" /\ Prefix(trail, trail') /\ qhead' = qhead
      /\ at' = 1
  BY DEF Onward
<1>2. Handled(id)' \subseteq Handled(id) /\ Carries(trail, trail', Handled(id)')
  BY <1>1, HandledOn
<1>3. Odd(id) = {}
  BY <1>1, NothingOdd
<1> QED
  BY <1>2, <1>3, StaysGuarded

LEMMA NewStays ==
  ASSUME PlainTypes, TrailInv, Onward, Len(trail') \in Nat,
         DOMAIN trail' = 1 .. Len(trail'), NEW id,
         \A k \in DOMAIN clauses'[id].lits : IsOpen(clauses'[id].lits[k]),
         NEW U \in SUBSET Vars, Clean(clauses'[id], U)
  PROVE  IsGuarded(id)'
<1> DEFINE c == clauses'[id]
<1>1. pc # "conflict" /\ pc' # "conflict" /\ Prefix(trail, trail') /\ qhead' = qhead
      /\ at' = 1
  BY DEF Onward
<1>2. Handled(id)' \subseteq Handled(id) /\ Carries(trail, trail', Handled(id)')
  BY <1>1, HandledOn
<1>3. \A j \in Handled(id)' : j \in DOMAIN trail /\ trail'[j].lit = trail[j].lit
  BY <1>2 DEF Handled, Carries
<1>4. \A k \in DOMAIN c.lits : \A j \in Handled(id)' : trail'[j].lit # Neg(c.lits[k])
  BY <1>3 DEF IsOpen, IsFalse, IsTrue
<1>5. /\ Len(c.lits) \in Nat \ {0, 1} /\ DOMAIN c.lits = 1 .. Len(c.lits)
  BY WatchedIs
<1> HIDE DEF c
<1>6. 1 \in DOMAIN c.lits /\ 2 \in DOMAIN c.lits
      /\ \A k \in 1 .. Len(c.lits) - 1 : k \in DOMAIN c.lits
  <2> DEFINE n == Len(c.lits)
  <2>1. n \in Nat \ {0, 1} /\ DOMAIN c.lits = 1 .. n
    BY ONLY <1>5
  <2> HIDE DEF n
  <2>2. 1 \in 1 .. n /\ 2 \in 1 .. n /\ \A k \in 1 .. n - 1 : k \in 1 .. n
    BY <2>1
  <2> QED
    BY <2>1, <2>2 DEF n
<1>7. Guarded(c, trail', Handled(id)', Odd(id)')
  BY <1>4, <1>6 DEF Guarded
<1> QED
  BY <1>7 DEF IsGuarded, c

LEMMA OddLower ==
  ASSUME PlainTypes, CallsTyped, TrailInv, NEW id, OddOne(id),
         NEW j \in DOMAIN trail, j <= lim[Len(lim)],
         trail[j].lit = Neg(work.clause[2])
  PROVE  trail[j].level < Len(lim) /\ Level(work.clause[2][1]) = trail[j].level
<1>1. Len(lim) > 0 /\ Len(work.clause) = 2
  BY DEF OddOne
<1>2. /\ Len(lim) \in Nat /\ DOMAIN lim = 1 .. Len(lim) /\ OneEach(trail)
      /\ Levelled(trail, lim) /\ DOMAIN trail \subseteq Nat /\ UsedLits \subseteq NatLits
      /\ \A m \in DOMAIN trail : trail[m].level \in 0 .. Len(lim)
      /\ \A m \in DOMAIN lim : lim[m] \in 0 .. Len(trail)
      /\ Len(trail) \in Nat
  <2>1. DOMAIN trail = 1 .. Len(trail)
    BY StateIs
  <2> QED
    BY <2>1, StateIs
<1>3. work.clause[2] \in UsedLits
  <2>1. work.clause \in Seq(UsedLits)
    BY WorkIs
  <2> QED
    BY <1>1, <2>1
<1>4. trail[j].lit[1] = work.clause[2][1]
  BY <1>2, <1>3, NumberedOne
<1>5. Level(work.clause[2][1]) = trail[j].level
  BY <1>2, <1>4, PlaceIs
<1>6. Len(lim) \in DOMAIN lim
  BY <1>1, <1>2
<1>7. ~ lim[Len(lim)] < j
  BY <1>2, <1>6
<1>8. ~ Len(lim) <= trail[j].level
  BY <1>2, <1>6, <1>7 DEF Levelled
<1> QED
  BY <1>2, <1>5, <1>8

(* The literal that a single set leaves waiting is alone in analysis: the  *)
(* clause that is learnt makes the last one true, at its level or below.   *)
LEMMA OddAlone ==
  ASSUME PlainTypes, CallsTyped, TrailInv, WorkInv, Analyzing, NEW id, OddOne(id),
         NEW j \in DOMAIN trail, j <= lim[Len(lim)],
         trail[j].lit = Neg(work.clause[2])
  PROVE  /\ \A i \in Present : trail[i].lit = Neg(LastOf(clauses[id]))
         /\ Present # {} => Asserting = LastOf(clauses[id])
         /\ BackLevel <= trail[j].level
<1> DEFINE a == work.clause[1]
           b == work.clause[2]
<1>1. /\ Len(lim) > 0 /\ work.seen = {} /\ work.out = << >> /\ Len(work.clause) = 2
      /\ a = LastOf(clauses[id])
  BY DEF OddOne
<1>2. PICK i \in DOMAIN trail : trail[i].lit = Neg(a) /\ trail[i].level = Len(lim)
                                /\ i <= work.index
  BY DEF OddOne
<1>3. /\ Len(lim) \in Nat /\ DOMAIN lim = 1 .. Len(lim) /\ OneEach(trail)
      /\ Levelled(trail, lim) /\ DOMAIN trail \subseteq Nat /\ UsedLits \subseteq NatLits
      /\ \A m \in DOMAIN trail : trail[m].level \in 0 .. Len(lim)
      /\ \A m \in DOMAIN lim : lim[m] \in 0 .. Len(trail)
      /\ Len(trail) \in Nat
  <2>1. DOMAIN trail = 1 .. Len(trail)
    BY StateIs
  <2> QED
    BY <2>1, StateIs
<1>4. /\ work.clause \in Seq(UsedLits) /\ work.out \in Seq(UsedLits)
      /\ DOMAIN work.clause = {1, 2}
  <2>1. work.clause \in Seq(UsedLits) /\ work.out \in Seq(UsedLits)
    BY WorkIs
  <2> QED
    BY <1>1, <2>1
<1>5. a \in UsedLits /\ b \in UsedLits
  BY <1>4
<1>6. Neg(a)[1] = a[1] /\ Neg(b)[1] = b[1] /\ Neg(Neg(a)) = a
  BY <1>3, <1>5, NumberedOne
<1>7. Level(a[1]) = Len(lim)
  BY <1>2, <1>3, <1>6, PlaceIs
<1>8. trail[j].level < Len(lim) /\ Level(b[1]) = trail[j].level
  BY OddLower
<1>9. Seen \subseteq {a[1], b[1]}
  BY <1>1, <1>4 DEF Seen, Fresh
<1>10. \A m \in Present : trail[m].lit = Neg(a)
  <2> SUFFICES ASSUME NEW m \in Present PROVE trail[m].lit = Neg(a)
    OBVIOUS
  <2>1. /\ m \in DOMAIN trail /\ m \in Nat /\ trail[m].level = Len(lim)
        /\ trail[m].lit[1] \in Seen
    BY PresentIs
  <2>2. trail[m].lit[1] = b[1] => m = j
    BY <1>3, <1>6, <2>1 DEF OneEach
  <2>3. m # j
    BY <1>3, <1>8, <2>1
  <2>4. trail[m].lit[1] = a[1]
    BY <1>9, <2>1, <2>2, <2>3
  <2>5. m = i
    BY <1>2, <1>3, <1>6, <2>1, <2>4 DEF OneEach
  <2> QED
    BY <1>2, <2>5
<1>11. Present # {} => Asserting = a
  <2>1. Present # {} => Uip \in Present
    BY PresentIs
  <2> QED
    BY <1>6, <1>10, <2>1 DEF Asserting
<1>12. BackLevel <= trail[j].level
  <2>1. /\ Kept \in Seq(UsedLits) /\ BackLevel \in 0 .. Len(lim) - 1
        /\ Kept # << >> => /\ Foremost \in DOMAIN Kept
                           /\ Level(Kept[Foremost][1]) = BackLevel
    BY KeptIs
  <2>2. CASE Kept = << >>
    <3>1. BackLevel = 0
      BY <2>2 DEF BackLevel
    <3> QED
      BY <1>3, <3>1
  <2>3. CASE Kept # << >>
    <3>1. Out \in Seq(UsedLits)
      BY OutIs
    <3> DEFINE S == {k \in DOMAIN Out : ~ Redundant(Out[k][1])}
    <3>2. S \in SUBSET DOMAIN Out /\ Kept = Chosen(Out, S)
      BY DEF Kept
    <3> HIDE DEF S
    <3>3. \A n \in DOMAIN Kept : \E k \in S : Kept[n] = Out[k]
      BY <3>1, <3>2, ChosenIs
    <3>4. PICK k \in DOMAIN Out : Kept[Foremost] = Out[k]
      BY <2>1, <2>3, <3>2, <3>3
    <3>5. Out[k] = b
      <4> DEFINE T == {m \in Fresh : Level(work.clause[m][1]) < CurrentLevel}
      <4>1. T \in SUBSET DOMAIN work.clause /\ Lower = Chosen(work.clause, T)
        BY DEF Lower, Fresh
      <4>2. T \subseteq {2}
        BY <1>3, <1>4, <1>7 DEF Fresh, CurrentLevel
      <4> HIDE DEF T
      <4>3. /\ Lower \in Seq(UsedLits)
            /\ \A n \in DOMAIN Lower : \E m \in T : Lower[n] = work.clause[m]
        BY <1>4, <4>1, ChosenIs
      <4>4. \A n \in DOMAIN Lower : Lower[n] = b
        BY <4>2, <4>3
      <4>5. Out = Lower
        BY <1>1, <4>3 DEF Out
      <4> QED
        BY <4>4, <4>5
    <3> QED
      BY <1>3, <1>8, <2>1, <2>3, <3>4, <3>5
  <2> QED
    BY <2>2, <2>3
<1> QED
  BY <1>1, <1>7, <1>8, <1>10, <1>11, <1>12

LEMMA BackStays ==
  ASSUME PlainTypes, TrailInv, QueueInv, Fine, NEW n \in Nat, Backs(n),
         Len(trail') \in Nat, DOMAIN trail' = 1 .. Len(trail'),
         NEW id \in DOMAIN clauses, clauses'[id] = clauses[id], IsGuarded(id),
         OddOne(id) => \A j \in Handled(id)' :
           /\ j \in DOMAIN trail /\ trail[j].lit = Neg(work.clause[2])
           /\ j <= lim[Len(lim)] /\ trail'[j] = trail[j]
           /\ clauses[id].kind = "single"
           => Under(trail', LastOf(clauses[id]), j)
  PROVE  IsGuarded(id)'
<1>1. /\ pc = "conflict" => n < Len(lim)
      /\ pc' # "conflict" /\ Prefix(TrailUpTo(n), trail')
      /\ qhead' = QheadUpTo(n) /\ at' = 1
  BY DEF Backs
<1>2. /\ Handled(id)' \subseteq Handled(id) /\ Carries(trail, trail', Handled(id)')
      /\ \A j \in Handled(id)' : j \in DOMAIN trail' /\ trail'[j] = trail[j]
  BY <1>1, HandledBack
<1>3. ASSUME clauses[id].kind = "single", NEW k \in 1 .. Len(clauses[id].lits) - 1,
             NEW j \in Handled(id)', trail[j].lit = Neg(clauses[id].lits[k]),
             clauses[id].lits[k] \in Odd(id)
      PROVE  Under(trail', LastOf(clauses[id]), j)
  <2>1. OddOne(id) /\ clauses[id].lits[k] = work.clause[2]
    BY <1>3 DEF Odd
  <2>2. pc = "conflict" /\ Len(lim) > 0
    BY <2>1 DEF OddOne
  <2>3. j \in Handled(id)
    BY <1>2
  <2>4. j \in DOMAIN trail /\ j <= lim[Len(lim)]
    BY <2>2, <2>3 DEF Handled, DoneUpTo, Pending
  <2> QED
    BY <1>2, <1>3, <2>1, <2>4
<1> QED
  BY <1>2, <1>3, StaysGuarded

LEMMA LearnStays ==
  ASSUME PlainTypes, CallsTyped, TrailInv, WorkInv, QueueInv, Fine, Next, Learns,
         Len(trail') \in Nat, DOMAIN trail' = 1 .. Len(trail'), TrailInv',
         NEW id \in DOMAIN clauses, clauses'[id] = clauses[id], IsGuarded(id)
  PROVE  IsGuarded(id)'
<1>1. /\ Learn /\ BackLevel \in Nat /\ Backs(BackLevel)
  BY LearnBacks
<1>2. Analyzing /\ Present # {}
  BY <1>1 DEF Learn
<1>3. ASSUME OddOne(id), NEW j \in DOMAIN trail, trail[j].lit = Neg(work.clause[2]),
             j <= lim[Len(lim)], trail'[j] = trail[j]
      PROVE  Under(trail', LastOf(clauses[id]), j)
  <2>1. Asserting = LastOf(clauses[id]) /\ BackLevel <= trail[j].level
    BY <1>2, <1>3, OddAlone
  <2>2. /\ Len(trail') \in DOMAIN trail'
        /\ trail'[Len(trail')].lit = Asserting /\ trail'[Len(trail')].level = BackLevel
    <3> DEFINE t == TrailUpTo(BackLevel)
               e == Entry(Asserting, IF Kept = << >> THEN 0 ELSE next, BackLevel)
    <3>1. Len(trail') = Len(t) + 1 /\ trail'[Len(trail')] = e
      <4>1. /\ next' \in Nat \ {0} /\ next <= next' /\ (Kept # << >> => next < next')
        <5>1. Kept # << >> => next' = next + 1
          BY <1>1 DEF Learn, NewClause
        <5>2. next' \in Nat \ {0} /\ next <= next'
          BY NextGrows
        <5>3. next \in Nat
          BY StateIs
        <5> QED
          BY <5>1, <5>2, <5>3
      <4> QED
        BY <1>1, <4>1, LearnKeepsSound
    <3>2. Len(t) \in Nat
      <4>1. next \in Nat /\ next <= next /\ Len(trail) \in Nat
        BY StateIs
      <4> QED
        BY <1>1, <4>1, BackIs
    <3>3. e.lit = Asserting /\ e.level = BackLevel
      BY DEF Entry
    <3> QED
      BY <3>1, <3>2, <3>3
  <2>3. trail'[Len(trail')].level <= trail'[j].level
    BY <1>3, <2>1, <2>2
  <2> QED
    BY <2>1, <2>2, <2>3 DEF Under
<1> QED
  BY <1>1, <1>3, BackStays

LEMMA LearntStays ==
  ASSUME PlainTypes, CallsTyped, TrailInv, WorkInv, Next, Learns, Kept # << >>,
         TrailInv', NEW id,
         clauses'[id] = [lits |-> LearntClause, kind |-> "learnt"]
  PROVE  IsGuarded(id)'
<1> DEFINE c == clauses'[id]
           b == BackLevel
<1>1. /\ c.lits = LearntClause /\ c.kind = "learnt"
  OBVIOUS
<1>2. /\ LearntClause[1] = Asserting /\ Asserting \in UsedLits
      /\ FalseOn(trail', LearntClause[2], b)
      /\ Len(trail') \in DOMAIN trail'
      /\ trail'[Len(trail')] = Entry(Asserting, next, b)
  BY LearntSecond
<1>3. trail'[Len(trail')].lit = Asserting /\ trail'[Len(trail')].level = b
  BY <1>2 DEF Entry
<1>4. OneEach(trail')
  BY DEF TrailInv, Sound
<1>5. b \in Nat
  BY LearnBacks
<1>6. Handled(id)' \subseteq DOMAIN trail'
  BY DEF Handled
<1>7. Neg(Asserting)[1] = Asserting[1] /\ Neg(Asserting) # Asserting
  BY <1>2, StateIs, NumberedOne
<1>8. \A j \in DOMAIN trail' : trail'[j].lit # Neg(Asserting)
  BY <1>2, <1>3, <1>4, <1>7 DEF OneEach
<1>9. \A j \in DOMAIN trail' : trail'[j].lit = Neg(LearntClause[2]) =>
        trail'[j].level = b
  BY <1>2, <1>4 DEF FalseOn, OneEach
<1>10. \A j \in DOMAIN trail' : trail'[j].lit = Neg(LearntClause[2]) =>
         Under(trail', Asserting, j)
  BY <1>2, <1>3, <1>5, <1>9 DEF Under
<1> HIDE DEF c
<1>11. Guarded(c, trail', Handled(id)', Odd(id)')
  BY <1>1, <1>2, <1>6, <1>8, <1>10 DEF Guarded
<1> QED
  BY <1>11 DEF IsGuarded, c

(* Nothing is learnt: the slip says when such a literal is left.           *)
LEMMA GivenUpStays ==
  ASSUME PlainTypes, CallsTyped, TrailInv, CallInv, WorkInv, QueueInv, Fine, Next,
         AllBacks \/ AssertFails, Fine',
         Len(trail') \in Nat, DOMAIN trail' = 1 .. Len(trail'),
         NEW id \in DOMAIN clauses, clauses'[id] = clauses[id], IsGuarded(id)
  PROVE  IsGuarded(id)'
<1>1. PICK n \in Nat : Backs(n)
  BY CancelsBack, DenyBacks
<1>2. ASSUME OddOne(id), NEW j \in DOMAIN trail, trail[j].lit = Neg(work.clause[2]),
             j <= lim[Len(lim)], clauses[id].kind = "single"
      PROVE  FALSE
  <2>1. CheckFails \/ AssertFails
    BY <1>2 DEF OddOne, AllBacks, Reset, PopCheck, NextCall, Restart, RestartsTooLate,
                AssumeFalse, AssumesTooLate, ModelFound, FoundTooLate, Restarting,
                Quiet, Assuming, Deciding, Picking, Branching
  <2>2. LeavesExposed
    BY <2>1 DEF CheckFails, AssertFails
  <2>3. id = work.id
    BY <1>2 DEF OddOne
  <2>4. Level(work.clause[2][1]) < CurrentLevel
    BY <1>2, OddLower DEF CurrentLevel
  <2>5. "exposed" \in slips'
    BY <1>2, <2>2, <2>3, <2>4 DEF LeavesExposed, ExposedIf
  <2> QED
    BY <2>5 DEF Fine
<1> QED
  BY <1>1, <1>2, BackStays

LEMMA AssertStays ==
  ASSUME PlainTypes, TrailInv, QueueInv, AssertSucceeds,
         NEW id \in DOMAIN clauses, clauses'[id] = clauses[id], IsGuarded(id)
  PROVE  IsGuarded(id)'
<1>1. /\ pc = "propagate" /\ pc' = "call" /\ at' = at /\ qhead' = qhead /\ ~ Pending
      /\ trail' = [i \in DOMAIN trail |-> [trail[i] EXCEPT !.level = 0]]
  BY DEF AssertSucceeds, Finish, Quiet, Pending
<1>2. at' = 1
  BY <1>1, NoneWaiting
<1>3. /\ DOMAIN trail' = DOMAIN trail
      /\ \A i \in DOMAIN trail : trail'[i].lit = trail[i].lit /\ trail'[i].level = 0
  <2>1. \A i \in DOMAIN trail : trail[i] \in EntryTypes(used, next)
    BY StateIs
  <2> QED
    BY <1>1, <2>1 DEF EntryTypes
<1>4. Handled(id)' = {j \in DOMAIN trail : j <= qhead}
  BY <1>1, <1>2, <1>3, HandledFromOne
<1>5. DoneUpTo = qhead
  BY <1>1 DEF DoneUpTo
<1>6. Handled(id)' \subseteq Handled(id) /\ Handled(id)' \subseteq DOMAIN trail
  BY <1>4, <1>5, HandledOf
<1>7. Carries(trail, trail', Handled(id)')
  BY <1>3, <1>6, CarriesFacts
<1>8. Odd(id) = {}
  BY <1>1, NothingOdd
<1> QED
  BY <1>6, <1>7, <1>8, StaysGuarded

LEMMA ResolveStays ==
  ASSUME PlainTypes, CallsTyped, TrailInv, WorkInv, Resolve,
         NEW id \in DOMAIN clauses, clauses'[id] = clauses[id], IsGuarded(id)
  PROVE  IsGuarded(id)'
<1>1. /\ pc = "conflict" /\ pc' = "conflict" /\ Analyzing /\ trail' = trail
      /\ UNCHANGED <<lim, qhead, at, watches>>
  BY DEF Resolve, Analyzing, assignment, database
<1>2. Handled(id)' = Handled(id)
  BY <1>1 DEF Handled, DoneUpTo, Pending, P
<1>3. Carries(trail, trail', Handled(id)')
  BY <1>1, CarriesSame
<1>4. ASSUME clauses[id].kind = "single", NEW k \in 1 .. Len(clauses[id].lits) - 1,
             NEW j \in Handled(id)', trail[j].lit = Neg(clauses[id].lits[k]),
             clauses[id].lits[k] \in Odd(id)
      PROVE  FALSE
  <2>1. OddOne(id) /\ clauses[id].lits[k] = work.clause[2]
    BY <1>4 DEF Odd
  <2>2. pc = "conflict" /\ Len(lim) > 0
    BY <2>1 DEF OddOne
  <2>3. j \in DOMAIN trail /\ j <= lim[Len(lim)]
    BY <1>2, <2>2 DEF Handled, DoneUpTo, Pending
  <2>4. \A i \in Present : trail[i].lit = Neg(LastOf(clauses[id]))
    BY <1>1, <1>4, <2>1, <2>3, OddAlone
  <2>5. PICK i \in Present : i # Uip
    BY DEF Resolve
  <2>6. Uip \in Present /\ Present \subseteq DOMAIN trail
    BY <1>1, <2>5, PresentIs
  <2>7. OneEach(trail)
    BY DEF TrailInv, Sound
  <2> QED
    BY <2>4, <2>5, <2>6, <2>7 DEF OneEach
<1> QED
  BY <1>2, <1>3, <1>4, StaysGuarded

(* A literal that falsifies nothing that is watched can be added. *)
LEMMA GuardedMore ==
  ASSUME NEW c, NEW U \in SUBSET Vars, Clean(c, U), NEW t, NEW H, NEW i,
         Guarded(c, t, H, {}), \A l \in Watched(c) : t[i].lit # Neg(l),
         NEW G, G \subseteq H \cup {i}, NEW odd
  PROVE  Guarded(c, t, G, odd)
<1>1. /\ Len(c.lits) \in Nat \ {0, 1} /\ DOMAIN c.lits = 1 .. Len(c.lits)
      /\ \A l : l \in Watched(c) <=>
           \E k \in DOMAIN c.lits : /\ c.lits[k] = l
                                    /\ c.kind = "single" => k < Len(c.lits)
                                    /\ c.kind # "single" => k <= 2
  BY WatchedIs
<1>2. CASE c.kind = "single"
  <2>1. \A k \in 1 .. Len(c.lits) - 1 : k \in DOMAIN c.lits /\ k < Len(c.lits)
    <3> DEFINE n == Len(c.lits)
    <3>1. n \in Nat \ {0, 1}
      BY ONLY <1>1
    <3> HIDE DEF n
    <3>2. \A k \in 1 .. n - 1 : k \in 1 .. n /\ k < n
      BY <3>1
    <3> QED
      BY <1>1, <3>2 DEF n
  <2>2. \A k \in 1 .. Len(c.lits) - 1 : c.lits[k] \in Watched(c)
    BY <1>1, <1>2, <2>1
  <2>3. \A k \in 1 .. Len(c.lits) - 1 : t[i].lit # Neg(c.lits[k])
    BY <2>2
  <2>4. \A k \in 1 .. Len(c.lits) - 1 : \A j \in H : t[j].lit = Neg(c.lits[k]) =>
          /\ \A m \in 1 .. Len(c.lits) - 1 : \A h \in H :
               t[h].lit = Neg(c.lits[m]) => m = k
          /\ Under(t, LastOf(c), j)
    BY <1>2 DEF Guarded
  <2>5. \A k \in 1 .. Len(c.lits) - 1 : \A j \in G : t[j].lit = Neg(c.lits[k]) => j \in H
    BY <2>3
  <2>6. \A k \in 1 .. Len(c.lits) - 1 : \A j \in G : t[j].lit = Neg(c.lits[k]) =>
          /\ \A m \in 1 .. Len(c.lits) - 1 : \A h \in G :
               t[h].lit = Neg(c.lits[m]) => m = k
          /\ Under(t, LastOf(c), j)
    BY <2>4, <2>5
  <2> QED
    BY <1>2, <2>6 DEF Guarded
<1>3. CASE c.kind # "single"
  <2>1. 1 \in DOMAIN c.lits /\ 2 \in DOMAIN c.lits
    <3> DEFINE n == Len(c.lits)
    <3>1. n \in Nat \ {0, 1}
      BY ONLY <1>1
    <3> HIDE DEF n
    <3>2. 1 \in 1 .. n /\ 2 \in 1 .. n
      BY <3>1
    <3> QED
      BY <1>1, <3>2 DEF n
  <2>2. c.lits[1] \in Watched(c) /\ c.lits[2] \in Watched(c)
    BY <1>1, <1>3, <2>1
  <2>3. t[i].lit # Neg(c.lits[1]) /\ t[i].lit # Neg(c.lits[2])
    BY <2>2
  <2>4. \A j \in H : /\ t[j].lit = Neg(c.lits[1]) => Under(t, c.lits[2], j)
                     /\ t[j].lit = Neg(c.lits[2]) => Under(t, c.lits[1], j)
    BY <1>3 DEF Guarded
  <2>5. \A j \in G : /\ t[j].lit = Neg(c.lits[1]) => Under(t, c.lits[2], j)
                     /\ t[j].lit = Neg(c.lits[2]) => Under(t, c.lits[1], j)
    BY <2>3, <2>4
  <2> QED
    BY <1>3, <2>5 DEF Guarded
<1> QED
  BY <1>2, <1>3

(* When a list has been read, all clauses in it have been visited, and no  *)
(* other watches the literal.                                              *)
LEMMA ListStays ==
  ASSUME PlainTypes, TrailInv, ListsInv, EachListed, QueueInv, Fine, ok,
         NextWatchList, NEW id \in DOMAIN clauses, IsGuarded(id)
  PROVE  IsGuarded(id)'
<1>1. /\ Pending /\ at > Len(watches[P]) /\ qhead' = qhead + 1 /\ at' = 1
      /\ UNCHANGED <<clauses, watches, trail, pc>>
  BY DEF NextWatchList
<1>2. pc = "propagate" /\ pc' = "propagate"
  BY <1>1 DEF Pending
<1>3. Handled(id)' = {j \in DOMAIN trail : j <= qhead + 1}
  BY <1>1, <1>2, HandledFromOne
<1>4. DoneUpTo = qhead /\ Odd(id) = {}
  BY <1>2, NothingOdd DEF DoneUpTo
<1>5. qhead \in Nat /\ DOMAIN trail \subseteq Nat /\ UsedLits \subseteq Lits
      /\ used \in SUBSET Vars /\ Len(trail) \in Nat
  <2>1. qhead \in 0 .. Len(trail) /\ DOMAIN trail = 1 .. Len(trail) /\ Len(trail) \in Nat
    BY StateIs
  <2> QED
    BY <2>1, StateIs
<1>6. \A j \in DOMAIN trail : j <= qhead + 1 => j <= DoneUpTo \/ j = qhead + 1
  BY <1>4, <1>5
<1>7. Handled(id)' \subseteq Handled(id) \cup {qhead + 1}
  BY <1>3, <1>6, HandledOf
<1>8. P \in UsedLits /\ Neg(Neg(P)) = P /\ qhead + 1 \in DOMAIN trail
  BY <1>1, PresentLevel
<1>9. P \in Lits /\ Neg(P) \in Lits
  BY <1>5, <1>8, LitFacts
<1>10. CASE id \in Range(watches[P])
  <2>1. watches[P] \in Seq(1 .. next - 1)
    BY <1>9 DEF ListsInv, ListsOf
  <2>2. PICK n \in DOMAIN watches[P] : watches[P][n] = id
    BY <1>10 DEF Range
  <2>3. n \in 1 .. at - 1
    <3>1. DOMAIN watches[P] = 1 .. Len(watches[P]) /\ Len(watches[P]) \in Nat
      BY <2>1
    <3>2. at \in Nat
      BY DEF PlainTypes
    <3> QED
      BY <1>1, <3>1, <3>2
  <2>4. qhead + 1 \in Handled(id)
    BY <1>1, <1>8, <2>2, <2>3 DEF Handled
  <2>5. Handled(id)' \subseteq Handled(id)
    BY <1>7, <2>4
  <2>6. Carries(trail, trail', Handled(id)')
    BY <1>1, CarriesSame
  <2>7. clauses'[id] = clauses[id]
    BY <1>1
  <2> QED
    BY <1>4, <2>5, <2>6, <2>7, StaysGuarded
<1>11. CASE id \notin Range(watches[P])
  <2>1. ~ Broken
    BY <1>2 DEF Broken, Fine
  <2>2. Neg(P) \notin Watched(clauses[id])
    BY <1>8, <1>11, <2>1 DEF EachListed, Listed
  <2>3. Clean(clauses[id], used)
    BY DEF ListsInv, ClausesOf
  <2>4. \A l \in Watched(clauses[id]) : l \in Lits
    BY <1>5, <2>3, WatchedIs
  <2>5. \A l \in Watched(clauses[id]) : trail[qhead + 1].lit # Neg(l)
    BY <1>9, <2>2, <2>4, LitFacts DEF P
  <2>6. Guarded(clauses[id], trail, Handled(id), {})
    BY <1>4 DEF IsGuarded
  <2>7. Guarded(clauses[id], trail, Handled(id)', Odd(id)')
    BY <1>5, <1>7, <2>3, <2>5, <2>6, GuardedMore
  <2> QED
    BY <1>1, <2>7 DEF IsGuarded
<1> QED
  BY <1>10, <1>11

---------------------------------------------------------------------------
(* Visits.                                                                 *)

LEMMA RewatchBefore ==
  ASSUME PlainTypes, TrailInv, ListsInv, Pending, at <= Len(watches[P]),
         NEW l \in Lits, l # Neg(P), Rewatch(l), NEW n \in 1 .. at - 1
  PROVE  watches'[P][n] = watches[P][n]
<1>1. P \in Lits /\ Neg(P) \in Lits /\ at \in DOMAIN watches[P]
  BY ReadingIs
<1>2. P # Neg(l) /\ Neg(l) \in Lits
  BY <1>1, LitFacts
<1>3. watches \in [Lits -> Seq(1 .. next - 1)]
  BY DEF ListsInv, ListsOf
<1>4. watches'[P] = Without(watches[P], at)
  BY <1>1, <1>2, <1>3 DEF Rewatch
<1>5. watches[P] \in Seq(1 .. next - 1)
  BY <1>1, <1>3
<1> DEFINE q == watches[P]
<1>6. \A m \in 1 .. Len(q) - 1 : Without(q, at)[m] = IF m < at THEN q[m] ELSE q[m + 1]
  BY <1>1, <1>5, LeftOut
<1>7. n \in 1 .. Len(q) - 1 /\ n < at
  <2>1. at \in 1 .. Len(q) /\ Len(q) \in Nat
    BY <1>1, <1>5
  <2> QED
    BY <2>1
<1> QED
  BY <1>4, <1>6, <1>7

(* What a visit leaves of the clauses that were read before. *)
LEMMA VisitsBefore ==
  ASSUME PlainTypes, TrailInv, ListsInv, Visits
  PROVE  /\ Pending /\ at <= Len(watches[P])
         /\ pc' = "propagate" => \A n \in 1 .. at - 1 : watches'[P][n] = watches[P][n]
         /\ pc' = "propagate" => \/ at' = at
                                 \/ at' = at + 1 /\ watches' = watches
<1>1. Pending /\ at <= Len(watches[P])
  BY DEF Visits, VisitTrue, VisitMoves, VisitForces, VisitFails, VisitSettles,
         VisitRefutes, VisitSwaps, VisitClashes, Reading
<1>2. CASE VisitTrue \/ VisitForces \/ VisitSettles
  BY <1>1, <1>2 DEF VisitTrue, VisitForces, VisitSettles, Keep
<1>3. CASE VisitFails \/ VisitRefutes \/ VisitClashes
  BY <1>1, <1>3 DEF VisitFails, VisitRefutes, VisitClashes, Conflict
<1>4. ASSUME NEW l \in Lits, l \notin Watched(C), Rewatch(l), at' = at
      PROVE  \A n \in 1 .. at - 1 : watches'[P][n] = watches[P][n]
  <2>1. Neg(P) \in Watched(C)
    BY <1>1, ReadingIs
  <2> QED
    BY <1>1, <1>4, <2>1, RewatchBefore
<1>5. CASE VisitMoves
  <2> DEFINE k == Least(Spare)
  <2>1. Reading(FALSE) /\ Spare # {} /\ Moves(C.lits[k])
    BY <1>5 DEF VisitMoves
  <2>2. C.lits[k] \in Lits /\ C.lits[k] \notin Watched(C)
    BY <2>1, MoveIs
  <2> HIDE DEF k
  <2>3. Rewatch(C.lits[k]) /\ at' = at
    BY <2>1 DEF Moves
  <2> QED
    BY <1>1, <1>4, <2>2, <2>3
<1>6. CASE VisitSwaps
  <2> DEFINE l == C.lits[Len(C.lits)]
             q == Swap(Swap(C.lits, Here, 1), 1, Len(C.lits))
  <2>1. Reading(TRUE) /\ Moves(l)
    BY <1>6 DEF VisitSwaps
  <2>2. /\ q \in Seq(UsedLits) /\ DistinctVars(q) /\ Len(q) = Len(C.lits)
        /\ Elements(q) = Elements(C.lits) /\ q[Len(q)] = Neg(P)
    BY <2>1, SwapsIs
  <2> HIDE DEF q
  <2>3. l \in Lits /\ l \notin Watched(C)
    BY <2>1, <2>2, SingleTurned
  <2> HIDE DEF l
  <2>4. Rewatch(l) /\ at' = at
    BY <2>1 DEF Moves
  <2> QED
    BY <1>1, <1>4, <2>3, <2>4
<1> QED
  BY <1>2, <1>3, <1>5, <1>6 DEF Visits

(* The clause being read has not had its turn. *)
LEMMA NotYet ==
  ASSUME PlainTypes, TrailInv, ListsInv, Pending, at <= Len(watches[P])
  PROVE  /\ Handled(Id) = {j \in DOMAIN trail : j <= qhead}
         /\ \A n \in 1 .. at - 1 : watches[P][n] # Id
<1>1. P \in Lits /\ at \in DOMAIN watches[P]
  BY ReadingIs
<1>2. NoneTwice(watches[P]) /\ watches[P] \in Seq(1 .. next - 1)
  BY <1>1 DEF ListsInv, ListsOf, Exact
<1>3. \A n \in 1 .. at - 1 : n \in DOMAIN watches[P] /\ n # at
  <2>1. DOMAIN watches[P] = 1 .. Len(watches[P]) /\ Len(watches[P]) \in Nat
    BY <1>2
  <2>2. at \in 1 .. Len(watches[P])
    BY <1>1, <2>1
  <2> QED
    BY <2>1, <2>2
<1>4. \A n \in 1 .. at - 1 : watches[P][n] # Id
  BY <1>1, <1>2, <1>3 DEF NoneTwice, Id
<1>5. DoneUpTo = qhead
  BY DEF Pending, DoneUpTo
<1> QED
  BY <1>4, <1>5 DEF Handled

(* In a conflict nothing more is handled than what stays. *)
LEMMA ConflictHandles ==
  ASSUME PlainTypes, TrailInv, QueueInv, Fine, Pending, pc' = "conflict",
         Len(lim) > 0, lim' = lim, Len(trail') \in Nat, DOMAIN trail' = 1 .. Len(trail'),
         NEW id
  PROVE  /\ Handled(id)' = {j \in DOMAIN trail' : j <= lim[Len(lim)]}
         /\ \A j \in Handled(id)' : j \in DOMAIN trail /\ j <= qhead /\ j \in Handled(id)
         /\ \A j \in Handled(id)' : trail[j].level < Len(lim)
<1>1. DoneUpTo' = lim[Len(lim)] /\ ~ Pending'
  BY DEF DoneUpTo, Pending
<1>2. Handled(id)' = {j \in DOMAIN trail' : j <= lim[Len(lim)]}
  BY <1>1 DEF Handled
<1>3. /\ lim[Len(lim)] <= qhead
      /\ Len(trail) \in Nat /\ DOMAIN trail = 1 .. Len(trail) /\ qhead \in 0 .. Len(trail)
      /\ Len(lim) \in DOMAIN lim /\ lim[Len(lim)] \in Nat /\ Levelled(trail, lim)
      /\ \A j \in DOMAIN trail : trail[j].level \in 0 .. Len(lim)
      /\ Len(lim) \in Nat
  <2>1. /\ Len(lim) \in Nat /\ DOMAIN lim = 1 .. Len(lim)
        /\ \A k \in DOMAIN lim : lim[k] \in 0 .. Len(trail)
        /\ Len(trail) \in Nat
    BY StateIs
  <2>2. Len(lim) \in DOMAIN lim
    BY <2>1
  <2>3. lim[Len(lim)] \in Nat
    BY <2>1, <2>2
  <2> QED
    BY <2>1, <2>2, <2>3, StateIs DEF QueueInv
<1>4. \A j \in DOMAIN trail' : j <= lim[Len(lim)] => j \in DOMAIN trail /\ j <= qhead
  BY <1>3
<1>5. DoneUpTo = qhead
  BY DEF DoneUpTo, Pending
<1>6. \A j \in Handled(id)' : j \in DOMAIN trail /\ j <= qhead
  BY <1>2, <1>4
<1>7. \A j \in Handled(id)' : j \in Handled(id)
  BY <1>5, <1>6, HandledOf
<1>8. \A j \in DOMAIN trail : j <= lim[Len(lim)] => trail[j].level < Len(lim)
  <2> SUFFICES ASSUME NEW j \in DOMAIN trail, j <= lim[Len(lim)]
               PROVE  trail[j].level < Len(lim)
    OBVIOUS
  <2>1. ~ lim[Len(lim)] < j
    BY <1>3
  <2>2. ~ Len(lim) <= trail[j].level
    BY <1>3, <2>1 DEF Levelled
  <2> QED
    BY <1>3, <2>2
<1>9. \A j \in Handled(id)' : trail[j].level < Len(lim)
  BY <1>2, <1>6, <1>8
<1> QED
  BY <1>2, <1>6, <1>7, <1>9

LEMMA OtherStays ==
  ASSUME PlainTypes, CallsTyped, TrailInv, ListsInv, CallInv, WorkInv, QueueInv, Fine,
         Next, Visits, pc' = "conflict" => Len(lim') > 0,
         NEW id \in DOMAIN clauses, id # Id, clauses'[id] = clauses[id], IsGuarded(id)
  PROVE  IsGuarded(id)'
<1>1. /\ Pending /\ Prefix(trail, trail') /\ lim' = lim
      /\ Len(trail') \in Nat /\ DOMAIN trail' = 1 .. Len(trail')
      /\ \/ pc' = "conflict"
         \/ pc' = "propagate" /\ (qhead' = qhead \/ NextWatchList)
  BY VisitsGrow
<1>2. pc = "propagate" /\ DoneUpTo = qhead /\ Odd(id) = {}
  BY <1>1, NothingOdd DEF Pending, DoneUpTo
<1>3. Handled(id)' \subseteq Handled(id)
  <2>1. CASE pc' = "conflict"
    BY <1>1, <2>1, ConflictHandles
  <2>2. CASE pc' = "propagate"
    <3>1. /\ at <= Len(watches[P])
          /\ \A n \in 1 .. at - 1 : watches'[P][n] = watches[P][n]
          /\ \/ at' = at
             \/ at' = at + 1 /\ watches' = watches
      BY <2>2, VisitsBefore
    <3>2. qhead' = qhead
      <4>1. ~ NextWatchList
        <5>1. at \in Nat /\ P \in Lits
          BY <1>1, <3>1, ReadingIs DEF PlainTypes
        <5>2. Len(watches[P]) \in Nat
          BY <5>1 DEF ListsInv, ListsOf
        <5>3. ~ at > Len(watches[P])
          BY <3>1, <5>1, <5>2
        <5> QED
          BY <5>3 DEF NextWatchList
      <4> QED
        BY <1>1, <2>2, <4>1
    <3>3. qhead + 1 \in DOMAIN trail
      BY <1>1, PresentLevel
    <3>4. qhead + 1 \in DOMAIN trail' /\ trail'[qhead + 1] = trail[qhead + 1]
      BY <1>1, <3>3 DEF Prefix
    <3>5. P' = P
      BY <3>2, <3>4 DEF P
    <3>6. DoneUpTo' = qhead
      BY <2>2, <3>2 DEF DoneUpTo
    <3>7. ASSUME NEW n \in 1 .. at' - 1, watches'[P][n] = id
          PROVE  \E m \in 1 .. at - 1 : watches[P][m] = id
      <4>0. at \in Nat
        BY DEF PlainTypes
      <4>1. CASE at' = at
        BY <3>1, <3>7, <4>1
      <4>2. CASE at' = at + 1 /\ watches' = watches
        <5>1. n # at
          BY <3>7, <4>2 DEF Id
        <5>2. n \in 1 .. at - 1
          BY <4>0, <4>2, <5>1
        <5> QED
          BY <3>7, <4>2, <5>2
      <4> QED
        BY <3>1, <4>1, <4>2
    <3>8. \A j \in DOMAIN trail' : j <= qhead \/ j = qhead + 1 => j \in DOMAIN trail
      <4>1. /\ DOMAIN trail = 1 .. Len(trail) /\ qhead \in 0 .. Len(trail)
            /\ Len(trail) \in Nat
        BY StateIs
      <4> QED
        BY <1>1, <3>3, <4>1
    <3> SUFFICES ASSUME NEW j \in Handled(id)' PROVE j \in Handled(id)
      OBVIOUS
    <3>9. /\ j \in DOMAIN trail'
          /\ \/ j <= qhead
             \/ j = qhead + 1 /\ \E n \in 1 .. at' - 1 : watches'[P][n] = id
      BY <3>2, <3>5, <3>6 DEF Handled
    <3>10. j \in DOMAIN trail
      BY <3>8, <3>9
    <3> QED
      BY <1>1, <1>2, <3>7, <3>9, <3>10 DEF Handled
  <2> QED
    BY <1>1, <2>1, <2>2
<1>4. Carries(trail, trail', Handled(id)')
  <2>1. Handled(id)' \subseteq DOMAIN trail
    BY <1>3 DEF Handled
  <2> QED
    BY <1>1, <2>1, CarriesGrown
<1> QED
  BY <1>2, <1>3, <1>4, StaysGuarded

(* Putting the false literal second keeps a clause guarded. *)
LEMMA TurnedGuarded ==
  ASSUME PlainTypes, TrailInv, ListsInv, Reading(FALSE), NEW t, NEW H, NEW odd,
         Guarded(C, t, H, odd)
  PROVE  /\ Guarded(With(C, Turned), t, H, odd)
         /\ \A j \in H : /\ t[j].lit = Neg(Turned[1]) => Under(t, Turned[2], j)
                         /\ t[j].lit = Neg(Turned[2]) => Under(t, Turned[1], j)
<1>1. /\ Turned[2] = Neg(P) /\ C.kind # "single"
      /\ Turned = C.lits \/ (C.lits[1] = Neg(P) /\ Turned[1] = C.lits[2])
  BY TurnedIs
<1>2. \A j \in H : /\ t[j].lit = Neg(C.lits[1]) => Under(t, C.lits[2], j)
                   /\ t[j].lit = Neg(C.lits[2]) => Under(t, C.lits[1], j)
  BY <1>1 DEF Guarded
<1>3. \A j \in H : /\ t[j].lit = Neg(Turned[1]) => Under(t, Turned[2], j)
                   /\ t[j].lit = Neg(Turned[2]) => Under(t, Turned[1], j)
  BY <1>1, <1>2
<1>4. With(C, Turned).lits = Turned /\ With(C, Turned).kind = C.kind
  <2>1. Turned \in Seq(UsedLits) /\ DistinctVars(Turned) /\ Len(Turned) = Len(C.lits)
    BY TurnedIs
  <2>2. Clean(C, used)
    BY ReadingIs DEF Reading
  <2> QED
    BY <2>1, <2>2, CleanWith
<1>5. Guarded(With(C, Turned), t, H, odd)
  BY <1>1, <1>3, <1>4 DEF Guarded
<1> QED
  BY <1>3, <1>5

LEMMA ReorderIs ==
  ASSUME PlainTypes, TrailInv, ListsInv, Pending, at <= Len(watches[P]),
         NEW q \in Seq(UsedLits), DistinctVars(q), Len(q) = Len(C.lits), Reorder(q)
  PROVE  clauses'[Id] = With(C, q) /\ With(C, q).lits = q /\ With(C, q).kind = C.kind
<1>1. Id \in DOMAIN clauses /\ Clean(C, used)
  BY ReadingIs
<1>2. clauses'[Id] = With(C, q)
  BY <1>1 DEF Reorder, With, C
<1>3. With(C, q).lits = q /\ With(C, q).kind = C.kind
  BY <1>1, CleanWith
<1> QED
  BY <1>2, <1>3

(* The literal just read is handled after a visit that keeps the place.    *)
LEMMA KeepHandles ==
  ASSUME PlainTypes, CallsTyped, TrailInv, ListsInv, QueueInv, Fine, Pending,
         at <= Len(watches[P]), Keep, Prefix(trail, trail'), pc = "propagate",
         NEW id, id = Id
  PROVE  /\ Handled(id)' \subseteq Handled(id) \cup {qhead + 1}
         /\ Handled(id)' \subseteq DOMAIN trail
         /\ qhead + 1 \in DOMAIN trail /\ trail[qhead + 1].lit = P
         /\ trail[qhead + 1].level = Len(lim)
         /\ Carries(trail, trail', Handled(id))
<1>1. pc' = "propagate" /\ qhead' = qhead /\ watches' = watches /\ at' = at + 1
  BY DEF Keep
<1>2. /\ qhead + 1 \in DOMAIN trail /\ trail[qhead + 1].level = Len(lim)
      /\ trail[qhead + 1].lit = P
  BY PresentLevel DEF P
<1>3. Handled(id) = {j \in DOMAIN trail : j <= qhead}
  BY NotYet
<1>4. /\ DOMAIN trail = 1 .. Len(trail) /\ qhead \in 0 .. Len(trail) /\ Len(trail) \in Nat
  BY StateIs
<1>5. DoneUpTo' = qhead
  BY <1>1 DEF DoneUpTo
<1>6. \A j \in Handled(id)' : j \in DOMAIN trail' /\ (j <= qhead \/ j = qhead + 1)
  BY <1>1, <1>5 DEF Handled
<1>7. CASE Len(trail') \in Nat /\ DOMAIN trail' = 1 .. Len(trail')
  <2>1. \A j \in DOMAIN trail' : j <= qhead \/ j = qhead + 1 => j \in DOMAIN trail
    BY <1>2, <1>4, <1>7
  <2>2. Handled(id)' \subseteq DOMAIN trail
    BY <1>6, <2>1
  <2>3. Handled(id)' \subseteq Handled(id) \cup {qhead + 1}
    BY <1>3, <1>6, <2>2
  <2>4. Carries(trail, trail', Handled(id))
    BY <1>3, CarriesGrown
  <2> QED
    BY <1>2, <2>2, <2>3, <2>4
<1> QED
  BY <1>7

(* The other watched literal is true, or becomes true. *)
LEMMA TurnStays ==
  ASSUME PlainTypes, CallsTyped, TrailInv, ListsInv, QueueInv, Fine, Reading(FALSE),
         Reorder(Turned), Keep, Prefix(trail, trail'), TrailInv',
         Len(trail') \in Nat, DOMAIN trail' = 1 .. Len(trail'),
         NEW i \in DOMAIN trail', trail'[i].lit = Turned[1],
         trail'[i].level <= Len(lim), NEW id, id = Id, IsGuarded(id)
  PROVE  IsGuarded(id)'
<1>1. Pending /\ at <= Len(watches[P]) /\ pc = "propagate"
  BY DEF Reading, Pending
<1>2. /\ Turned[2] = Neg(P) /\ C.kind # "single"
      /\ Turned \in Seq(UsedLits) /\ DistinctVars(Turned) /\ Len(Turned) = Len(C.lits)
      /\ 1 \in DOMAIN Turned /\ 2 \in DOMAIN Turned
  BY TurnedIs
<1>3. clauses'[id].lits = Turned /\ clauses'[id].kind = C.kind
  BY <1>1, <1>2, ReorderIs
<1>4. /\ Handled(id)' \subseteq Handled(id) \cup {qhead + 1}
      /\ Handled(id)' \subseteq DOMAIN trail
      /\ qhead + 1 \in DOMAIN trail /\ trail[qhead + 1].lit = P
      /\ trail[qhead + 1].level = Len(lim)
      /\ Carries(trail, trail', Handled(id))
  BY <1>1, KeepHandles
<1>5. Guarded(C, trail, Handled(id), {})
  BY <1>1, NothingOdd DEF IsGuarded, C
<1>6. \A j \in Handled(id) :
        /\ trail[j].lit = Neg(Turned[1]) => Under(trail, Turned[2], j)
        /\ trail[j].lit = Neg(Turned[2]) => Under(trail, Turned[1], j)
  BY <1>5, TurnedGuarded
<1>7. \A j \in Handled(id) :
        /\ trail'[j].lit = Neg(Turned[1]) => Under(trail', Turned[2], j)
        /\ trail'[j].lit = Neg(Turned[2]) => Under(trail', Turned[1], j)
  BY <1>4, <1>6 DEF Carries
<1>8. trail'[qhead + 1] = trail[qhead + 1] /\ qhead + 1 \in DOMAIN trail'
  BY <1>4 DEF Prefix
<1>9. Under(trail', Turned[1], qhead + 1)
  BY <1>4, <1>8 DEF Under
<1>10. trail'[qhead + 1].lit # Neg(Turned[1])
  <2>1. Turned[1] \in UsedLits
    BY <1>2
  <2>2. Neg(Turned[1])[1] = Turned[1][1] /\ Neg(Turned[1]) # Turned[1]
    BY <2>1, StateIs, NumberedOne
  <2>3. OneEach(trail')
    BY DEF TrailInv, Sound
  <2> QED
    BY <1>8, <2>2, <2>3 DEF OneEach
<1>11. \A j \in Handled(id)' :
        /\ trail'[j].lit = Neg(Turned[1]) => Under(trail', Turned[2], j)
        /\ trail'[j].lit = Neg(Turned[2]) => Under(trail', Turned[1], j)
  BY <1>4, <1>7, <1>9, <1>10
<1>12. Guarded(clauses'[id], trail', Handled(id)', Odd(id)')
  BY <1>2, <1>3, <1>11 DEF Guarded
<1> QED
  BY <1>12 DEF IsGuarded

(* A visit that moves a clause to another list leaves nothing new handled. *)
LEMMA MoveHandles ==
  ASSUME PlainTypes, TrailInv, ListsInv, QueueInv, Fine, Visits,
         at' = at, pc' = "propagate", qhead' = qhead, trail' = trail, NEW id, id = Id
  PROVE  Handled(id)' \subseteq {j \in DOMAIN trail : j <= qhead}
<1>1. /\ Pending /\ at <= Len(watches[P])
      /\ \A n \in 1 .. at - 1 : watches'[P][n] = watches[P][n]
  BY VisitsBefore
<1>2. \A n \in 1 .. at - 1 : watches'[P][n] # id
  BY <1>1, NotYet
<1>3. P' = P
  BY DEF P
<1>4. DoneUpTo' = qhead
  BY DEF DoneUpTo
<1> QED
  BY <1>2, <1>3, <1>4 DEF Handled

LEMMA MovesStays ==
  ASSUME PlainTypes, TrailInv, ListsInv, QueueInv, Fine, VisitMoves,
         NEW id, id = Id, IsGuarded(id)
  PROVE  IsGuarded(id)'
<1> DEFINE k == Least(Spare)
           q == Swap(Turned, 2, k)
<1>1. /\ Reading(FALSE) /\ Spare # {} /\ Reorder(q) /\ Moves(C.lits[k]) /\ Visits
  BY DEF VisitMoves, Visits
<1>2. Pending /\ at <= Len(watches[P]) /\ pc = "propagate"
  BY <1>1 DEF Reading, Pending
<1>3. at' = at /\ pc' = "propagate" /\ qhead' = qhead /\ trail' = trail
  BY <1>1, <1>2 DEF Moves
<1>4. /\ k \in 3 .. Len(C.lits) /\ ~ IsFalse(C.lits[k])
  BY <1>1, MoveIs
<1>5. /\ Turned \in Seq(UsedLits) /\ Len(Turned) = Len(C.lits)
      /\ DOMAIN Turned = DOMAIN C.lits /\ 1 \in DOMAIN C.lits /\ 2 \in DOMAIN C.lits
      /\ DistinctVars(Turned) /\ Turned[2] = Neg(P) /\ C.kind # "single"
      /\ \A m \in 3 .. Len(C.lits) : Turned[m] = C.lits[m]
  BY <1>1, TurnedIs
<1>6. k \in DOMAIN Turned /\ k # 2 /\ k # 1
  <2>1. DOMAIN C.lits = 1 .. Len(C.lits) /\ Len(C.lits) \in Nat
    BY <1>2, ReadingIs, WatchedIs
  <2> HIDE DEF k
  <2> QED
    BY <1>4, <1>5, <2>1
<1> HIDE DEF k
<1>7. /\ q \in Seq(UsedLits) /\ Len(q) = Len(C.lits) /\ q[2] = C.lits[k] /\ q[1] = Turned[1]
      /\ DistinctVars(q)
  <2>1. /\ q \in Seq(UsedLits) /\ Len(q) = Len(Turned) /\ q[2] = Turned[k]
        /\ \A m \in DOMAIN Turned : m # 2 /\ m # k => q[m] = Turned[m]
    BY <1>5, <1>6, Swapped
  <2>2. DistinctVars(q)
    BY <1>5, <1>6, SwapKeeps
  <2> HIDE DEF q
  <2> QED
    BY <1>4, <1>5, <1>6, <2>1, <2>2
<1> HIDE DEF q
<1>8. clauses'[id].lits = q /\ clauses'[id].kind = C.kind
  BY <1>1, <1>2, <1>7, ReorderIs
<1>9. /\ Handled(id)' \subseteq {j \in DOMAIN trail : j <= qhead}
      /\ Handled(id) = {j \in DOMAIN trail : j <= qhead}
  BY <1>1, <1>2, <1>3, MoveHandles, NotYet
<1>10. Guarded(C, trail, Handled(id), {})
  BY <1>2, NothingOdd DEF IsGuarded, C
<1>11. \A j \in Handled(id) : trail[j].lit = Neg(Turned[1]) => Under(trail, Turned[2], j)
  BY <1>1, <1>10, TurnedGuarded
<1>12. \A j \in DOMAIN trail : ~ Under(trail, Neg(P), j)
  <2>1. /\ qhead + 1 \in DOMAIN trail /\ trail[qhead + 1].lit = P /\ P \in UsedLits
    BY <1>2, PresentLevel DEF P
  <2>2. Neg(P)[1] = P[1] /\ Neg(P) # P
    BY <2>1, StateIs, NumberedOne
  <2>3. OneEach(trail)
    BY DEF TrailInv, Sound
  <2>4. \A i \in DOMAIN trail : trail[i].lit # Neg(P)
    BY <2>1, <2>2, <2>3 DEF OneEach
  <2> QED
    BY <2>4 DEF Under
<1>13. \A j \in Handled(id) : trail[j].lit # Neg(q[1])
  BY <1>5, <1>7, <1>9, <1>11, <1>12
<1>14. \A j \in DOMAIN trail : trail[j].lit # Neg(q[2])
  BY <1>4, <1>7 DEF IsFalse, IsTrue
<1>15. \A j \in Handled(id)' : trail'[j].lit # Neg(q[1]) /\ trail'[j].lit # Neg(q[2])
  BY <1>3, <1>9, <1>13, <1>14
<1>16. Guarded(clauses'[id], trail', Handled(id)', Odd(id)')
  BY <1>5, <1>8, <1>15 DEF Guarded
<1> QED
  BY <1>16 DEF IsGuarded

LEMMA FailsStays ==
  ASSUME PlainTypes, TrailInv, ListsInv, QueueInv, Fine, VisitFails, Len(lim) > 0,
         Len(trail') \in Nat, DOMAIN trail' = 1 .. Len(trail'),
         NEW id, id = Id, IsGuarded(id)
  PROVE  IsGuarded(id)'
<1>1. Reading(FALSE) /\ Reorder(Turned) /\ trail' = trail /\ pc' = "conflict"
      /\ lim' = lim
  BY DEF VisitFails, Conflict, UnchangedByVisit
<1>2. Pending /\ at <= Len(watches[P]) /\ pc = "propagate"
  BY <1>1 DEF Reading, Pending
<1>3. /\ Turned \in Seq(UsedLits) /\ DistinctVars(Turned) /\ Len(Turned) = Len(C.lits)
  BY <1>1, TurnedIs
<1>4. clauses'[id] = With(C, Turned) /\ With(C, Turned).kind = C.kind
      /\ C.kind # "single"
  BY <1>1, <1>2, <1>3, ReorderIs, TurnedIs
<1>5. Guarded(C, trail, Handled(id), {})
  BY <1>2, NothingOdd DEF IsGuarded, C
<1>6. Guarded(With(C, Turned), trail, Handled(id), {})
  BY <1>1, <1>5, TurnedGuarded
<1>7. Handled(id)' \subseteq Handled(id)
  BY <1>1, <1>2, ConflictHandles
<1>8. Carries(trail, trail', Handled(id)')
  BY <1>1, CarriesSame
<1> DEFINE c == With(C, Turned)
<1>9. c.kind # "single"
  BY <1>4
<1> HIDE DEF c
<1>10. Guarded(c, trail', Handled(id)', Odd(id)')
  BY <1>6, <1>7, <1>8, <1>9, GuardedCarried DEF c
<1> QED
  BY <1>4, <1>10 DEF IsGuarded, c

(* The single set being read: which literals of it are false. *)
LEMMA OnlyThisFalse ==
  ASSUME PlainTypes, TrailInv, ListsInv, Reading(TRUE), Second = {}
  PROVE  \A l \in Elements(C.lits) : IsFalse(l) => l = Neg(P)
BY DEF Second, Elements

LEMMA SettlesStays ==
  ASSUME PlainTypes, CallsTyped, TrailInv, ListsInv, QueueInv, Fine, VisitSettles,
         Prefix(trail, trail'), TrailInv', next' \in Nat, next <= next', used' = used,
         Len(trail') \in Nat, DOMAIN trail' = 1 .. Len(trail'),
         NEW id, id = Id, IsGuarded(id)
  PROVE  IsGuarded(id)'
<1>1. /\ Reading(TRUE) /\ Len(lim) = 0 /\ Second = {} /\ Keep /\ clauses' = clauses
      /\ EnqueueAll(Chosen(C.lits, OpenOnes), Id)
  BY DEF VisitSettles, CurrentLevel
<1>2. Pending /\ at <= Len(watches[P]) /\ pc = "propagate" /\ C.kind = "single"
  BY <1>1 DEF Reading, Pending
<1>3. /\ Handled(id)' \subseteq DOMAIN trail
  BY <1>1, <1>2, KeepHandles
<1>4. Clean(C, used) /\ used \in SUBSET Vars /\ P \in UsedLits
  BY <1>2, ReadingIs
<1>5. /\ C.lits \in Seq(UsedLits) /\ Len(C.lits) \in Nat /\ Len(C.lits) > 2
      /\ DOMAIN C.lits = 1 .. Len(C.lits) /\ DistinctVars(C.lits)
  BY <1>2, <1>4, SingleIs
<1> DEFINE last == Len(C.lits)
<1>6. last \in DOMAIN C.lits /\ \A k \in 1 .. last - 1 : k \in DOMAIN C.lits /\ k # last
  BY <1>5
<1> HIDE DEF last
<1>7. \A j \in Handled(id)' : trail'[j] = trail[j]
  BY <1>3 DEF Prefix
<1>8. \A k \in DOMAIN C.lits : \A j \in Handled(id)' : trail'[j].lit = Neg(C.lits[k]) =>
        C.lits[k] = Neg(P)
  <2> SUFFICES ASSUME NEW k \in DOMAIN C.lits, NEW j \in Handled(id)',
                      trail'[j].lit = Neg(C.lits[k])
               PROVE  C.lits[k] = Neg(P)
    OBVIOUS
  <2>1. IsFalse(C.lits[k])
    BY <1>3, <1>7 DEF IsFalse, IsTrue
  <2> QED
    BY <1>1, <2>1 DEF Second
<1>9. \A k, m \in DOMAIN C.lits : C.lits[k] = C.lits[m] => k = m
  BY <1>5 DEF DistinctVars
<1>10. ASSUME NEW k \in DOMAIN C.lits, C.lits[k] = Neg(P), k # last
       PROVE  \E i \in DOMAIN trail' : trail'[i].lit = C.lits[last]
  <2>1. ~ IsFalse(C.lits[last])
    BY <1>1, <1>6, <1>9, <1>10 DEF Second
  <2>2. CASE IsTrue(C.lits[last])
    BY <2>2 DEF IsTrue, Prefix
  <2>3. CASE ~ IsTrue(C.lits[last])
    <3>1. last \in OpenOnes
      BY <1>6, <2>1, <2>3 DEF OpenOnes, IsOpen
    <3> DEFINE q == Chosen(C.lits, OpenOnes)
    <3>2. OpenOnes \in SUBSET DOMAIN C.lits
      BY DEF OpenOnes
    <3>3. PICK n \in DOMAIN q : q[n] = C.lits[last]
      BY <1>5, <3>1, <3>2, ChosenIs
    <3>4. trail' = trail \o Entries(q, Id)
      BY <1>1 DEF EnqueueAll
    <3>5. /\ q \in Seq(UsedLits) /\ trail \in Seq(EntryTypes(used, next))
      BY <1>5, <3>2, ChosenIs, StateIs
    <3> HIDE DEF q
    <3>6. /\ DOMAIN Entries(q, Id) = DOMAIN q /\ Entries(q, Id)[n].lit = q[n]
      BY DEF Entries, Entry
    <3> DEFINE e == Entries(q, Id)
    <3>7. e \in Seq({e[m] : m \in DOMAIN e}) /\ Len(e) = Len(q)
      <4>1. DOMAIN q = 1 .. Len(q) /\ Len(q) \in Nat
        BY <3>5
      <4>2. DOMAIN e = 1 .. Len(q) /\ e = [m \in 1 .. Len(q) |-> e[m]]
        BY <3>6, <4>1 DEF Entries
      <4> QED
        BY <4>1, <4>2
    <3> DEFINE Y == {e[m] : m \in DOMAIN e}
    <3>8. e \in Seq(Y)
      BY <3>7
    <3>9. e[n].lit = q[n] /\ n \in 1 .. Len(e)
      BY <3>5, <3>6, <3>7
    <3> HIDE DEF e, Y
    <3>10. /\ DOMAIN trail' = 1 .. Len(trail) + Len(e)
           /\ trail'[Len(trail) + n] = e[n]
      <4>1. /\ trail' = trail \o e /\ trail \in Seq(EntryTypes(used, next)) /\ e \in Seq(Y)
        BY <3>4, <3>5, <3>8 DEF e
      <4> DEFINE c == trail'
      <4>2. c = trail \o e
        BY <4>1
      <4> HIDE DEF c
      <4>3. /\ DOMAIN c = 1 .. Len(trail) + Len(e)
            /\ \A m \in 1 .. Len(e) : c[Len(trail) + m] = e[m]
        BY <4>1, <4>2, JoinedIs
      <4> QED
        BY <3>9, <4>3 DEF c
    <3>11. Len(trail) + n \in DOMAIN trail'
      <4>1. Len(trail) \in Nat /\ Len(e) \in Nat
        BY <3>5, <3>8
      <4> QED
        BY <3>9, <3>10, <4>1
    <3> QED
      BY <3>3, <3>9, <3>10, <3>11
  <2> QED
    BY <2>2, <2>3
<1>11. \A i \in DOMAIN trail' : trail'[i].level = 0
  <2>1. lim' = lim
    BY <1>1 DEF Keep, UnchangedByVisit
  <2>2. trail' \in Seq(EntryTypes(used, next')) /\ Levelled(trail', lim')
    <3>1. Sound(trail', lim', used', next')
      BY DEF TrailInv
    <3> QED
      BY <3>1 DEF Sound
  <2>3. \A i \in DOMAIN trail' : trail'[i].level \in Nat
    BY <2>2, EntryIs
  <2> QED
    BY <1>1, <2>1, <2>2, <2>3 DEF Levelled
<1>12. ASSUME NEW k \in 1 .. last - 1, NEW j \in Handled(id)',
              trail'[j].lit = Neg(C.lits[k])
       PROVE  /\ \A m \in 1 .. last - 1 : \A i \in Handled(id)' :
                   trail'[i].lit = Neg(C.lits[m]) => m = k
              /\ Under(trail', C.lits[last], j)
  <2>1. C.lits[k] = Neg(P) /\ k \in DOMAIN C.lits /\ k # last
    BY <1>6, <1>8, <1>12
  <2>2. \A m \in 1 .. last - 1 : \A i \in Handled(id)' :
          trail'[i].lit = Neg(C.lits[m]) => m = k
    BY <1>6, <1>8, <1>9, <2>1
  <2>3. PICK i \in DOMAIN trail' : trail'[i].lit = C.lits[last]
    BY <1>10, <2>1
  <2>4. j \in DOMAIN trail'
    BY DEF Handled
  <2>5. trail'[i].level <= trail'[j].level
    BY <1>11, <2>3, <2>4
  <2> QED
    BY <2>2, <2>3, <2>5 DEF Under
<1>13. clauses'[id] = C
  BY <1>1 DEF C
<1>14. Guarded(C, trail', Handled(id)', Odd(id)')
  BY <1>2, <1>12 DEF Guarded, LastOf, last
<1> QED
  BY <1>13, <1>14 DEF IsGuarded

LEMMA SwapsStays ==
  ASSUME PlainTypes, TrailInv, ListsInv, QueueInv, Fine, VisitSwaps,
         NEW id, id = Id
  PROVE  IsGuarded(id)'
<1> DEFINE q == Swap(Swap(C.lits, Here, 1), 1, Len(C.lits))
<1>1. /\ Reading(TRUE) /\ Second = {} /\ Reorder(q) /\ Moves(C.lits[Len(C.lits)])
      /\ Visits
  BY DEF VisitSwaps, Visits
<1>2. Pending /\ at <= Len(watches[P]) /\ C.kind = "single" /\ pc = "propagate"
  BY <1>1 DEF Reading, Pending
<1>3. /\ q \in Seq(UsedLits) /\ DistinctVars(q) /\ Len(q) = Len(C.lits)
      /\ Elements(q) = Elements(C.lits) /\ q[Len(q)] = Neg(P)
  BY <1>1, SwapsIs
<1> HIDE DEF q
<1>4. clauses'[id].lits = q /\ clauses'[id].kind = "single"
  BY <1>1, <1>2, <1>3, ReorderIs
<1>5. trail' = trail /\ at' = at /\ pc' = "propagate" /\ qhead' = qhead
  BY <1>1, <1>2 DEF Moves
<1>6. Handled(id)' \subseteq DOMAIN trail
  BY <1>1, <1>5, MoveHandles
<1>7. \A k \in 1 .. Len(q) - 1 : k \in DOMAIN q /\ Len(q) \in DOMAIN q /\ k # Len(q)
  BY <1>3
<1>8. ASSUME NEW k \in 1 .. Len(q) - 1, NEW j \in DOMAIN trail,
             trail[j].lit = Neg(q[k])
      PROVE  FALSE
  <2>1. q[k] \in Elements(C.lits) /\ IsFalse(q[k])
    BY <1>3, <1>7, <1>8 DEF Elements, IsFalse, IsTrue
  <2>2. q[k] = Neg(P)
    BY <1>1, <2>1, OnlyThisFalse
  <2> QED
    BY <1>3, <1>7, <2>2 DEF DistinctVars
<1>9. Guarded(clauses'[id], trail', Handled(id)', Odd(id)')
  BY <1>4, <1>5, <1>6, <1>8 DEF Guarded
<1> QED
  BY <1>9 DEF IsGuarded

(* A clash leaves the second false literal, for the clause that is learnt  *)
(* or for the slip.                                                        *)
LEMMA ClashesStays ==
  ASSUME PlainTypes, TrailInv, ListsInv, QueueInv, Fine, VisitClashes, Fine',
         Len(trail') \in Nat, DOMAIN trail' = 1 .. Len(trail'),
         NEW id, id = Id
  PROVE  IsGuarded(id)'
<1> DEFINE k == Least(Second)
           front == IF k > Here THEN Swap(C.lits, Here, 1) ELSE C.lits
           second == Swap(front, k, 2)
           pair == Swap(second, IndexOf(second, Neg(P)), 1)
           q == Swap(pair, 1, Len(pair))
<1>1. /\ Reading(TRUE) /\ Len(lim) > 0 /\ Second # {} /\ Reorder(q) /\ trail' = trail
      /\ Conflict(SubSeq(pair, 1, 2))
      /\ ExposedIf(\E i \in 3 .. Len(pair) : Stale(pair[i]))
  BY DEF VisitClashes, CurrentLevel
<1>2. Pending /\ at <= Len(watches[P]) /\ C.kind = "single" /\ Len(lim) \in Nat
  <2>1. Len(lim) \in Nat
    BY StateIs
  <2> QED
    BY <1>1, <2>1 DEF Reading
<1>3. /\ pair \in Seq(UsedLits) /\ DistinctVars(pair) /\ Len(pair) = Len(C.lits)
      /\ pair[1] = Neg(P)
      /\ q \in Seq(UsedLits) /\ DistinctVars(q) /\ Len(q) = Len(C.lits)
      /\ q[Len(q)] = Neg(P)
  BY <1>1, ClashIs
<1>4. Len(C.lits) \in Nat /\ Len(C.lits) > 2
  BY <1>1, HereIs
<1> HIDE DEF pair
<1> DEFINE last == Len(C.lits)
<1>5. last \in Nat /\ last > 2 /\ Len(pair) = last /\ Len(q) = last
      /\ DOMAIN pair = 1 .. last /\ DOMAIN q = 1 .. last
  BY <1>3, <1>4
<1> HIDE DEF last
<1>6. \A m \in 1 .. last - 1 : m # 2 => \E i \in 3 .. last : q[m] = pair[i]
  <2>1. 1 \in DOMAIN pair /\ last \in DOMAIN pair /\ 1 # last
    BY <1>5
  <2>2. q = Swap(pair, 1, last)
    BY <1>5
  <2>3. /\ q[1] = pair[last]
        /\ \A m \in DOMAIN pair : m # 1 /\ m # last => q[m] = pair[m]
    BY <1>3, <2>1, <2>2, Swapped
  <2> HIDE DEF q
  <2> SUFFICES ASSUME NEW m \in 1 .. last - 1, m # 2
               PROVE  \E i \in 3 .. last : q[m] = pair[i]
    OBVIOUS
  <2>4. CASE m = 1
    <3>1. last \in 3 .. last
      BY <1>5
    <3> QED
      BY <2>3, <2>4, <3>1
  <2>5. CASE m # 1
    <3>1. m \in 3 .. last /\ m \in DOMAIN pair /\ m # last
      BY <1>5, <2>5
    <3> QED
      BY <2>3, <2>5, <3>1
  <2> QED
    BY <2>4, <2>5
<1>7. q[2] = pair[2]
  <2>1. 1 \in DOMAIN pair /\ last \in DOMAIN pair /\ 2 \in DOMAIN pair /\ 2 # last
    BY <1>5
  <2>2. q = Swap(pair, 1, last)
    BY <1>5
  <2> QED
    BY <1>3, <2>1, <2>2, Swapped
<1> HIDE DEF q
<1>8. clauses'[id].lits = q /\ clauses'[id].kind = "single"
  BY <1>1, <1>2, <1>3, ReorderIs
<1>9. /\ pc' = "conflict" /\ lim' = lim
      /\ work' = [NoWork EXCEPT !.clause = SubSeq(pair, 1, 2), !.id = Id,
                                !.index = Len(trail')]
  BY <1>1 DEF Conflict, UnchangedByVisit
<1>10. /\ \A j \in Handled(id)' : j \in DOMAIN trail /\ trail[j].level < Len(lim)
  BY <1>1, <1>2, <1>9, ConflictHandles
<1>11. /\ work'.clause = SubSeq(pair, 1, 2) /\ work'.id = id /\ work'.index = Len(trail')
       /\ work'.seen = {} /\ work'.out = << >>
  BY <1>9 DEF NoWork
<1>12. /\ Len(SubSeq(pair, 1, 2)) = 2 /\ SubSeq(pair, 1, 2)[1] = pair[1]
       /\ SubSeq(pair, 1, 2)[2] = pair[2]
  BY <1>3, <1>5
<1>13. Odd(id)' = {pair[2]}
  <2>1. /\ qhead + 1 \in DOMAIN trail /\ trail[qhead + 1].level = Len(lim)
        /\ trail[qhead + 1].lit = P /\ Neg(Neg(P)) = P
    BY <1>2, PresentLevel DEF P
  <2>2. LastOf(clauses'[id]) = Neg(P)
    BY <1>3, <1>8 DEF LastOf
  <2>3. qhead + 1 <= Len(trail')
    BY <1>1, <2>1
  <2>4. \E i \in DOMAIN trail' : trail'[i].lit = Neg(work'.clause[1])
                                 /\ trail'[i].level = Len(lim') /\ i <= work'.index
    BY <1>1, <1>3, <1>9, <1>11, <1>12, <2>1, <2>3
  <2>5. OddOne(id)'
    BY <1>1, <1>3, <1>9, <1>11, <1>12, <2>2, <2>4 DEF OddOne
  <2> QED
    BY <1>11, <1>12, <2>5 DEF Odd
<1>14. \A i \in 3 .. last : ~ Stale(pair[i])
  <2>1. "exposed" \notin slips'
    BY DEF Fine
  <2> QED
    BY <1>1, <1>5, <2>1 DEF ExposedIf
<1>15. ASSUME NEW m \in 1 .. last - 1, NEW j \in Handled(id)',
              trail'[j].lit = Neg(q[m])
       PROVE  m = 2
  <2> SUFFICES ASSUME m # 2 PROVE FALSE
    OBVIOUS
  <2>1. PICK i \in 3 .. last : q[m] = pair[i]
    BY <1>6
  <2>2. i \in DOMAIN pair
    BY <1>5
  <2>3. pair[i] \in UsedLits
    BY <1>3, <2>2
  <2>4. j \in DOMAIN trail /\ trail[j].lit = Neg(pair[i]) /\ trail[j].level < Len(lim)
    BY <1>1, <1>10, <1>15, <2>1
  <2>5. trail[j].lit[1] = pair[i][1]
    BY <2>3, <2>4, StateIs, NumberedOne
  <2>6. Level(pair[i][1]) = trail[j].level
    <3>1. OneEach(trail)
      BY StateIs
    <3> QED
      BY <2>4, <2>5, <3>1, PlaceIs
  <2>7. Stale(pair[i])
    BY <2>4, <2>6 DEF Stale, IsFalse, IsTrue, CurrentLevel
  <2> QED
    BY <1>14, <2>7
<1>16. Guarded(clauses'[id], trail', Handled(id)', Odd(id)')
  <2>1. \A m \in 1 .. last - 1 : \A j \in Handled(id)' : trail'[j].lit = Neg(q[m]) =>
          /\ \A h \in 1 .. last - 1 : \A i \in Handled(id)' :
               trail'[i].lit = Neg(q[h]) => h = m
          /\ q[m] \in Odd(id)'
    BY <1>7, <1>13, <1>15
  <2> QED
    BY <1>5, <1>8, <2>1 DEF Guarded
<1> QED
  BY <1>16 DEF IsGuarded

LEMMA VisitedStays ==
  ASSUME PlainTypes, CallsTyped, TrailInv, ListsInv, CallInv, WorkInv, QueueInv, Fine,
         Next, Visits, pc' = "conflict" => Len(lim') > 0, Fine', TrailInv',
         NEW id, id = Id, IsGuarded(id)
  PROVE  IsGuarded(id)'
<1>1. /\ Prefix(trail, trail') /\ lim' = lim
      /\ Len(trail') \in Nat /\ DOMAIN trail' = 1 .. Len(trail')
  BY VisitsGrow
<1>2. used' = used /\ next' \in Nat /\ next <= next'
  BY FlatStep, NextGrows
<1>3. Len(lim) \in Nat /\ Len(trail) \in Nat /\ DOMAIN trail = 1 .. Len(trail)
      /\ \A i \in DOMAIN trail : trail[i].level \in 0 .. Len(lim)
  BY StateIs
<1>4. CASE VisitTrue
  <2>1. Reading(FALSE) /\ Reorder(Turned) /\ Keep /\ trail' = trail /\ IsTrue(Turned[1])
    BY <1>4 DEF VisitTrue
  <2>2. PICK i \in DOMAIN trail : trail[i].lit = Turned[1]
    BY <2>1 DEF IsTrue
  <2>3. i \in DOMAIN trail' /\ trail'[i].lit = Turned[1] /\ trail'[i].level <= Len(lim)
    BY <1>3, <2>1, <2>2
  <2> QED
    BY <1>1, <2>1, <2>3, TurnStays
<1>5. CASE VisitForces
  <2>1. Reading(FALSE) /\ Reorder(Turned) /\ Keep /\ Enqueue(Turned[1], Id)
    BY <1>5 DEF VisitForces
  <2>2. trail' = Append(trail, Entry(Turned[1], Id, Len(lim)))
    BY <2>1 DEF Enqueue, CurrentLevel
  <2> DEFINE e == Entry(Turned[1], Id, Len(lim))
             i == Len(trail) + 1
  <2>3. e.lit = Turned[1] /\ e.level = Len(lim)
    BY DEF Entry
  <2> HIDE DEF e
  <2>4. trail' = Append(trail, e)
    BY <2>2 DEF e
  <2>5. trail \in Seq(EntryTypes(used, next))
    BY StateIs
  <2>6. i \in DOMAIN trail' /\ trail'[i] = e
    BY <1>3, <2>4, <2>5
  <2>7. trail'[i].lit = Turned[1] /\ trail'[i].level <= Len(lim)
    BY <1>3, <2>3, <2>6
  <2> HIDE DEF i
  <2> QED
    BY <1>1, <2>1, <2>6, <2>7, TurnStays
<1>6. CASE VisitMoves
  BY <1>6, MovesStays
<1>7. CASE VisitFails
  <2>1. Len(lim) > 0
    BY <1>1, <1>7 DEF VisitFails, Conflict
  <2> QED
    BY <1>1, <1>7, <2>1, FailsStays
<1>8. CASE VisitSettles
  BY <1>1, <1>2, <1>8, SettlesStays
<1>9. CASE VisitRefutes
  BY <1>1, <1>3, <1>9 DEF VisitRefutes, Conflict, CurrentLevel
<1>10. CASE VisitSwaps
  BY <1>10, SwapsStays
<1>11. CASE VisitClashes
  BY <1>1, <1>11, ClashesStays
<1> QED
  BY <1>4, <1>5, <1>6, <1>7, <1>8, <1>9, <1>10, <1>11 DEF Visits

LEMMA GuardStep ==
  ASSUME PlainTypes, CallsTyped, TrailInv, ListsInv, EachListed, CallInv, WorkInv,
         NoLevel, QueueInv, GuardInv, Next
  PROVE  GuardInv'
<1> SUFFICES ASSUME Fine', pc' = "conflict" => Len(lim') > 0, NEW id \in DOMAIN clauses'
             PROVE  IsGuarded(id)'
  BY DEF GuardInv
<1>1. Fine /\ ok = TRUE
  BY AllFine
<1>2. /\ TrailInv' /\ Len(trail') \in Nat /\ ListsInv'
  BY TrailStep, ListsStep
<1>3. DOMAIN trail' = 1 .. Len(trail')
  <2>1. Sound(trail', lim', used', next')
    BY <1>2 DEF TrailInv
  <2>2. trail' \in Seq(EntryTypes(used', next'))
    BY <2>1 DEF Sound
  <2> QED
    BY <2>2
<1>4. pc = "conflict" => Len(lim) > 0
  <2> SUFFICES ASSUME pc = "conflict", Len(lim) = 0 PROVE FALSE
    <3>1. Len(lim) \in Nat
      BY StateIs
    <3> QED
      BY <3>1
  <2>1. ~ AllStays /\ ~ AllGuesses /\ ~ AddsSome
    BY StaysOn, GuessesOn, AddsOn DEF Onward
  <2>2. ~ AllBacks
    BY CancelsBack, StateIs DEF Backs
  <2>3. ~ Learns /\ ~ AssertFails
    BY LearnBacks, DenyBacks
  <2>4. ~ Visits /\ ~ NextWatchList
    BY VisitsGrow DEF Pending
  <2>5. ~ Resolve /\ ~ AssertSucceeds
    BY DEF Resolve, Analyzing, CurrentLevel, AssertSucceeds, Quiet
  <2>6. ~ (AddRefutes \/ AttemptRefutes \/ SearchRefutes \/ RefutesTooLate)
    BY NoMoreFine
  <2> QED
    BY <2>1, <2>2, <2>3, <2>4, <2>5, <2>6, KindsOfSteps
<1>5. \A i \in DOMAIN clauses : IsGuarded(i)
  BY <1>1, <1>4 DEF GuardInv
<1>6. Len(lim') > 0 \/ pc' # "conflict"
  OBVIOUS
<1>7. CASE Visits /\ id = Id /\ id \in DOMAIN clauses
  BY <1>1, <1>2, <1>5, <1>7, VisitedStays
<1>8. CASE /\ AddsSome /\ id \notin DOMAIN clauses
           /\ \A k \in DOMAIN clauses'[id].lits : IsOpen(clauses'[id].lits[k])
  <2>1. Onward
    BY <1>8, AddsOn
  <2>2. Clean(clauses'[id], used')
    BY <1>2 DEF ListsInv, ClausesOf
  <2>3. used' \in SUBSET Vars
    BY FlatStep, StateIs
  <2> QED
    BY <1>2, <1>3, <1>8, <2>1, <2>2, <2>3, NewStays
<1>9. CASE /\ Learns /\ Kept # << >> /\ id = next
           /\ clauses'[id] = [lits |-> LearntClause, kind |-> "learnt"]
  BY <1>2, <1>9, LearntStays
<1>10. CASE id \in DOMAIN clauses /\ clauses'[id] = clauses[id]
            /\ ~ (Visits /\ id = Id)
  <2>1. IsGuarded(id)
    BY <1>5, <1>10
  <2>2. CASE AllStays \/ AllGuesses \/ AddsSome
    <3>1. Onward
      BY <2>2, StaysOn, GuessesOn, AddsOn
    <3> QED
      BY <1>2, <1>3, <1>10, <2>1, <3>1, OnStays
  <2>3. CASE AllBacks \/ AssertFails
    BY <1>1, <1>2, <1>3, <1>10, <2>1, <2>3, GivenUpStays
  <2>4. CASE Learns
    BY <1>1, <1>2, <1>3, <1>10, <2>1, <2>4, LearnStays
  <2>5. CASE AssertSucceeds
    BY <1>10, <2>1, <2>5, AssertStays
  <2>6. CASE NextWatchList
    BY <1>1, <1>10, <2>1, <2>6, ListStays
  <2>7. CASE Visits
    BY <1>1, <1>10, <2>1, <2>7, OtherStays
  <2>8. CASE Resolve
    BY <1>10, <2>1, <2>8, ResolveStays
  <2>9. CASE AddRefutes \/ AttemptRefutes \/ SearchRefutes \/ RefutesTooLate
    BY <2>9, NoMoreFine
  <2> QED
    BY <2>2, <2>3, <2>4, <2>5, <2>6, <2>7, <2>8, <2>9, KindsOfSteps
<1> QED
  BY <1>7, <1>8, <1>9, <1>10, ClausesChange

---------------------------------------------------------------------------
(* Nothing is missed.                                                      *)

LEMMA NeverBoth ==
  ASSUME PlainTypes, TrailInv, NEW l \in UsedLits, NEW j \in DOMAIN trail,
         Under(trail, l, j), NEW i \in DOMAIN trail, trail[i].lit = Neg(l)
  PROVE  FALSE
<1>1. PICK h \in DOMAIN trail : trail[h].lit = l
  BY DEF Under
<1>2. Neg(l)[1] = l[1] /\ Neg(l) # l /\ OneEach(trail)
  BY StateIs, NumberedOne
<1> QED
  BY <1>1, <1>2 DEF OneEach

LEMMA DoneGuards ==
  ASSUME pc # "conflict", qhead = Len(trail), Fine, GuardInv, NEW id \in DOMAIN clauses
  PROVE  Guarded(clauses[id], trail, {j \in DOMAIN trail : j <= Len(trail)}, {})
<1>1. IsGuarded(id)
  BY DEF GuardInv
<1>2. Odd(id) = {}
  BY NothingOdd
<1>3. Handled(id) = {j \in DOMAIN trail : j <= Len(trail)}
  BY DEF Handled, DoneUpTo, Pending
<1> QED
  BY <1>1, <1>2, <1>3 DEF IsGuarded

(* Guarded with all the trail handled. *)
LEMMA GuardedMisses ==
  ASSUME PlainTypes, TrailInv, NEW c, Clean(c, used),
         Guarded(c, trail, {j \in DOMAIN trail : j <= Len(trail)}, {})
  PROVE  /\ c.kind = "single" =>
              \A l, m \in Elements(c.lits) : IsFalse(l) /\ IsFalse(m) => l = m
         /\ c.kind # "single" =>
              /\ c.lits[1] # c.lits[2]
              /\ c.lits[1] \in Elements(c.lits) /\ c.lits[2] \in Elements(c.lits)
              /\ IsFalse(c.lits[1]) => IsTrue(c.lits[2]) /\ ~ IsFalse(c.lits[2])
              /\ IsFalse(c.lits[2]) => IsTrue(c.lits[1]) /\ ~ IsFalse(c.lits[1])
<1>1. /\ c.lits \in Seq(UsedLits) /\ Len(c.lits) \in Nat \ {0, 1}
      /\ DOMAIN c.lits = 1 .. Len(c.lits) /\ DistinctVars(c.lits)
  BY StateIs, WatchedIs DEF UsedLits
<1> DEFINE n == Len(c.lits)
           H == {j \in DOMAIN trail : j <= Len(trail)}
<1>2. n \in Nat \ {0, 1}
  BY ONLY <1>1
<1>3. \A k \in DOMAIN c.lits : c.lits[k] \in UsedLits
  BY <1>1
<1>4. H = DOMAIN trail
  <2>1. DOMAIN trail = 1 .. Len(trail) /\ Len(trail) \in Nat
    BY StateIs
  <2> QED
    BY <2>1
<1>5. DOMAIN c.lits = 1 .. n
  BY <1>1
<1> HIDE DEF n
<1>6. 1 \in DOMAIN c.lits /\ 2 \in DOMAIN c.lits
      /\ \A k \in DOMAIN c.lits : k \in 1 .. n - 1 \/ k = n
  BY <1>2, <1>5
<1> HIDE DEF H
<1>7. ASSUME c.kind = "single", NEW k \in DOMAIN c.lits, NEW h \in DOMAIN c.lits,
             IsFalse(c.lits[k]), IsFalse(c.lits[h]), k \in 1 .. n - 1
      PROVE  k = h
  <2>1. PICK j \in DOMAIN trail : trail[j].lit = Neg(c.lits[k])
    BY <1>7 DEF IsFalse, IsTrue
  <2>2. PICK i \in DOMAIN trail : trail[i].lit = Neg(c.lits[h])
    BY <1>7 DEF IsFalse, IsTrue
  <2>3. /\ \A m \in 1 .. n - 1 : \A g \in H : trail[g].lit = Neg(c.lits[m]) => m = k
        /\ Under(trail, c.lits[n], j)
    BY <1>4, <1>7, <2>1 DEF Guarded, LastOf, n, H
  <2>4. CASE h \in 1 .. n - 1
    BY <1>4, <2>2, <2>3, <2>4
  <2>5. CASE h = n
    BY <1>3, <2>2, <2>3, <2>5, NeverBoth
  <2> QED
    BY <1>6, <2>4, <2>5
<1>8. CASE c.kind = "single"
  <2> SUFFICES ASSUME NEW k \in DOMAIN c.lits, NEW h \in DOMAIN c.lits,
                      IsFalse(c.lits[k]), IsFalse(c.lits[h])
               PROVE  k = h
    BY <1>8 DEF Elements
  <2> QED
    BY <1>6, <1>7, <1>8
<1>9. CASE c.kind # "single"
  <2>1. c.lits[1] # c.lits[2]
    BY <1>1, <1>6 DEF DistinctVars
  <2>2. \A j \in DOMAIN trail :
          /\ trail[j].lit = Neg(c.lits[1]) => Under(trail, c.lits[2], j)
          /\ trail[j].lit = Neg(c.lits[2]) => Under(trail, c.lits[1], j)
    BY <1>4, <1>9 DEF Guarded, H
  <2>3. ASSUME IsFalse(c.lits[1]) PROVE IsTrue(c.lits[2]) /\ ~ IsFalse(c.lits[2])
    <3>1. PICK j \in DOMAIN trail : trail[j].lit = Neg(c.lits[1])
      BY <2>3 DEF IsFalse, IsTrue
    <3>2. Under(trail, c.lits[2], j)
      BY <2>2, <3>1
    <3>3. ~ IsFalse(c.lits[2])
      BY <1>3, <1>6, <3>2, NeverBoth DEF IsFalse, IsTrue
    <3> QED
      BY <3>2, <3>3 DEF Under, IsTrue
  <2>4. ASSUME IsFalse(c.lits[2]) PROVE IsTrue(c.lits[1]) /\ ~ IsFalse(c.lits[1])
    <3>1. PICK j \in DOMAIN trail : trail[j].lit = Neg(c.lits[2])
      BY <2>4 DEF IsFalse, IsTrue
    <3>2. Under(trail, c.lits[1], j)
      BY <2>2, <3>1
    <3>3. ~ IsFalse(c.lits[1])
      BY <1>3, <1>6, <3>2, NeverBoth DEF IsFalse, IsTrue
    <3> QED
      BY <3>2, <3>3 DEF Under, IsTrue
  <2> QED
    BY <1>6, <1>9, <2>1, <2>3, <2>4 DEF Elements
<1> QED
  BY <1>8, <1>9

LEMMA GuardMisses ==
  ASSUME PlainTypes, TrailInv, ListsInv, GuardInv
  PROVE  NothingMissed
<1> SUFFICES ASSUME Quiet, ok, slips = {}, NEW i \in DOMAIN clauses
             PROVE  LET c == clauses[i]
                        left == Range(c.lits) \ FalseOf(c)
                    IN  IF c.kind = "single" THEN Cardinality(FalseOf(c)) <= 1
                        ELSE /\ left # {}
                             /\ Cardinality(left) = 1 => \A l \in left : IsTrue(l)
  BY DEF NothingMissed
<1> DEFINE c == clauses[i]
           left == Range(c.lits) \ FalseOf(c)
<1>1. Clean(c, used)
  BY DEF ListsInv, ClausesOf
<1>2. Guarded(c, trail, {j \in DOMAIN trail : j <= Len(trail)}, {})
  BY DoneGuards DEF Fine, Quiet
<1>3. c.lits \in Seq(UsedLits)
  BY <1>1, StateIs, WatchedIs DEF UsedLits
<1>4. Range(c.lits) = Elements(c.lits)
  BY DEF Range, Elements
<1>5. IsFiniteSet(Range(c.lits))
  BY <1>3, RangeFinite
<1> HIDE DEF c
<1> DEFINE One == Cardinality(FalseOf(c)) <= 1
           Left == left # {} /\ (Cardinality(left) = 1 => \A l \in left : IsTrue(l))
<1>6. ASSUME c.kind = "single" PROVE One
  <2>1. \A l, m \in FalseOf(c) : l = m
    BY <1>1, <1>2, <1>4, <1>6, GuardedMisses DEF FalseOf
  <2>2. Cardinality(FalseOf(c)) = 0 \/ Cardinality(FalseOf(c)) = 1
    <3>1. CASE FalseOf(c) = {}
      BY <3>1, FS_EmptySet
    <3>2. CASE FalseOf(c) # {}
      <4>1. PICK x \in FalseOf(c) : TRUE
        BY <3>2
      <4>2. FalseOf(c) = {x}
        BY <2>1, <4>1
      <4> QED
        BY <4>2, FS_Singleton
    <3> QED
      BY <3>1, <3>2
  <2> QED
    BY ONLY <2>2
<1>7. ASSUME c.kind # "single" PROVE Left
  <2>1. /\ c.lits[1] # c.lits[2]
        /\ c.lits[1] \in Elements(c.lits) /\ c.lits[2] \in Elements(c.lits)
        /\ IsFalse(c.lits[1]) => IsTrue(c.lits[2]) /\ ~ IsFalse(c.lits[2])
        /\ IsFalse(c.lits[2]) => IsTrue(c.lits[1]) /\ ~ IsFalse(c.lits[1])
    BY <1>1, <1>2, <1>7, GuardedMisses
  <2>2. /\ c.lits[1] \in left \/ IsFalse(c.lits[1])
        /\ c.lits[2] \in left \/ IsFalse(c.lits[2])
    BY <1>4, <2>1 DEF FalseOf
  <2>3. \A l \in left : ~ IsFalse(l)
    BY DEF FalseOf
  <2>4. left # {}
    BY <2>1, <2>2
  <2>5. ASSUME Cardinality(left) = 1 PROVE \A l \in left : IsTrue(l)
    <3>1. IsFiniteSet(left)
      <4>1. left \in SUBSET Range(c.lits)
        OBVIOUS
      <4> QED
        BY <1>5, <4>1, FS_Subset
    <3> HIDE DEF left
    <3>2. PICK x : left = {x}
      BY <2>5, <3>1, FS_Singleton
    <3>3. CASE IsFalse(c.lits[1])
      BY <2>1, <2>2, <3>2, <3>3
    <3>4. CASE IsFalse(c.lits[2])
      BY <2>1, <2>2, <3>2, <3>4
    <3>5. IsFalse(c.lits[1]) \/ IsFalse(c.lits[2])
      BY <2>1, <2>2, <3>2
    <3> QED
      BY <3>3, <3>4, <3>5
  <2> QED
    BY ONLY <2>4, <2>5
<1>8. IF c.kind = "single" THEN One ELSE Left
  <2> HIDE DEF One, Left
  <2> QED
    BY <1>6, <1>7
<1> QED
  BY ONLY <1>8 DEF c

---------------------------------------------------------------------------
(* The invariant with what propagation has done and what the queue holds.  *)
CInv == MInv /\ QueueInv /\ GuardInv

LEMMA InitCInv ==
  ASSUME Init
  PROVE  CInv
<1>1. QueueInv /\ GuardInv
  BY DEF Init, QueueInv, GuardInv
<1> QED
  BY <1>1, InitMInv DEF CInv

LEMMA NextCInv ==
  ASSUME CInv, [Next]_vars
  PROVE  CInv'
<1>1. MInv'
  BY NextMInv DEF CInv
<1>2. CASE Next
  <2>1. QueueInv' /\ GuardInv'
    BY <1>2, QueueStep, GuardStep DEF CInv, MInv, IInv
  <2> QED
    BY <1>1, <2>1 DEF CInv
<1>3. CASE UNCHANGED vars
  <2>1. /\ UNCHANGED <<ok, clauses, watches, trail, lim, qhead, at, pc>>
        /\ UNCHANGED <<work, slips>>
    BY <1>3 DEF vars, database, assignment
  <2>2. QueueInv'
    BY <2>1 DEF CInv, QueueInv, Fine, Pending
  <2>3. GuardInv'
    BY <2>1 DEF CInv, GuardInv, Fine, IsGuarded, Guarded, Under, LastOf, Handled,
                DoneUpTo, Pending, P, Odd, OddOne
  <2> QED
    BY <1>1, <2>2, <2>3 DEF CInv
<1> QED
  BY <1>2, <1>3

(* Solver.cpp's two watched literals, its single sets that watch all but    *)
(* one, and the order in which propagate takes the trail: the queue holds   *)
(* the present level only, and where a false literal has had its turn the   *)
(* clause is made safe by one that stays true as long.                      *)
THEOREM SolverGuards == Spec => []CInv
<1>1. Init => CInv
  BY InitCInv
<1>2. CInv /\ [Next]_vars => CInv'
  BY NextCInv
<1> QED
  BY <1>1, <1>2, PTL DEF Spec

(* When propagate comes to its end without a conflict there is none, and   *)
(* no clause has a single literal left that is not true, whatever was       *)
(* learnt, deleted, moved between the lists and taken back before.          *)
THEOREM SolverMisses == Spec => []NothingMissed
<1>1. CInv => NothingMissed
  BY GuardMisses DEF CInv, MInv, IInv
<1> QED
  BY <1>1, SolverGuards, PTL


---------------------------------------------------------------------------
(* What simplifying and deleting leave.                                    *)

(* An assignment that the facts and the clauses allow, learnt ones aside,  *)
(* is a model of what was given.                                           *)
Admits(a, cl, t) ==
  /\ \A i \in DOMAIN cl : cl[i].kind # "learnt" => Obeys(a, cl[i])
  /\ FactsIn(a, t)
KeepsAll == Fine => \A a \in A!Assignments :
              Admits(a, clauses, trail) => a \in A!Models(given)

LEMMA ClausesSame ==
  ASSUME Next
  PROVE  clauses' = clauses \/ AddsSome \/ Learns \/ Visits \/ Reduce \/ Tidy
<1>1. CASE AllBacks \/ RefutesTooLate
  <2>1. UNCHANGED database
    BY <1>1 DEF AllBacks, Reset, PopCheck, GoesBack, CheckFails, UnchangedInAttempt,
                RefutesTooLate, Restart, RestartsTooLate, AssumeFalse,
                AssumesTooLate, ModelFound, FoundTooLate, Bail, UnchangedByAnswer
  <2> QED
    BY <2>1 DEF database
<1>2. CASE AllGuesses \/ AssertSucceeds \/ AssertFails
  BY <1>2 DEF AllGuesses, Attempt, AssumeOpen, Branch, Decide, AssertSucceeds,
              AssertFails, UnchangedInAttempt, database
<1>3. CASE NextWatchList \/ Resolve \/ AddRefutes \/ AttemptRefutes \/ SearchRefutes
  BY <1>3 DEF NextWatchList, Resolve, AddRefutes, AttemptRefutes, SearchRefutes,
              UnchangedInAttempt, UnchangedByAnswer, database
<1>4. CASE AllStays /\ ~ Reduce /\ ~ Tidy
  BY <1>4 DEF AllStays, AddFinished, LightSolve, AnswerKnown, TrySucceeds,
              Denied, CheckSucceeds, Ends, UnchangedInAttempt, Solve, Refused,
              UnchangedByAnswer, AssumeTrue, Returned, vars, database
<1> QED
  BY <1>1, <1>2, <1>3, <1>4, KindsOfSteps

LEMMA ReorderObeys ==
  ASSUME NEW a, NEW cl, NEW U, NEW id \in DOMAIN cl, cl[id] \in Clauses(U), NEW q,
         Elements(q) = Elements(cl[id].lits)
  PROVE  LET all == [cl EXCEPT ![id].lits = q]
         IN  /\ DOMAIN all = DOMAIN cl /\ \A i \in DOMAIN cl : i # id => all[i] = cl[i]
             /\ all[id].kind = cl[id].kind /\ (Obeys(a, all[id]) <=> Obeys(a, cl[id]))
<1> DEFINE c == cl[id]
           d == [c EXCEPT !.lits = q]
           all == [cl EXCEPT ![id].lits = q]
<1>1. d.lits = q /\ d.kind = c.kind
  BY DEF Clauses
<1>2. DOMAIN all = DOMAIN cl /\ all[id] = d /\ \A i \in DOMAIN cl : i # id => all[i] = cl[i]
  OBVIOUS
<1>3. Elements(d.lits) = Elements(c.lits)
  BY <1>1
<1> HIDE DEF d, c, all
<1>4. Obeys(a, d) <=> Obeys(a, c)
  BY <1>1, <1>3 DEF Obeys
<1>5. cl[id] = c
  BY DEF c
<1>6. all[id].kind = cl[id].kind /\ (Obeys(a, all[id]) <=> Obeys(a, cl[id]))
  BY <1>1, <1>2, <1>4, <1>5
<1> QED
  BY <1>2, <1>6 DEF all

(* Only simplifying drops a clause that was not learnt. *)
LEMMA ClauseStays ==
  ASSUME PlainTypes, CallsTyped, TrailInv, ListsInv, WorkInv, Next, NEW a,
         NEW id \in DOMAIN clauses, clauses[id].kind # "learnt"
  PROVE  \/ /\ id \in DOMAIN clauses' /\ clauses'[id].kind # "learnt"
            /\ Obeys(a, clauses'[id]) => Obeys(a, clauses[id])
         \/ Tidy /\ Quiet /\ CurrentLevel = 0 /\ Satisfied(clauses[id])
<1>1. CASE clauses' = clauses
  BY <1>1
<1>2. CASE AddsSome \/ Learns
  <2>1. Addition
    BY <1>2, ClauseAdds, SingleAdds, PairAdds, LearnAdds
       DEF AddsSome, Learns, SearchLearns, TryBacktracks, Adding
  <2> QED
    BY <2>1, AdditionExtends
<1>3. CASE Visits
  <2>1. CASE \E q : /\ Reorder(q) /\ Elements(q) = Elements(C.lits)
                    /\ Id \in DOMAIN clauses /\ C \in Clauses(used) /\ C = clauses[Id]
    <3>1. PICK q : /\ Reorder(q) /\ Elements(q) = Elements(C.lits)
                   /\ Id \in DOMAIN clauses /\ C \in Clauses(used) /\ C = clauses[Id]
      BY <2>1
    <3>2. clauses' = [clauses EXCEPT ![Id].lits = q]
      BY <3>1 DEF Reorder
    <3>3. /\ DOMAIN clauses' = DOMAIN clauses
          /\ \A i \in DOMAIN clauses : i # Id => clauses'[i] = clauses[i]
          /\ clauses'[Id].kind = clauses[Id].kind
          /\ Obeys(a, clauses'[Id]) <=> Obeys(a, clauses[Id])
      BY <3>1, <3>2, ReorderObeys
    <3> QED
      BY <3>3
  <2> QED
    BY <1>1, <1>3, <2>1, VisitsReorder
<1>4. CASE Reduce
  <2>1. PICK S \in SUBSET Removable : clauses' = [i \in DOMAIN clauses \ S |-> clauses[i]]
    BY <1>4 DEF Reduce, ReduceDB, Removed
  <2>2. id \notin S
    BY DEF Removable, Learnts
  <2> QED
    BY <2>1, <2>2
<1>5. CASE Tidy
  <2>1. \/ clauses' = clauses
        \/ clauses' = [i \in Staying |-> clauses[i]]
    BY <1>5 DEF Tidy, SimplifyAndCompact, Compact, database
  <2>2. Quiet /\ CurrentLevel = 0
    BY <1>5 DEF Tidy
  <2>3. CASE id \in Staying
    BY <1>1, <2>1, <2>3
  <2>4. CASE id \notin Staying
    BY <1>5, <2>2, <2>4 DEF Staying
  <2> QED
    BY <2>3, <2>4
<1> QED
  BY <1>1, <1>2, <1>3, <1>4, <1>5, ClausesSame

(* What is dropped is true of every assignment that has the facts: two     *)
(* literals of a single set cannot be false, for propagation would see it. *)
LEMMA SatisfiedObeys ==
  ASSUME PlainTypes, TrailInv, ListsInv, GuardInv, Fine, Quiet, Len(lim) = 0,
         NEW id \in DOMAIN clauses, Satisfied(clauses[id]),
         NEW a \in A!Assignments, FactsIn(a, trail)
  PROVE  Obeys(a, clauses[id])
<1> DEFINE c == clauses[id]
<1>1. \A i \in DOMAIN trail : A!Holds(a, trail[i].lit)
  BY AllFacts
<1>2. \A l : IsTrue(l) => A!Holds(a, l)
  BY <1>1 DEF IsTrue
<1>3. Clean(c, used)
  BY DEF ListsInv, ClausesOf
<1>4. Guarded(c, trail, {j \in DOMAIN trail : j <= Len(trail)}, {})
  BY DoneGuards DEF Quiet
<1>5. Satisfied(c)
  OBVIOUS
<1> HIDE DEF c
<1>6. c.lits \in Seq(UsedLits)
  BY <1>3, WatchedIs, StateIs DEF UsedLits
<1>7. Range(c.lits) = Elements(c.lits)
  BY <1>6 DEF Range, Elements
<1>8. ASSUME c.kind = "single" PROVE Obeys(a, c)
  <2>1. \A l, m \in Elements(c.lits) : IsFalse(l) /\ IsFalse(m) => l = m
    BY <1>3, <1>4, <1>8, GuardedMisses
  <2>2. \A l \in Elements(c.lits) : IsTrue(l) \/ IsFalse(l)
    BY <1>5, <1>7, <1>8 DEF Satisfied, IsOpen
  <2>3. ASSUME NEW l \in Elements(c.lits), NEW m \in Elements(c.lits), l # m
        PROVE  A!Holds(a, l) \/ A!Holds(a, m)
    <3>1. IsTrue(l) \/ IsTrue(m)
      BY <2>1, <2>2, <2>3
    <3> QED
      BY <1>2, <3>1
  <2> QED
    BY <1>8, <2>3 DEF Obeys
<1>9. ASSUME c.kind # "single" PROVE Obeys(a, c)
  <2>1. \E l \in Elements(c.lits) : IsTrue(l)
    BY <1>5, <1>7, <1>9 DEF Satisfied
  <2>2. \E l \in Elements(c.lits) : A!Holds(a, l)
    BY <1>2, <2>1
  <2> QED
    BY <1>9, <2>2 DEF Obeys
<1> QED
  BY <1>8, <1>9 DEF c

(* No fact is taken back. *)
LEMMA CutFacts ==
  ASSUME PlainTypes, TrailInv, NEW n \in Nat, NEW s, Prefix(TrailUpTo(n), s),
         NEW a, FactsIn(a, s)
  PROVE  FactsIn(a, trail)
<1>1. next \in Nat /\ next <= next /\ 0 \in Nat
  BY StateIs
<1>2. /\ Prefix(TrailUpTo(n), trail)
      /\ \A i \in DOMAIN trail : i \in DOMAIN TrailUpTo(n) <=> trail[i].level <= n
  BY <1>1, BackIs
<1> QED
  BY <1>2 DEF FactsIn, Prefix

LEMMA AssertedFacts ==
  ASSUME PlainTypes, TrailInv, AssertSucceeds, NEW a, FactsIn(a, trail')
  PROVE  \A i \in DOMAIN trail : A!Holds(a, trail[i].lit)
<1>1. trail' = [i \in DOMAIN trail |-> [trail[i] EXCEPT !.level = 0]]
  BY DEF AssertSucceeds
<1> TAKE i \in DOMAIN trail
<1>2. i \in DOMAIN trail' /\ trail'[i] = [trail[i] EXCEPT !.level = 0]
  BY <1>1
<1>3. trail[i] \in EntryTypes(used, next)
  BY StateIs
<1>4. trail'[i].lit = trail[i].lit /\ trail'[i].level = 0
  BY <1>2, <1>3 DEF EntryTypes
<1> QED
  BY <1>2, <1>4 DEF FactsIn

LEMMA FactsStay ==
  ASSUME PlainTypes, CallsTyped, TrailInv, ListsInv, CallInv, WorkInv, QueueInv, Next,
         NEW a, FactsIn(a, trail')
  PROVE  FactsIn(a, trail)
<1>1. CASE trail' = trail
  BY <1>1
<1>2. CASE Prefix(trail, trail')
  BY <1>2, FactsPrefix
<1>3. CASE \E n \in Nat : Prefix(TrailUpTo(n), trail')
  BY <1>3, CutFacts
<1>4. CASE GoesUp
  <2>1. PICK n \in Nat : trail' = TrailUpTo(n)
    BY <1>4 DEF GoesUp, CancelUntil
  <2> QED
    BY <1>3, <2>1, PrefixItself
<1>5. CASE \E l \in UsedLits : GuessesLit(l)
  <2>1. PICK l \in UsedLits : trail' = Append(trail, Entry(l, 0, Len(lim) + 1))
    BY <1>5 DEF GuessesLit
  <2>2. trail \in Seq(EntryTypes(used, next))
    BY StateIs
  <2> DEFINE e == Entry(l, 0, Len(lim) + 1)
  <2> HIDE DEF e
  <2>3. Prefix(trail, Append(trail, e))
    BY <2>2 DEF Prefix
  <2> QED
    BY <1>2, <2>1, <2>3 DEF e
<1>6. CASE VisitForces \/ VisitSettles \/ VisitRefutes
  BY <1>2, <1>6, VisitsGrow DEF Visits
<1>7. CASE AddsSome
  BY <1>2, <1>7, AddsOn DEF Onward
<1>8. CASE Learns
  BY <1>3, <1>8, LearnBacks DEF Backs
<1>9. CASE AssertFails
  BY <1>3, <1>9, DenyBacks DEF Backs
<1>10. CASE AssertSucceeds
  BY <1>10, AssertedFacts DEF FactsIn
<1> QED
  BY <1>1, <1>4, <1>5, <1>6, <1>7, <1>8, <1>9, <1>10, TrailMoves

---------------------------------------------------------------------------
(* What the calls that add have added.                                     *)

LEMMA AdmitsGrown ==
  ASSUME NEW a, NEW cl, NEW all, NEW t, NEW s, Prefix(t, s),
         DOMAIN cl \subseteq DOMAIN all, \A i \in DOMAIN cl : all[i] = cl[i],
         Admits(a, all, s)
  PROVE  Admits(a, cl, t)
<1>1. FactsIn(a, t)
  BY FactsPrefix DEF Admits
<1> QED
  BY <1>1 DEF Admits

LEMMA AddsGrow ==
  ASSUME PlainTypes, CallsTyped, TrailInv, ListsInv, QueueInv, Next, AddsSome, NEW a,
         Admits(a, clauses', trail')
  PROVE  /\ Admits(a, clauses, trail)
         /\ \A i \in DOMAIN trail : A!Holds(a, trail[i].lit)
<1>1. Adding
  BY ClauseAdds, SingleAdds, PairAdds DEF AddsSome
<1>2. Prefix(trail, trail') /\ Len(lim) = 0
  BY AddsOn DEF Onward
<1>3. Admits(a, clauses, trail)
  BY <1>1, <1>2, AdditionExtends, AdmitsGrown DEF Adding
<1> QED
  BY <1>2, <1>3, AllFacts DEF Admits

LEMMA NewAdmits ==
  ASSUME NEW a, NEW lits, NEW kind, kind # "learnt", NewClause(lits, kind),
         NEW t, Admits(a, clauses', t)
  PROVE  IF kind = "single"
         THEN \A l, m \in Elements(lits) : l # m => A!Holds(a, l) \/ A!Holds(a, m)
         ELSE \E l \in Elements(lits) : A!Holds(a, l)
<1> DEFINE c == [lits |-> lits, kind |-> kind]
<1>1. c.lits = lits /\ c.kind = kind
  OBVIOUS
<1>2. clauses' = [i \in DOMAIN clauses \cup {next} |->
                    IF i = next THEN c ELSE clauses[i]]
  BY DEF NewClause
<1> HIDE DEF c
<1>3. next \in DOMAIN clauses' /\ clauses'[next] = c
  BY <1>2
<1>4. Obeys(a, c)
  BY <1>1, <1>3 DEF Admits
<1> QED
  BY <1>1, <1>4 DEF Obeys

LEMMA AppendedFact ==
  ASSUME NEW a, NEW X, NEW t \in Seq(X), NEW l, NEW why,
         FactsIn(a, Append(t, Entry(l, why, 0)))
  PROVE  A!Holds(a, l)
<1> DEFINE e == Entry(l, why, 0)
           c == Append(t, e)
<1>1. e.lit = l /\ e.level = 0
  BY DEF Entry
<1> HIDE DEF e
<1>2. Len(t) + 1 \in DOMAIN c /\ c[Len(t) + 1] = e
  OBVIOUS
<1> HIDE DEF c
<1> QED
  BY <1>1, <1>2 DEF FactsIn, c, e

LEMMA JoinedFacts ==
  ASSUME NEW a, NEW X, NEW t \in Seq(X), NEW Y, NEW q \in Seq(Y), NEW why,
         FactsIn(a, Grown(t, q, why, 0))
  PROVE  \A m \in DOMAIN q : A!Holds(a, q[m])
<1> DEFINE p == Put(q, why, 0)
           S == {p[m] : m \in DOMAIN q}
           c == t \o p
<1>1. /\ DOMAIN q = 1 .. Len(q) /\ Len(q) \in Nat /\ Len(t) \in Nat
  OBVIOUS
<1>2. p \in Seq(S) /\ Len(p) = Len(q)
      /\ \A m \in DOMAIN q : p[m] = Entry(q[m], why, 0)
  BY <1>1 DEF Put
<1>3. \A m \in DOMAIN q : p[m].lit = q[m] /\ p[m].level = 0
  <2>1. \A l : Entry(l, why, 0).lit = l /\ Entry(l, why, 0).level = 0
    BY DEF Entry
  <2> QED
    BY <1>2, <2>1
<1>4. FactsIn(a, c)
  BY DEF Grown
<1> HIDE DEF p
<1>5. c = t \o p
  OBVIOUS
<1> HIDE DEF S, c
<1>6. DOMAIN c = 1 .. Len(t) + Len(p)
  BY ONLY t \in Seq(X), <1>2, <1>5, JoinedIs
<1>7. \A m \in 1 .. Len(p) : c[Len(t) + m] = p[m]
  BY ONLY t \in Seq(X), <1>2, <1>5, JoinedIs
<1> TAKE m \in DOMAIN q
<1>8. Len(t) + m \in DOMAIN c /\ c[Len(t) + m] = p[m]
  BY <1>1, <1>2, <1>6, <1>7
<1> QED
  BY <1>3, <1>4, <1>8 DEF FactsIn

(* What is left of a clause, and is kept, is all that it says. *)
LEMMA SettleKeeps ==
  ASSUME PlainTypes, TrailInv, Len(lim) = 0, NEW a, Admits(a, clauses', trail'), ok',
         NEW lits \in Seq(UsedLits), NEW twice \in Seq(UsedLits),
         NEW kind \in {"clause", "single"}, Settle(lits, kind, twice),
         kind = "single" => Len(lits) > 1
  PROVE  IF kind = "single"
         THEN /\ \A m \in DOMAIN twice : A!Holds(a, twice[m])
              /\ \A l, m \in Elements(lits) : l # m => A!Holds(a, l) \/ A!Holds(a, m)
         ELSE \E l \in Elements(lits) : A!Holds(a, l)
<1>1. CurrentLevel = 0 /\ trail \in Seq(EntryTypes(used, next))
  BY StateIs DEF CurrentLevel
<1>0. Len(lits) \in Nat /\ DOMAIN lits = 1 .. Len(lits)
  OBVIOUS
<1>2. Len(lits) # 0
  <2>1. (Len(lits) = 0 /\ ok' = FALSE) \/ Len(lits) = 1 \/ Len(lits) > 1
    BY Zenon DEF Settle
  <2> QED
    BY <1>0, <2>1
<1>3. CASE Len(lits) = 1
  <2>1. trail' = Append(trail, Entry(lits[1], 0, 0))
    BY <1>0, <1>1, <1>2, <1>3 DEF Settle, Enqueue
  <2>2. A!Holds(a, lits[1])
    BY <1>1, <2>1, AppendedFact DEF Admits
  <2>3. lits[1] \in Elements(lits)
    BY <1>0, <1>3 DEF Elements
  <2>4. kind # "single"
    BY <1>3
  <2> QED
    BY <2>2, <2>3, <2>4
<1>4. CASE Len(lits) > 1
  <2> DEFINE new == IF kind = "single" /\ Len(lits) > 2 THEN "single" ELSE "clause"
  <2>1. EnqueueAll(twice, 0) /\ NewClause(lits, new)
    <3>1. Len(lits) # 1
      BY ONLY <1>4, <1>0
    <3> QED
      BY <1>2, <3>1, Zenon DEF Settle
  <2>2. trail' = Grown(trail, twice, 0, 0)
    BY <1>1, <2>1 DEF EnqueueAll, Entries, Grown, Put
  <2>3. \A m \in DOMAIN twice : A!Holds(a, twice[m])
    BY <1>1, <2>2, JoinedFacts DEF Admits
  <2>4. new # "learnt"
    OBVIOUS
  <2>5. IF new = "single"
        THEN \A l, m \in Elements(lits) : l # m => A!Holds(a, l) \/ A!Holds(a, m)
        ELSE \E l \in Elements(lits) : A!Holds(a, l)
    <3> HIDE DEF new
    <3> QED
      BY <2>1, <2>4, NewAdmits
  <2>6. CASE kind = "single" /\ Len(lits) > 2
    BY <2>3, <2>5, <2>6
  <2>7. CASE kind = "single" /\ ~ (Len(lits) > 2)
    <3>1. DOMAIN lits = {1, 2}
      BY <1>0, <1>4, <2>7
    <3>2. Elements(lits) = {lits[1], lits[2]}
      BY <3>1 DEF Elements
    <3>3. \E l \in Elements(lits) : A!Holds(a, l)
      BY <2>5, <2>7
    <3> QED
      BY <2>3, <2>7, <3>2, <3>3
  <2>8. CASE kind # "single"
    BY <2>5, <2>8
  <2> QED
    BY <2>6, <2>7, <2>8
<1> QED
  BY <1>0, <1>2, <1>3, <1>4

LEMMA GivenWith ==
  ASSUME NEW F, NEW G, NEW a \in A!Models(F), \A c \in G : \E l \in c : A!Holds(a, l)
  PROVE  a \in A!Models(F \cup G)
BY DEF A!Models, A!Satisfies

LEMMA ClauseSays ==
  ASSUME PlainTypes, CallsTyped, TrailInv, ListsInv, QueueInv, Next, AddAClause,
         Fine, ok', NEW a \in A!Assignments, Admits(a, clauses', trail')
  PROVE  \E l \in Range(Args) : A!Holds(a, l)
<1> DEFINE L == Range(Args)
           S == {l \in L : ~ IsFalse(l)}
<1>1. NextCall("clause") /\ Len(lim) = 0
  BY DEF AddAClause, Adds, CurrentLevel
<1>2. Args \in Seq(UsedLits)
  BY <1>1, CallIs
<1>3. L \in SUBSET UsedLits
  BY <1>2 DEF Range
<1>4. \A i \in DOMAIN trail : A!Holds(a, trail[i].lit)
  BY AddsGrow DEF AddsSome
<1>5. CASE \E l \in L : IsTrue(l)
  BY <1>4, <1>5 DEF IsTrue
<1>6. CASE \E l \in L : Neg(l) \in L
  <2>1. PICK l \in L : Neg(l) \in L
    BY <1>6
  <2>2. l \in Lits
    BY <1>3, StateIs
  <2> QED
    BY <2>1, <2>2, HoldsOr
<1>7. CASE ~ (\E l \in L : IsTrue(l) \/ Neg(l) \in L)
  <2>1. Settle(LitsInOrder(S), "clause", << >>)
    BY <1>7 DEF AddAClause, Fine
  <2>2. S \in SUBSET NatLits /\ IsFiniteSet(S)
    <3>1. IsFiniteSet(L)
      BY <1>2, RangeFinite
    <3>2. S \in SUBSET L
      OBVIOUS
    <3> QED
      BY <1>3, <3>1, <3>2, FS_Subset, StateIs
  <2> HIDE DEF S
  <2>3. /\ LitsInOrder(S) \in Seq(S) /\ Elements(LitsInOrder(S)) = S
    BY <2>2, LitsSorted
  <2> DEFINE q == LitsInOrder(S)
             none == << >>
             kind == "clause"
  <2>4. q \in Seq(UsedLits)
    <3>1. \A m \in DOMAIN q : q[m] \in S
      BY <2>3 DEF Elements
    <3>2. S \in SUBSET UsedLits
      BY <1>3 DEF S
    <3> HIDE DEF q
    <3> QED
      BY <2>3, <3>1, <3>2, Retyped DEF q
  <2>5. none \in Seq(UsedLits) /\ kind \in {"clause", "single"} /\ kind # "single"
        /\ Settle(q, kind, none)
    BY <2>1
  <2> HIDE DEF q, none, kind
  <2>6. \E l \in Elements(q) : A!Holds(a, l)
    BY <1>1, <2>4, <2>5, SettleKeeps
  <2>7. Elements(q) = S
    BY <2>3 DEF q
  <2> QED
    BY <2>6, <2>7 DEF S
<1> QED
  BY <1>5, <1>6, <1>7

LEMMA ForcedFact ==
  ASSUME PlainTypes, TrailInv, Len(lim) = 0, NEW l, Forces(l), NEW a,
         Admits(a, clauses', trail')
  PROVE  A!Holds(a, l)
<1>1. trail' = Append(trail, Entry(l, 0, 0)) /\ trail \in Seq(EntryTypes(used, next))
  BY StateIs DEF Forces, Enqueue, CurrentLevel
<1> QED
  BY <1>1, AppendedFact DEF Admits

(* A clause with both literals may be a learnt one: it follows from those  *)
(* that were given.                                                        *)
LEMMA ThereObeys ==
  ASSUME PlainTypes, TrailInv, ListsInv, NEW j \in UsedLits, NEW i \in UsedLits, i # j,
         PairIsThere(j, i), NEW a, Obeyed(a, clauses)
  PROVE  A!Holds(a, j) \/ A!Holds(a, i)
<1>1. ASSUME NEW l \in UsedLits, NEW m \in UsedLits, l # m, HasPair(watches[Neg(l)], m)
      PROVE  A!Holds(a, l) \/ A!Holds(a, m)
  <2>1. PICK id \in Range(watches[Neg(l)]) : /\ Len(clauses[id].lits) = 2
                                             /\ m \in Range(clauses[id].lits)
    BY <1>1 DEF HasPair
  <2>2. Neg(l) \in Lits /\ Neg(Neg(l)) = l
    BY LitFacts, StateIs
  <2>3. id \in DOMAIN clauses /\ l \in Watched(clauses[id])
    BY <2>1, <2>2 DEF ListsInv, ListsOf, Exact
  <2> DEFINE c == clauses[id]
  <2>4. Clean(c, used) /\ used \in SUBSET Vars
    BY <2>3, StateIs DEF ListsInv, ClausesOf
  <2>5. Obeys(a, c)
    BY <2>3 DEF Obeyed
  <2>6. Len(c.lits) = 2 /\ m \in Range(c.lits) /\ l \in Watched(c)
    BY <2>1, <2>3
  <2> HIDE DEF c
  <2>7. /\ DOMAIN c.lits = 1 .. Len(c.lits)
        /\ c.kind = "single" => Len(c.lits) > 2
        /\ \E k \in DOMAIN c.lits : c.lits[k] = l
    BY <2>4, <2>6, WatchedIs
  <2>8. DOMAIN c.lits = {1, 2} /\ c.kind # "single"
    BY <2>6, <2>7
  <2>9. Elements(c.lits) = {l, m}
    BY <1>1, <2>6, <2>7, <2>8 DEF Elements, Range
  <2> QED
    BY <2>5, <2>8, <2>9 DEF Obeys
<1>2. HasPair(watches[Neg(i)], j) \/ HasPair(watches[Neg(j)], i)
  BY DEF PairIsThere
<1> QED
  BY <1>1, <1>2

LEMMA PairSays ==
  ASSUME PlainTypes, CallsTyped, TrailInv, ListsInv, QueueInv, Next, AddAPair,
         Fine, ok', NEW a \in A!Assignments, Admits(a, clauses', trail'),
         Obeyed(a, clauses)
  PROVE  A!Holds(a, Args[1]) \/ A!Holds(a, Args[2])
<1> DEFINE j == Args[1]
           i == Args[2]
<1>1. NextCall("pair") /\ Len(lim) = 0
  BY DEF AddAPair, Adds, CurrentLevel
<1>2. Args \in Seq(UsedLits) /\ Len(Args) = 2 /\ Args[1] # Args[2]
  BY <1>1, CallIs DEF WellFormed, Args
<1>3. j \in UsedLits /\ i \in UsedLits /\ i # j /\ j \in Lits /\ i \in Lits
  <2> DEFINE b == Args
  <2>1. b \in Seq(UsedLits) /\ Len(b) = 2 /\ b[1] # b[2]
    BY <1>2
  <2> HIDE DEF b
  <2>2. b[1] \in UsedLits /\ b[2] \in UsedLits
    BY <2>1
  <2> QED
    BY <2>1, <2>2, StateIs DEF b
<1>4. \A k \in DOMAIN trail : A!Holds(a, trail[k].lit)
  BY AddsGrow DEF AddsSome
<1>5. \A l : IsTrue(l) => A!Holds(a, l)
  BY <1>4 DEF IsTrue
<1>6. \/ i = Neg(j) \/ IsTrue(i) \/ IsTrue(j)
      \/ ~ ok'
      \/ Forces(j) \/ Forces(i)
      \/ PairIsThere(j, i)
      \/ NewClause(<<i, j>>, "clause")
  BY DEF AddAPair, Fine
<1> HIDE DEF j, i
<1>7. CASE i = Neg(j)
  BY <1>3, <1>7, HoldsOr DEF i, j
<1>8. CASE IsTrue(i) \/ IsTrue(j)
  BY <1>5, <1>8 DEF i, j
<1>9. CASE Forces(j) \/ Forces(i)
  BY <1>1, <1>9, ForcedFact DEF i, j
<1>10. CASE PairIsThere(j, i)
  BY <1>3, <1>10, ThereObeys DEF i, j
<1>11. CASE NewClause(<<i, j>>, "clause")
  <2> DEFINE q == <<i, j>>
             kind == "clause"
  <2>1. Elements(q) = {i, j}
    <3>1. DOMAIN q = {1, 2} /\ q[1] = i /\ q[2] = j
      OBVIOUS
    <3> QED
      BY <3>1 DEF Elements
  <2>2. NewClause(q, kind) /\ kind # "learnt" /\ kind # "single"
    BY <1>11
  <2> HIDE DEF q, kind
  <2>3. \E l \in Elements(q) : A!Holds(a, l)
    BY <2>2, NewAdmits
  <2> QED
    BY <2>1, <2>3 DEF i, j
<1> QED
  BY <1>6, <1>7, <1>8, <1>9, <1>10, <1>11

(* In a sorted sequence a literal stands together. *)
LEMMA SameRun ==
  ASSUME NEW q \in Seq(NatLits),
         \A m, n \in DOMAIN q : m < n => ToInt(q[m]) <= ToInt(q[n]),
         NEW i \in DOMAIN q, NEW j \in DOMAIN q, q[i] = q[j],
         NEW k \in DOMAIN q, i <= k, k <= j
  PROVE  q[k] = q[j]
<1>1. DOMAIN q = 1 .. Len(q) /\ Len(q) \in Nat
  OBVIOUS
<1>2. q[i] \in NatLits /\ q[j] \in NatLits /\ q[k] \in NatLits
  OBVIOUS
<1>3. ToInt(q[i]) \in Nat /\ ToInt(q[j]) \in Nat /\ ToInt(q[k]) \in Nat
  BY <1>2, Numbered
<1>4. CASE k = i \/ k = j
  BY <1>4
<1>5. CASE k # i /\ k # j
  <2>1. i < k /\ k < j
    BY <1>1, <1>5
  <2>2. ToInt(q[i]) <= ToInt(q[k]) /\ ToInt(q[k]) <= ToInt(q[j])
    BY <2>1
  <2>3. ToInt(q[k]) = ToInt(q[j])
    BY <1>3, <2>2
  <2> QED
    BY <1>2, <2>3, Numbered
<1> QED
  BY <1>4, <1>5

(* What addClause's loop over a sorted sequence q has of it: the first     *)
(* place of every open literal is kept, and a second place is in T.        *)
RunStarts(q, before, kept, T) ==
  \A k \in before :
    /\ \E s \in kept : s <= k /\ q[s] = q[k]
    /\ \A i \in DOMAIN q : i < k /\ q[i] = q[k] => \E n \in T : q[n] = q[k]

LEMMA RunsStart ==
  ASSUME NEW q \in Seq(NatLits),
         \A m, n \in DOMAIN q : m < n => ToInt(q[m]) <= ToInt(q[n]),
         NEW before \in SUBSET DOMAIN q,
         \A k \in before : \A i \in DOMAIN q : i < k /\ q[i] = q[k] => i \in before
  PROVE  LET Again(k) == k > 1 /\ q[k - 1] = q[k]
             kept == {k \in before : ~ Again(k)}
             T == {k \in before : Again(k) /\ ~ Again(k - 1)}
         IN  RunStarts(q, before, kept, T)
<1> DEFINE Again(k) == k > 1 /\ q[k - 1] = q[k]
           kept == {k \in before : ~ Again(k)}
           T == {k \in before : Again(k) /\ ~ Again(k - 1)}
<1>1. DOMAIN q = 1 .. Len(q) /\ Len(q) \in Nat
  OBVIOUS
<1>2. ASSUME NEW k \in before
      PROVE  /\ \E s \in kept : s <= k /\ q[s] = q[k]
             /\ \A i \in DOMAIN q : i < k /\ q[i] = q[k] => \E n \in T : q[n] = q[k]
  <2> DEFINE S == {i \in DOMAIN q : q[i] = q[k]}
             s == Least(S)
  <2>1. S \in SUBSET Nat /\ S # {} /\ k \in S /\ k \in DOMAIN q
    BY <1>1
  <2>2. s \in S /\ \A i \in S : s <= i
    BY <2>1, LeastOf
  <2> HIDE DEF s
  <2>3. s \in DOMAIN q /\ q[s] = q[k] /\ s <= k /\ s \in Nat /\ k \in Nat
    BY <1>1, <2>1, <2>2
  <2>4. s \in before
    BY <1>1, <2>1, <2>3
  <2>5. ~ Again(s)
    <3> SUFFICES ASSUME Again(s) PROVE FALSE
      OBVIOUS
    <3>1. s - 1 \in DOMAIN q /\ q[s - 1] = q[k]
      BY <1>1, <2>3
    <3>2. s <= s - 1
      BY <2>2, <3>1
    <3> QED
      BY <2>3, <3>2
  <2>6. s \in kept
    BY <2>4, <2>5
  <2>7. ASSUME NEW i \in DOMAIN q, i < k, q[i] = q[k]
        PROVE  \E n \in T : q[n] = q[k]
    <3>1. s <= i /\ s < k /\ s + 1 <= k /\ s + 1 \in DOMAIN q /\ s <= s + 1
      BY <1>1, <2>1, <2>2, <2>3, <2>7
    <3>2. q[s + 1] = q[k]
      BY <2>1, <2>3, <3>1, SameRun
    <3>3. s + 1 \in before
      BY <1>1, <2>1, <3>1, <3>2
    <3>4. s + 1 > 1 /\ (s + 1) - 1 = s
      BY <1>1, <2>3
    <3>5. Again(s + 1) /\ ~ Again((s + 1) - 1)
      BY <2>3, <2>5, <3>2, <3>4
    <3> QED
      BY <3>2, <3>3, <3>5
  <2> QED
    BY <2>3, <2>6, <2>7
<1> HIDE DEF kept, T
<1>3. RunStarts(q, before, kept, T)
  BY <1>2 DEF RunStarts
<1> QED
  BY <1>3 DEF kept, T

(* What forceAll enqueues: without a conflict, all that it was given.      *)
LEMMA ForceAllKeeps ==
  ASSUME PlainTypes, TrailInv, Len(lim) = 0, NEW a,
         \A i \in DOMAIN trail : A!Holds(a, trail[i].lit), FactsIn(a, trail'),
         NEW twice \in Seq(UsedLits), NEW q \in Seq(UsedLits),
         ForceAll(twice, q), ok'
  PROVE  /\ \A m \in DOMAIN twice : A!Holds(a, twice[m])
         /\ \A k \in DOMAIN q : A!Holds(a, q[k])
<1> DEFINE bad == {k \in DOMAIN q : \/ IsFalse(q[k])
                                    \/ Neg(q[k]) \in Range(twice)
                                    \/ \E i \in 1 .. k - 1 : q[i] = Neg(q[k])}
           fresh == {k \in DOMAIN q : /\ \A i \in bad : k < i
                                      /\ IsOpen(q[k]) /\ q[k] \notin Range(twice)
                                      /\ \A i \in 1 .. k - 1 : q[i] # q[k]}
           more == Chosen(q, fresh)
           all == twice \o more
<1>1. EnqueueAll(all, 0) /\ bad = {}
  BY DEF ForceAll
<1>2. fresh \in SUBSET DOMAIN q
  OBVIOUS
<1>3. DOMAIN q = 1 .. Len(q) /\ Len(q) \in Nat
  OBVIOUS
<1>4. ASSUME NEW k \in DOMAIN q
      PROVE  \/ IsTrue(q[k]) \/ q[k] \in Range(twice)
             \/ \E i \in fresh : q[i] = q[k]
  <2> DEFINE S == {i \in DOMAIN q : q[i] = q[k]}
             s == Least(S)
  <2>1. S \in SUBSET Nat /\ S # {}
    BY <1>3
  <2>2. s \in S /\ \A i \in S : s <= i
    BY <2>1, LeastOf
  <2> HIDE DEF s
  <2>3. s \in DOMAIN q /\ q[s] = q[k] /\ s \notin bad
    BY <1>1, <2>2
  <2>4. ~ IsFalse(q[s])
    BY <2>3
  <2>5. \A i \in 1 .. s - 1 : q[i] # q[s]
    <3> SUFFICES ASSUME NEW i \in 1 .. s - 1, q[i] = q[s] PROVE FALSE
      OBVIOUS
    <3>1. i \in DOMAIN q /\ i < s /\ i \in Nat /\ s \in Nat
      BY <1>3, <2>3
    <3>2. s <= i
      BY <2>2, <2>3, <3>1
    <3> QED
      BY <3>1, <3>2
  <2> QED
    BY <1>1, <2>3, <2>4, <2>5 DEF IsOpen
<1> HIDE DEF bad, fresh
<1>5. /\ more \in Seq(UsedLits)
      /\ \A i \in fresh : \E n \in DOMAIN more : more[n] = q[i]
  BY <1>2, ChosenIs
<1> HIDE DEF more
<1>6. /\ all \in Seq(UsedLits)
      /\ DOMAIN all = 1 .. Len(twice) + Len(more)
      /\ \A i \in DOMAIN twice : all[i] = twice[i]
      /\ \A m \in 1 .. Len(more) : all[Len(twice) + m] = more[m]
  BY <1>5, Joined
<1> HIDE DEF all
<1>7. trail' = Grown(trail, all, 0, 0) /\ trail \in Seq(EntryTypes(used, next))
  BY <1>1, StateIs DEF EnqueueAll, Entries, Put, Grown, CurrentLevel
<1>8. \A m \in DOMAIN all : A!Holds(a, all[m])
  BY <1>6, <1>7, JoinedFacts
<1>9. \A m \in DOMAIN twice : A!Holds(a, twice[m])
  <2> TAKE m \in DOMAIN twice
  <2>1. m \in DOMAIN all
    BY <1>5, <1>6
  <2> QED
    BY <1>6, <1>8, <2>1
<1>10. \A n \in DOMAIN more : A!Holds(a, more[n])
  <2> TAKE n \in DOMAIN more
  <2>1. Len(twice) + n \in DOMAIN all /\ n \in 1 .. Len(more)
    BY <1>5, <1>6
  <2> QED
    BY <1>6, <1>8, <2>1
<1>11. ASSUME NEW k \in DOMAIN q PROVE A!Holds(a, q[k])
  <2>1. CASE IsTrue(q[k])
    BY <2>1 DEF IsTrue
  <2>2. CASE q[k] \in Range(twice)
    BY <1>9, <2>2 DEF Range
  <2>3. CASE \E i \in fresh : q[i] = q[k]
    BY <1>5, <1>10, <2>3
  <2> QED
    BY <1>4, <2>1, <2>2, <2>3
<1> QED
  BY <1>9, <1>11

(* Two places of a sorted single set without a false literal.              *)
LEMMA NoneFalseSays ==
  ASSUME NEW a, NEW q \in Seq(UsedLits), NEW before, NEW kept \in SUBSET DOMAIN q,
         NEW T, RunStarts(q, before, kept, T),
         \A k \in DOMAIN q : k \in before \/ A!Holds(a, q[k]),
         \A k \in T : A!Holds(a, q[k]),
         \A i, j \in kept : q[i] # q[j] => A!Holds(a, q[i]) \/ A!Holds(a, q[j]),
         NEW m \in DOMAIN q, NEW n \in DOMAIN q, m < n
  PROVE  A!Holds(a, q[m]) \/ A!Holds(a, q[n])
<1>1. CASE ~ (m \in before /\ n \in before)
  BY <1>1
<1>2. CASE m \in before /\ n \in before /\ q[m] = q[n]
  BY <1>2 DEF RunStarts
<1>3. CASE m \in before /\ n \in before /\ q[m] # q[n]
  <2>1. PICK i \in kept : q[i] = q[m]
    BY <1>3 DEF RunStarts
  <2>2. PICK j \in kept : q[j] = q[n]
    BY <1>3 DEF RunStarts
  <2> QED
    BY <1>3, <2>1, <2>2
<1> QED
  BY <1>1, <1>2, <1>3

(* And of one whose first false literal, or second opposite, is f.         *)
LEMMA FirstFalseSays ==
  ASSUME NEW a \in A!Assignments, NEW q \in Seq(UsedLits), UsedLits \subseteq NatLits,
         UsedLits \subseteq Lits,
         \A m, n \in DOMAIN q : m < n => ToInt(q[m]) <= ToInt(q[n]),
         NEW before, NEW kept \in SUBSET DOMAIN q, NEW T, NEW f \in DOMAIN q,
         RunStarts(q, before, kept, T),
         \A k \in DOMAIN q : k < f => k \in before \/ A!Holds(a, q[k]),
         \A k \in T : A!Holds(a, q[k]),
         \A k \in DOMAIN q : f < k => A!Holds(a, q[k]),
         \A i, j \in kept : i < j => A!Holds(a, q[i]),
         kept = {} \/ (f > 1 /\ q[f - 1] = Neg(q[f]) /\ f - 1 \in before),
         NEW m \in DOMAIN q, NEW n \in DOMAIN q, m < n
  PROVE  A!Holds(a, q[m]) \/ A!Holds(a, q[n])
<1>1. DOMAIN q = 1 .. Len(q) /\ Len(q) \in Nat
  OBVIOUS
<1>2. \A k \in DOMAIN q : k \in Nat /\ q[k] \in UsedLits /\ q[k] \in NatLits /\ q[k] \in Lits
  BY <1>1
<1>3. q \in Seq(NatLits)
  BY <1>2, Retyped
<1>4. CASE f < n
  BY <1>4
<1>5. CASE n < f
  <2>1. CASE ~ (m \in before /\ n \in before)
    <3>1. m < f
      BY <1>2, <1>5
    <3> QED
      BY <1>5, <2>1, <3>1
  <2>2. CASE m \in before /\ n \in before /\ q[m] = q[n]
    BY <2>2 DEF RunStarts
  <2>3. CASE m \in before /\ n \in before /\ q[m] # q[n]
    <3>1. PICK i \in kept : q[i] = q[m]
      BY <2>3 DEF RunStarts
    <3>2. PICK j \in kept : q[j] = q[n]
      BY <2>3 DEF RunStarts
    <3>3. i < j \/ j < i
      BY <1>2, <2>3, <3>1, <3>2
    <3> QED
      BY <3>1, <3>2, <3>3
  <2> QED
    BY <2>1, <2>2, <2>3
<1>6. CASE n = f
  <2>1. CASE m \notin before
    BY <1>6, <2>1
  <2>2. CASE m \in before
    <3>1. PICK i \in kept : i <= m /\ q[i] = q[m]
      BY <2>2 DEF RunStarts
    <3>2. f > 1 /\ q[f - 1] = Neg(q[f]) /\ f - 1 \in before
      BY <3>1
    <3>3. PICK j \in kept : j <= f - 1 /\ q[j] = q[f - 1]
      BY <3>2 DEF RunStarts
    <3>4. f - 1 \in DOMAIN q /\ m <= f - 1
      BY <1>1, <1>2, <1>6, <3>2
    <3>5. CASE q[m] = q[f - 1]
      BY <1>2, <1>6, <3>2, <3>5, HoldsOr
    <3>6. CASE q[m] # q[f - 1]
      <4>1. ~ (j <= m)
        BY <1>3, <3>3, <3>4, <3>6, SameRun
      <4>2. i < j
        BY <1>2, <3>1, <3>3, <4>1
      <4> QED
        BY <3>1, <4>2
    <3> QED
      BY <3>5, <3>6
  <2> QED
    BY <2>1, <2>2
<1> QED
  BY <1>2, <1>4, <1>5, <1>6

(* Of any two places of a single set that was added, one holds.            *)
LEMMA SingleSorted ==
  ASSUME PlainTypes, CallsTyped, TrailInv, ListsInv, QueueInv, Next, AddASingle,
         Fine, ok', "mistaken" \notin slips', NEW a \in A!Assignments,
         Admits(a, clauses', trail'),
         InOrder(Args) \in Seq(UsedLits),
         \A m, n \in DOMAIN InOrder(Args) :
           m < n => ToInt(InOrder(Args)[m]) <= ToInt(InOrder(Args)[n]),
         NEW m \in DOMAIN InOrder(Args), NEW n \in DOMAIN InOrder(Args), m < n
  PROVE  A!Holds(a, InOrder(Args)[m]) \/ A!Holds(a, InOrder(Args)[n])
<1> DEFINE q == InOrder(Args)
           Again(k) == k > 1 /\ q[k - 1] = q[k]
           false == {k \in DOMAIN q :
                       \/ IsFalse(q[k])
                       \/ k > 1 /\ q[k - 1] = Neg(q[k]) /\ IsOpen(q[k])}
           before == {k \in DOMAIN q : IsOpen(q[k]) /\ \A i \in false : k < i}
           kept == {k \in before : ~ Again(k)}
           T == {k \in before : Again(k) /\ ~ Again(k - 1)}
           twice == Chosen(q, T)
           others == {k \in kept : \E i \in kept : k < i}
                     \cup {k \in DOMAIN q : \E i \in false : i < k}
<1>1. Len(lim) = 0 /\ ok
  BY DEF AddASingle, Adds, CurrentLevel, Fine
<1>2. \/ false = {} /\ Settle(Chosen(q, kept), "single", twice)
      \/ false # {} /\ ForceAll(twice, Chosen(q, others))
  BY <1>1 DEF AddASingle
<1>3. /\ false = {} => \E i, k \in kept : i # k
      /\ false # {} => kept = {} \/ \A k \in false : (\A i \in false : k <= i)
                                                     => ~ IsFalse(q[k])
  BY <1>1 DEF AddASingle
<1>4. /\ q \in Seq(UsedLits)
      /\ \A i, j \in DOMAIN q : i < j => ToInt(q[i]) <= ToInt(q[j])
      /\ m \in DOMAIN q /\ n \in DOMAIN q
  OBVIOUS
<1> HIDE DEF q
<1>5. /\ DOMAIN q = 1 .. Len(q) /\ Len(q) \in Nat
      /\ \A k \in DOMAIN q : q[k] \in UsedLits /\ q[k] \in NatLits /\ k \in Nat
  BY <1>4, StateIs
<1>6. q \in Seq(NatLits) /\ UsedLits \subseteq NatLits /\ UsedLits \subseteq Lits
  <2>1. \A k \in DOMAIN q : q[k] \in NatLits
    BY <1>5
  <2>2. q \in Seq(NatLits)
    BY <1>4, <2>1, Retyped
  <2> QED
    BY <2>2, StateIs
<1>7. \A i \in DOMAIN trail : A!Holds(a, trail[i].lit)
  BY AddsGrow DEF AddsSome
<1>8. \A k \in DOMAIN q : /\ IsTrue(q[k]) => A!Holds(a, q[k])
                          /\ IsTrue(q[k]) \/ IsFalse(q[k]) \/ IsOpen(q[k])
  BY <1>7 DEF IsTrue, IsOpen
<1>9. T \in SUBSET DOMAIN q /\ kept \in SUBSET DOMAIN q /\ others \in SUBSET DOMAIN q
      /\ before \in SUBSET DOMAIN q /\ false \in SUBSET DOMAIN q
  OBVIOUS
<1>10. RunStarts(q, before, kept, T)
  <2>1. \A k \in before : \A i \in DOMAIN q : i < k /\ q[i] = q[k] => i \in before
    <3> SUFFICES ASSUME NEW k \in before, NEW i \in DOMAIN q, i < k, q[i] = q[k]
                 PROVE  i \in before
      OBVIOUS
    <3>1. \A j \in false : j \in Nat /\ k < j /\ k \in Nat /\ i \in Nat
      BY <1>5
    <3>2. \A j \in false : i < j
      BY <3>1
    <3> QED
      BY <3>2
  <2> HIDE DEF before
  <2> QED
    BY <1>4, <1>6, <1>9, <2>1, RunsStart
<1>11. \A k \in DOMAIN q : (\A i \in false : k < i) => k \in before \/ A!Holds(a, q[k])
  <2> TAKE k \in DOMAIN q
  <2>1. k \in false => ~ (\A i \in false : k < i)
    BY <1>5
  <2>2. k \notin false => ~ IsFalse(q[k])
    OBVIOUS
  <2> QED
    BY <1>8, <2>1, <2>2
<1>12. ASSUME NEW f \in false, \A i \in false : f <= i, kept # {}
       PROVE  f > 1 /\ q[f - 1] = Neg(q[f]) /\ f - 1 \in before
  <2>1. ~ IsFalse(q[f])
    BY <1>3, <1>12
  <2>2. f > 1 /\ q[f - 1] = Neg(q[f]) /\ IsOpen(q[f]) /\ f \in DOMAIN q
    BY <2>1
  <2>3. f - 1 \in DOMAIN q /\ q[f] \in Lits
    BY <1>5, <1>6, <2>2
  <2>4. IsOpen(q[f - 1])
    BY <2>2, <2>3, LitFacts DEF IsOpen, IsFalse
  <2>5. \A i \in false : f - 1 < i
    <3> TAKE i \in false
    <3>1. i \in Nat /\ f \in Nat /\ f <= i
      BY <1>5, <1>12, <2>2
    <3> QED
      BY <3>1
  <2> QED
    BY <2>2, <2>3, <2>4, <2>5
<1>13. \A k \in DOMAIN q : (\E i \in false : i < k) => k \in others
  OBVIOUS
<1>14. \A i, j \in kept : i < j => i \in others
  OBVIOUS
<1> HIDE DEF Again, false, before, kept, T, others
<1>15. /\ twice \in Seq(UsedLits)
       /\ \A i \in T : \E k \in DOMAIN twice : twice[k] = q[i]
  BY <1>4, <1>9, ChosenIs
<1> HIDE DEF twice
<1>16. CASE false = {} /\ Settle(Chosen(q, kept), "single", twice)
  <2> DEFINE c == Chosen(q, kept)
             kind == "single"
  <2>1. c \in Seq(UsedLits) /\ \A i \in kept : \E k \in DOMAIN c : c[k] = q[i]
    BY <1>4, <1>9, ChosenIs
  <2>2. Len(c) > 1
    <3>1. PICK f : ChosenAt(c, f, q, kept)
      BY <1>4, <1>9, ChosenPlaces
    <3>2. PICK i \in kept, j \in kept : i # j
      BY <1>3, <1>16
    <3> HIDE DEF c
    <3>3. PICK k \in DOMAIN c : f[k] = i
      BY <3>1 DEF ChosenAt
    <3>4. PICK l \in DOMAIN c : f[l] = j
      BY <3>1 DEF ChosenAt
    <3>5. k # l /\ DOMAIN c = 1 .. Len(c) /\ Len(c) \in Nat
      BY <2>1, <3>2, <3>3, <3>4
    <3> QED
      BY <3>5
  <2>3. Settle(c, kind, twice) /\ kind \in {"clause", "single"} /\ kind = "single"
    BY <1>16
  <2> HIDE DEF c, kind
  <2>4. /\ \A k \in DOMAIN twice : A!Holds(a, twice[k])
        /\ \A l, o \in Elements(c) : l # o => A!Holds(a, l) \/ A!Holds(a, o)
    BY <1>1, <1>15, <2>1, <2>2, <2>3, SettleKeeps
  <2>5. \A k \in T : A!Holds(a, q[k])
    BY <1>15, <2>4
  <2>6. \A i, j \in kept : q[i] # q[j] => A!Holds(a, q[i]) \/ A!Holds(a, q[j])
    BY <2>1, <2>4 DEF Elements
  <2>7. \A k \in DOMAIN q : k \in before \/ A!Holds(a, q[k])
    BY <1>11, <1>16
  <2>8. A!Holds(a, q[m]) \/ A!Holds(a, q[n])
    BY <1>4, <1>9, <1>10, <2>5, <2>6, <2>7, NoneFalseSays
  <2> QED
    BY <2>8 DEF q
<1>17. CASE false # {} /\ ForceAll(twice, Chosen(q, others))
  <2> DEFINE c == Chosen(q, others)
             f == Least(false)
  <2>1. c \in Seq(UsedLits) /\ \A i \in others : \E k \in DOMAIN c : c[k] = q[i]
    BY <1>4, <1>9, ChosenIs
  <2>2. ForceAll(twice, c)
    BY <1>17
  <2> HIDE DEF c
  <2>3. /\ \A k \in DOMAIN twice : A!Holds(a, twice[k])
        /\ \A k \in DOMAIN c : A!Holds(a, c[k])
    BY <1>1, <1>7, <1>15, <2>1, <2>2, ForceAllKeeps DEF Admits
  <2>4. f \in false /\ f \in DOMAIN q /\ \A i \in false : f <= i
    <3>1. false \in SUBSET Nat
      BY <1>5, <1>9
    <3> QED
      BY <1>9, <1>17, <3>1, LeastOf
  <2> HIDE DEF f
  <2>5. \A k \in T : A!Holds(a, q[k])
    BY <1>15, <2>3
  <2>6. \A k \in others : A!Holds(a, q[k])
    BY <2>1, <2>3
  <2>7. \A k \in DOMAIN q : k < f => k \in before \/ A!Holds(a, q[k])
    <3> SUFFICES ASSUME NEW k \in DOMAIN q, k < f
                 PROVE  \A i \in false : k < i
      BY <1>11
    <3> QED
      BY <1>5, <1>9, <2>4
  <2>8. \A k \in DOMAIN q : f < k => A!Holds(a, q[k])
    BY <1>13, <2>4, <2>6
  <2>9. \A i, j \in kept : i < j => A!Holds(a, q[i])
    BY <1>14, <2>6
  <2>10. kept = {} \/ (f > 1 /\ q[f - 1] = Neg(q[f]) /\ f - 1 \in before)
    <3>1. CASE kept # {}
      BY ONLY <1>12, <2>4, <3>1
    <3> QED
      BY <3>1
  <2>11. A!Holds(a, q[m]) \/ A!Holds(a, q[n])
    BY <1>4, <1>6, <1>9, <1>10, <2>4, <2>5, <2>7, <2>8, <2>9, <2>10, FirstFalseSays
  <2> QED
    BY <2>11 DEF q
<1> QED
  BY <1>2, <1>16, <1>17

LEMMA SingleSays ==
  ASSUME PlainTypes, CallsTyped, TrailInv, ListsInv, QueueInv, Next, AddASingle,
         Fine, ok', "mistaken" \notin slips', NEW a \in A!Assignments,
         Admits(a, clauses', trail'),
         NEW i \in DOMAIN Args, NEW j \in DOMAIN Args, i < j
  PROVE  A!Holds(a, Args[i]) \/ A!Holds(a, Args[j])
<1> DEFINE b == Args
           q == InOrder(Args)
<1>1. NextCall("single") /\ Args \in Seq(UsedLits)
  BY CallIs DEF AddASingle, Adds
<1> HIDE DEF b
<1>2. b \in Seq(UsedLits) /\ i \in DOMAIN b /\ j \in DOMAIN b /\ i # j
      /\ DOMAIN b = 1 .. Len(b) /\ Len(b) \in Nat
  <2>1. b \in Seq(UsedLits)
    BY <1>1 DEF b
  <2>2. i \in DOMAIN b /\ j \in DOMAIN b
    BY DEF b
  <2> QED
    BY <2>1, <2>2
<1>3. \A k \in DOMAIN b : b[k] \in UsedLits /\ b[k] \in NatLits
  BY <1>2, StateIs
<1>4. b \in Seq(NatLits)
  BY <1>2, <1>3, Retyped
<1>5. /\ q \in Seq(NatLits) /\ DOMAIN q = DOMAIN b
      /\ \A n \in DOMAIN b : \E k \in DOMAIN b : q[n] = b[k]
      /\ \A m, n \in DOMAIN b : m < n => ToInt(q[m]) <= ToInt(q[n])
      /\ \E m, n \in DOMAIN b : m # n /\ q[m] = b[i] /\ q[n] = b[j]
  BY <1>2, <1>4, InOrderIs DEF b
<1> HIDE DEF q
<1>6. \A n \in DOMAIN q : q[n] \in UsedLits
  BY <1>3, <1>5
<1>7. q \in Seq(UsedLits)
  BY <1>5, <1>6, Retyped
<1>8. ASSUME NEW m \in DOMAIN q, NEW n \in DOMAIN q, m < n
      PROVE  A!Holds(a, q[m]) \/ A!Holds(a, q[n])
  BY <1>5, <1>7, <1>8, SingleSorted DEF q
<1>9. PICK m \in DOMAIN q, n \in DOMAIN q : m # n /\ q[m] = b[i] /\ q[n] = b[j]
  BY <1>5
<1>10. m < n \/ n < m
  BY <1>2, <1>5, <1>9
<1> QED
  BY <1>8, <1>9, <1>10 DEF b

LEMMA PairsHold ==
  ASSUME NEW a, NEW q, \A i, j \in DOMAIN q : i < j => A!Holds(a, q[i]) \/ A!Holds(a, q[j])
  PROVE  \A c \in Pairs(q) : \E l \in c : A!Holds(a, l)
<1> DEFINE S == {r \in (DOMAIN q) \X (DOMAIN q) : r[1] < r[2]}
<1> SUFFICES ASSUME NEW c \in Pairs(q) PROVE \E l \in c : A!Holds(a, l)
  OBVIOUS
<1>1. PICK r \in S : c = {q[r[1]], q[r[2]]}
  BY DEF Pairs
<1>2. r[1] \in DOMAIN q /\ r[2] \in DOMAIN q /\ r[1] < r[2]
  BY <1>1
<1>3. A!Holds(a, q[r[1]]) \/ A!Holds(a, q[r[2]])
  BY <1>2
<1> QED
  BY <1>1, <1>3

(* A call that adds leaves all that it says. *)
LEMMA CallSays ==
  ASSUME PlainTypes, CallsTyped, TrailInv, ListsInv, QueueInv, Next, AddsSome,
         Fine, ok', "mistaken" \notin slips', NEW a \in A!Assignments,
         Admits(a, clauses', trail'), Obeyed(a, clauses), a \in A!Models(given)
  PROVE  a \in A!Models(given')
<1>1. given' = given \cup Says(Head(calls))
  BY DEF AddsSome, AddAClause, AddASingle, AddAPair, Adds
<1>2. \A c \in Says(Head(calls)) : \E l \in c : A!Holds(a, l)
  <2>1. CASE AddAClause
    <3>1. Head(calls).op = "clause"
      BY <2>1 DEF AddAClause, Adds, NextCall
    <3>2. Says(Head(calls)) = {Range(Args)}
      BY <3>1 DEF Says, Args
    <3> QED
      BY <2>1, <3>2, ClauseSays
  <2>2. CASE AddAPair
    <3>1. NextCall("pair") /\ Head(calls).op = "pair"
      BY <2>2 DEF AddAPair, Adds, NextCall
    <3>2. Says(Head(calls)) = {Range(Args)}
      BY <3>1 DEF Says, Args
    <3>3. Args \in Seq(UsedLits) /\ Len(Args) = 2
      BY <3>1, CallIs DEF WellFormed, Args
    <3>4. Args[1] \in Range(Args) /\ Args[2] \in Range(Args)
      <4> DEFINE b == Args
      <4>1. b \in Seq(UsedLits) /\ Len(b) = 2
        BY <3>3
      <4> HIDE DEF b
      <4>2. b[1] \in Range(b) /\ b[2] \in Range(b)
        BY <4>1 DEF Range
      <4> QED
        BY <4>2 DEF b
    <3>5. A!Holds(a, Args[1]) \/ A!Holds(a, Args[2])
      BY <2>2, PairSays
    <3> QED
      BY <3>2, <3>4, <3>5
  <2>3. CASE AddASingle
    <3>1. Head(calls).op = "single"
      BY <2>3 DEF AddASingle, Adds, NextCall
    <3>2. Says(Head(calls)) = Pairs(Args)
      BY <3>1 DEF Says, Args
    <3>3. \A i, j \in DOMAIN Args : i < j => A!Holds(a, Args[i]) \/ A!Holds(a, Args[j])
      BY <2>3, SingleSays
    <3> QED
      BY <3>2, <3>3, PairsHold
  <2> QED
    BY <2>1, <2>2, <2>3 DEF AddsSome
<1> QED
  BY <1>1, <1>2, GivenWith

LEMMA KeepsStep ==
  ASSUME PlainTypes, CallsTyped, TrailInv, ListsInv, CallInv, WorkInv, QueueInv,
         GuardInv, Follows, KeepsAll, Next
  PROVE  KeepsAll'
<1> SUFFICES ASSUME Fine', NEW a \in A!Assignments, Admits(a, clauses', trail')
             PROVE  a \in A!Models(given')
  BY DEF KeepsAll
<1>1. Fine /\ ok' /\ slips = {} /\ slips' = {}
  BY AllFine DEF Fine
<1>2. FactsIn(a, trail)
  BY FactsStay DEF Admits
<1>3. ASSUME NEW id \in DOMAIN clauses, clauses[id].kind # "learnt"
      PROVE  Obeys(a, clauses[id])
  <2>1. CASE id \in DOMAIN clauses' /\ clauses'[id].kind # "learnt"
             /\ (Obeys(a, clauses'[id]) => Obeys(a, clauses[id]))
    BY <2>1 DEF Admits
  <2>2. CASE Quiet /\ Len(lim) = 0 /\ Satisfied(clauses[id])
    BY <1>1, <1>2, <2>2, SatisfiedObeys
  <2> QED
    BY <1>3, <2>1, <2>2, ClauseStays DEF CurrentLevel
<1>4. Admits(a, clauses, trail)
  BY <1>2, <1>3 DEF Admits
<1>5. a \in A!Models(given)
  BY <1>1, <1>4 DEF KeepsAll
<1>6. Obeyed(a, clauses)
  BY <1>1, <1>5 DEF Follows, Allows
<1>7. CASE AddsSome
  BY <1>1, <1>5, <1>6, <1>7, CallSays
<1>8. CASE AssertSucceeds
  <2>1. given' = given \cup {{Lit}} /\ During("assert")
    BY <1>8 DEF AssertSucceeds
  <2>2. lim[1] + 1 \in DOMAIN trail /\ trail[lim[1] + 1].lit = Lit
    BY <2>1 DEF CallInv, During
  <2>3. A!Holds(a, Lit)
    BY <1>8, <2>2, AssertedFacts DEF Admits
  <2>4. \A c \in {{Lit}} : \E l \in c : A!Holds(a, l)
    BY <2>3
  <2> QED
    BY <1>5, <2>1, <2>4, GivenWith
<1>9. CASE given' = given
  BY <1>5, <1>9
<1> QED
  BY <1>7, <1>8, <1>9, GivenGrows

---------------------------------------------------------------------------
(* The invariant with what is kept.                                        *)
KInv == CInv /\ KeepsAll

LEMMA InitKInv ==
  ASSUME Init
  PROVE  KInv
<1>1. given = {}
  BY DEF Init
<1>2. \A a \in A!Assignments : a \in A!Models(given)
  BY <1>1 DEF A!Models, A!Satisfies
<1> QED
  BY <1>2, InitCInv DEF KInv, KeepsAll

LEMMA NextKInv ==
  ASSUME KInv, [Next]_vars
  PROVE  KInv'
<1>1. CInv'
  BY NextCInv DEF KInv
<1>2. CASE Next
  <2>1. KeepsAll'
    BY <1>2, KeepsStep DEF KInv, CInv, MInv, IInv
  <2> QED
    BY <1>1, <2>1 DEF KInv
<1>3. CASE UNCHANGED vars
  <2>1. UNCHANGED <<ok, clauses, trail, given, slips>>
    BY <1>3 DEF vars, database, assignment
  <2>2. KeepsAll'
    BY <2>1 DEF KInv, KeepsAll, Fine, Admits
  <2> QED
    BY <1>1, <2>2 DEF KInv
<1> QED
  BY <1>2, <1>3

(* What the clauses that are kept and the facts say, in the words of       *)
(* NothingLost, is what Admits asks.                                       *)
LEMMA KnownAdmits ==
  ASSUME PlainTypes, TrailInv, ListsInv,
         NEW a \in A!Models(KnownClauses \cup {{trail[i].lit} :
                      i \in {j \in DOMAIN trail : trail[j].level = 0}})
  PROVE  Admits(a, clauses, trail)
<1> DEFINE F == {{trail[i].lit} : i \in {j \in DOMAIN trail : trail[j].level = 0}}
<1>1. /\ \A c \in KnownClauses : \E l \in c : A!Holds(a, l)
      /\ \A c \in F : \E l \in c : A!Holds(a, l)
  BY DEF A!Models, A!Satisfies
<1>2. FactsIn(a, trail)
  <2> SUFFICES ASSUME NEW i \in DOMAIN trail, trail[i].level = 0
               PROVE  A!Holds(a, trail[i].lit)
    BY DEF FactsIn
  <2>1. {trail[i].lit} \in F
    OBVIOUS
  <2> QED
    BY <1>1, <2>1
<1>3. ASSUME NEW i \in DOMAIN clauses
      PROVE  Obeys(a, clauses[i])
  <2> DEFINE c == clauses[i]
  <2>1. \A m \in Meaning(c) : \E l \in m : A!Holds(a, l)
    BY <1>1 DEF KnownClauses
  <2>2. Clean(c, used) /\ used \in SUBSET Vars
    BY StateIs DEF ListsInv, ClausesOf
  <2> HIDE DEF c
  <2>3. c.lits \in Seq(UsedLits) /\ DOMAIN c.lits = 1 .. Len(c.lits)
        /\ Len(c.lits) \in Nat
    BY <2>2, WatchedIs DEF UsedLits
  <2>4. ASSUME c.kind = "single" PROVE Obeys(a, c)
    <3>1. \A m \in Pairs(c.lits) : \E l \in m : A!Holds(a, l)
      BY <2>1, <2>4 DEF Meaning
    <3>2. ASSUME NEW m \in DOMAIN c.lits, NEW n \in DOMAIN c.lits, m < n
          PROVE  A!Holds(a, c.lits[m]) \/ A!Holds(a, c.lits[n])
      <4> DEFINE r == <<m, n>>
                 S == {p \in (DOMAIN c.lits) \X (DOMAIN c.lits) : p[1] < p[2]}
      <4>1. r \in S /\ r[1] = m /\ r[2] = n
        BY <3>2
      <4> HIDE DEF r
      <4>2. {c.lits[r[1]], c.lits[r[2]]} \in Pairs(c.lits)
        BY <4>1 DEF Pairs
      <4>3. {c.lits[m], c.lits[n]} \in Pairs(c.lits)
        BY <4>1, <4>2
      <4> QED
        BY <3>1, <4>3
    <3>3. ASSUME NEW m \in DOMAIN c.lits, NEW n \in DOMAIN c.lits, m # n
          PROVE  A!Holds(a, c.lits[m]) \/ A!Holds(a, c.lits[n])
      <4>1. m < n \/ n < m
        BY <2>3, <3>3
      <4> QED
        BY <3>2, <4>1
    <3>4. \A l, o \in Elements(c.lits) : l # o => A!Holds(a, l) \/ A!Holds(a, o)
      BY <3>3 DEF Elements
    <3> QED
      BY <2>4, <3>4 DEF Obeys
  <2>5. ASSUME c.kind # "single" PROVE Obeys(a, c)
    <3>1. \E l \in Range(c.lits) : A!Holds(a, l)
      BY <2>1, <2>5 DEF Meaning
    <3>2. Range(c.lits) = Elements(c.lits)
      BY DEF Range, Elements
    <3> QED
      BY <2>5, <3>1, <3>2 DEF Obeys
  <2>6. Obeys(a, c)
    BY <2>4, <2>5
  <2> QED
    BY <2>6 DEF c
<1> QED
  BY <1>2, <1>3 DEF Admits

(* addClause shrinks what it is given, propagate moves it about, and       *)
(* simplifyDB, reduceDB and compacting take clauses away: what is left,    *)
(* learnt clauses aside, and the facts say all that was given.             *)
THEOREM SolverKeeps == Spec => []KInv
<1>1. Init => KInv
  BY InitKInv
<1>2. KInv /\ [Next]_vars => KInv'
  BY NextKInv
<1> QED
  BY <1>1, <1>2, PTL DEF Spec

(* So every model of the clauses that are kept with the facts is a model   *)
(* of what the caller gave: no shrinking, sorting, simplifying or deleting *)
(* loses a clause.                                                         *)
THEOREM SolverLoses == Spec => []NothingLost
<1>1. KInv => NothingLost
  <2> DEFINE kept == KnownClauses \cup {{trail[i].lit} :
                       i \in {j \in DOMAIN trail : trail[j].level = 0}}
  <2> SUFFICES ASSUME KInv, Fine, NEW a \in A!Models(kept)
               PROVE  a \in A!Models(given)
    BY DEF NothingLost, Fine
  <2>1. a \in A!Assignments
    BY DEF A!Models
  <2>2. Admits(a, clauses, trail)
    BY KnownAdmits DEF KInv, CInv, MInv, IInv
  <2> QED
    BY <2>1, <2>2 DEF KInv, KeepsAll
<1> QED
  BY <1>1, SolverKeeps, PTL

---------------------------------------------------------------------------
(* The model that a search finds.                                          *)

(* While a search goes on the clauses are not known to have no model, and  *)
(* the assumption of every level that is open is true there.               *)
SearchesOk == call.op \in {"tidy", "solve"} /\ pc # "refused" => ok
AssumedTrue == call.op = "solve" =>
  \A k \in 1 .. Len(lim) : k <= Len(call.lits) =>
    \E i \in DOMAIN trail : trail[i].lit = call.lits[k] /\ trail[i].level <= k
SatRight == answer = "sat" /\ slips = {} =>
  model \in A!Models(given) /\ \A l \in assumed : A!Holds(model, l)

(* A search that goes on has been going on, or begins at level zero. *)
LEMMA GoesOnSolving ==
  ASSUME PlainTypes, CallsTyped, TrailInv, CallInv, NoLevel, Next, call'.op = "solve"
  PROVE  /\ (Inside \/ Searches) /\ call'.lits = call.lits
         /\ \/ call.op = "solve"
            \/ Tidy /\ call.op = "tidy" /\ Len(lim) = 0 /\ UNCHANGED assignment
<1>1. (Inside \/ Searches) /\ call'.lits = call.lits
  BY CallGoes, InsideKeeps DEF Attempts
<1>2. CASE Inside
  BY <1>1, <1>2, InsideKeeps
<1>3. CASE Searches
  <2>1. CASE call.op = "tidy"
    <3>1. call' # call /\ call' # NoCall
      BY <2>1 DEF NoCall
    <3>2. Tidy
      BY <1>3, <3>1, SearchKeeps
    <3> QED
      BY <1>1, <2>1, <3>2 DEF Tidy, NoLevel
  <2> QED
    BY <1>1, <1>3, <2>1, SearchCall
<1> QED
  BY <1>1, <1>2, <1>3

LEMMA SearchesOkStep ==
  ASSUME PlainTypes, CallsTyped, TrailInv, CallInv, NoLevel, SearchesOk, Next
  PROVE  SearchesOk'
<1> SUFFICES ASSUME call'.op \in {"tidy", "solve"}, pc' # "refused" PROVE ok'
  BY DEF SearchesOk
<1>1. CASE Solve
  BY <1>1 DEF Solve
<1>2. CASE ~ Solve
  <2>1. Inside \/ Searches
    BY <1>2, CallGoes DEF Attempts
  <2>2. call.op \in {"tidy", "solve"}
    BY <2>1, SearchCall, InsideKeeps
  <2>3. pc # "refused"
    <3>1. CASE Inside
      BY <3>1, InsideKeeps
    <3>2. CASE Searches /\ pc = "refused"
      <4>1. Refused
        BY <3>2 DEF Searches, Refused, Tidy, Quiet, SearchLearns, Learn, Analyzing,
                    SearchRefutes, RefutesTooLate, Restart, RestartsTooLate,
                    Restarting, AssumeTrue, AssumeOpen, AssumeFalse, AssumesTooLate,
                    Assuming, Deciding, Reduce, Branching, Branch, ModelFound,
                    FoundTooLate, Picking
      <4>2. call' = NoCall
        BY <4>1 DEF Refused, Answers
      <4> QED
        BY <4>2 DEF NoCall
    <3> QED
      BY <2>1, <3>1, <3>2
  <2>4. ok
    BY <2>2, <2>3 DEF SearchesOk
  <2>5. ok' = ok
    <3>1. ~ AddRefutes /\ ~ AttemptRefutes /\ ~ Denied
      BY <2>2 DEF AddRefutes, AttemptRefutes, Denied, During
    <3>2. SearchRefutes => call' = NoCall
      BY DEF SearchRefutes, Answers
    <3>3. ~ SearchRefutes
      BY <3>2 DEF NoCall
    <3>4. ~ AddsSome
      <4>1. AddsSome => pc = "call"
        BY DEF AddsSome, AddAClause, AddASingle, AddAPair, Adds, NextCall
      <4> QED
        BY <2>2, <4>1 DEF CallInv
    <3> QED
      BY <3>1, <3>3, <3>4, GivenGrows
  <2> QED
    BY <2>4, <2>5
<1> QED
  BY <1>1, <1>2

(* What was assumed at a level stays with the level. *)
LEMMA AssumedBack ==
  ASSUME PlainTypes, TrailInv, NEW n \in Nat, Prefix(TrailUpTo(n), trail'),
         lim' = LimUpTo(n), NEW k \in 1 .. Len(lim'), NEW l,
         \E i \in DOMAIN trail : trail[i].lit = l /\ trail[i].level <= k,
         k \in 1 .. Len(lim)
  PROVE  \E i \in DOMAIN trail' : trail'[i].lit = l /\ trail'[i].level <= k
<1>1. PICK i \in DOMAIN trail : trail[i].lit = l /\ trail[i].level <= k
  OBVIOUS
<1>2. /\ Len(lim) \in Nat /\ trail[i].level \in 0 .. Len(lim)
      /\ next \in Nat /\ next <= next
  BY <1>1, StateIs
<1>3. /\ Len(LimUpTo(n)) = IF Len(lim) <= n THEN Len(lim) ELSE n
      /\ Prefix(TrailUpTo(n), trail)
      /\ i \in DOMAIN TrailUpTo(n) <=> trail[i].level <= n
  BY <1>1, <1>2, BackIs
<1>4. trail[i].level <= n
  BY <1>1, <1>2, <1>3
<1>5. i \in DOMAIN TrailUpTo(n) /\ TrailUpTo(n)[i] = trail[i]
  BY <1>3, <1>4 DEF Prefix
<1>6. i \in DOMAIN trail' /\ trail'[i] = trail[i]
  BY <1>5 DEF Prefix
<1> QED
  BY <1>1, <1>6

LEMMA AssumedStep ==
  ASSUME PlainTypes, CallsTyped, TrailInv, ListsInv, CallInv, WorkInv, NoLevel,
         QueueInv, SolveInv, AssumedTrue, Next
  PROVE  AssumedTrue'
<1> SUFFICES ASSUME call'.op = "solve", NEW k \in 1 .. Len(lim'), k <= Len(call'.lits)
             PROVE  \E i \in DOMAIN trail' : /\ trail'[i].lit = call'.lits[k]
                                             /\ trail'[i].level <= k
  BY DEF AssumedTrue
<1>1. /\ Inside \/ Searches
      /\ call'.lits = call.lits
      /\ \/ call.op = "solve"
         \/ Tidy /\ call.op = "tidy" /\ Len(lim) = 0 /\ UNCHANGED assignment
  BY GoesOnSolving
<1>2. Len(lim) \in Nat /\ call.lits \in Seq(UsedLits) /\ Len(call.lits) \in Nat
      /\ lim \in Seq(0 .. Len(trail))
  BY StateIs DEF CallsTyped, CallTypes
<1>3. CASE Tidy /\ Len(lim) = 0 /\ UNCHANGED assignment
  BY <1>3 DEF assignment
<1>4. ASSUME call.op = "solve", k \in 1 .. Len(lim)
      PROVE  \E i \in DOMAIN trail : trail[i].lit = call.lits[k] /\ trail[i].level <= k
  BY <1>1, <1>4 DEF AssumedTrue
<1>5. CASE call.op = "solve" /\ Prefix(trail, trail') /\ lim' = lim
  <2>1. PICK i \in DOMAIN trail : trail[i].lit = call.lits[k] /\ trail[i].level <= k
    BY <1>4, <1>5
  <2>2. i \in DOMAIN trail' /\ trail'[i] = trail[i]
    BY <1>5 DEF Prefix
  <2> QED
    BY <1>1, <2>1, <2>2
<1>6. ASSUME call.op = "solve", NEW n \in Nat, Backs(n)
      PROVE  \E i \in DOMAIN trail' : /\ trail'[i].lit = call'.lits[k]
                                      /\ trail'[i].level <= k
  <2>1. Prefix(TrailUpTo(n), trail') /\ lim' = LimUpTo(n)
    BY <1>6 DEF Backs
  <2>2. Len(LimUpTo(n)) = IF Len(lim) <= n THEN Len(lim) ELSE n
    <3>1. next \in Nat /\ next <= next
      BY StateIs
    <3> QED
      BY <3>1, BackIs
  <2>3. k \in 1 .. Len(lim)
    BY <1>2, <2>1, <2>2
  <2> DEFINE l == call.lits[k]
  <2>4. \E i \in DOMAIN trail : trail[i].lit = l /\ trail[i].level <= k
    BY <1>4, <1>6, <2>3
  <2> HIDE DEF l
  <2>5. \E i \in DOMAIN trail' : trail'[i].lit = l /\ trail'[i].level <= k
    BY <2>1, <2>3, <2>4, AssumedBack
  <2> QED
    BY <1>1, <2>5 DEF l
<1>7. CASE /\ call.op = "solve" /\ lim' = Append(lim, Len(trail))
           /\ Prefix(trail, trail')
           /\ Len(lim) < Len(call.lits) =>
                \E i \in DOMAIN trail' : /\ trail'[i].lit = call.lits[Len(lim) + 1]
                                         /\ trail'[i].level <= Len(lim) + 1
  <2>1. Len(lim') = Len(lim) + 1
    BY <1>2, <1>7
  <2>2. CASE k = Len(lim) + 1
    <3>1. Len(lim) < Len(call.lits)
      BY <1>1, <1>2, <2>2
    <3> QED
      BY <1>1, <1>7, <2>2, <3>1
  <2>3. CASE k # Len(lim) + 1
    <3>1. k \in 1 .. Len(lim)
      BY <1>2, <2>1, <2>3
    <3>2. PICK i \in DOMAIN trail : trail[i].lit = call.lits[k] /\ trail[i].level <= k
      BY <1>4, <1>7, <3>1
    <3>3. i \in DOMAIN trail' /\ trail'[i] = trail[i]
      BY <1>7 DEF Prefix
    <3> QED
      BY <1>1, <3>2, <3>3
  <2> QED
    BY <2>2, <2>3
<1>8. CASE call.op = "solve" /\ Inside
  <2>1. CASE Resolve
    BY <1>5, <1>8, <2>1, PrefixItself DEF Resolve, assignment
  <2>2. CASE Visits \/ NextWatchList
    BY <1>5, <1>8, <2>2, VisitsGrow
  <2> QED
    BY <1>8, <2>1, <2>2 DEF Inside
<1>9. CASE call.op = "solve" /\ Searches
  <2>1. CASE SearchLearns
    BY <1>6, <1>9, <2>1, LearnBacks DEF Learns
  <2>2. CASE Restart
    BY <1>6, <1>9, <2>2, CancelsBack DEF AllBacks
  <2>3. CASE Tidy \/ Reduce
    BY <1>5, <1>9, <2>3, PrefixItself DEF Tidy, Reduce, assignment
  <2>4. CASE AssumeTrue
    <3>1. /\ Assuming /\ IsTrue(Assumption) /\ trail' = trail
          /\ lim' = Append(lim, Len(trail))
      BY <2>4 DEF AssumeTrue
    <3>2. PICK i \in DOMAIN trail : trail[i].lit = call.lits[Len(lim) + 1]
      BY <3>1 DEF IsTrue, Assumption, CurrentLevel
    <3>3. trail[i].level \in 0 .. Len(lim)
      BY StateIs
    <3>4. trail[i].level <= Len(lim) + 1
      BY <1>2, <3>3
    <3> QED
      BY <1>7, <1>9, <3>1, <3>2, <3>4, PrefixItself
  <2>5. CASE AssumeOpen \/ Branch
    <3>1. PICK l \in UsedLits : GuessesLit(l)
      BY <2>5, GuessesIs
    <3>2. /\ lim' = Append(lim, Len(trail))
          /\ trail' = Append(trail, Entry(l, 0, Len(lim) + 1))
      BY <3>1 DEF GuessesLit
    <3>3. /\ Prefix(trail, trail') /\ Len(trail) + 1 \in DOMAIN trail'
          /\ trail'[Len(trail) + 1].lit = l
          /\ trail'[Len(trail) + 1].level = Len(lim) + 1
      <4>1. trail \in Seq(EntryTypes(used, next)) /\ Len(trail) \in Nat
        BY StateIs
      <4> DEFINE e == Entry(l, 0, Len(lim) + 1)
      <4>2. e.lit = l /\ e.level = Len(lim) + 1
        BY DEF Entry
      <4> HIDE DEF e
      <4>3. trail' = Append(trail, e)
        BY <3>2 DEF e
      <4>4. /\ DOMAIN trail' = 1 .. Len(trail) + 1 /\ trail'[Len(trail) + 1] = e
            /\ \A i \in DOMAIN trail : i \in DOMAIN trail' /\ trail'[i] = trail[i]
        BY <4>1, <4>3
      <4> QED
        BY <4>1, <4>2, <4>4 DEF Prefix
    <3>4. Len(lim) < Len(call.lits) => l = call.lits[Len(lim) + 1]
      <4>1. CASE Assuming /\ l = Assumption
        BY <4>1 DEF Assumption, CurrentLevel
      <4>2. CASE pc = "pick" \/ (Deciding /\ ~ Assuming)
        BY <1>2, <4>2 DEF SolveInv, Assuming, CurrentLevel
      <4> QED
        BY <1>9, <3>1, <4>1, <4>2, SearchGuesses
    <3>5. Len(lim) + 1 <= Len(lim) + 1
      BY <1>2
    <3> QED
      BY <1>7, <1>9, <3>2, <3>3, <3>4, <3>5
  <2>6. CASE \/ Refused \/ SearchRefutes \/ RefutesTooLate \/ RestartsTooLate
             \/ AssumeFalse \/ AssumesTooLate \/ ModelFound \/ FoundTooLate
    <3>1. call' = NoCall
      BY <2>6 DEF Refused, SearchRefutes, RefutesTooLate, RestartsTooLate, Bail,
                  AssumeFalse, AssumesTooLate, ModelFound, FoundTooLate, Answers
    <3> QED
      BY <3>1 DEF NoCall
  <2> QED
    BY <1>9, <2>1, <2>2, <2>3, <2>4, <2>5, <2>6 DEF Searches
<1> QED
  BY <1>1, <1>3, <1>8, <1>9

(* Which steps say that there is a model. *)
LEMMA SatFrom ==
  ASSUME Next, answer' = "sat"
  PROVE  ModelFound \/ UNCHANGED <<answer, given, assumed, model>>
<1>1. CASE AddsSome \/ Solve
  BY <1>1 DEF AddsSome, AddAClause, AddASingle, AddAPair, Adds, Solve
<1>2. CASE \/ AddFinished \/ AddRefutes \/ LightSolve \/ Reset \/ PopCheck
           \/ AnswerKnown \/ Attempt
  BY <1>2 DEF AddFinished, AddRefutes, LightSolve, Reset, PopCheck, GoesBack,
              AnswerKnown, Attempt, outcome
<1>3. CASE Inside
  BY <1>3 DEF Inside, Visits, NextWatchList, VisitTrue, VisitMoves, VisitForces,
              VisitFails, VisitSettles, VisitRefutes, VisitSwaps, VisitClashes, Keep,
              Moves, Conflict, UnchangedByVisit, Resolve, outcome
<1>4. CASE \/ TrySucceeds \/ Denied \/ CheckSucceeds \/ AttemptRefutes
           \/ AssertSucceeds \/ AssertFails \/ CheckFails
  BY <1>4 DEF TrySucceeds, Denied, CheckSucceeds, Ends, AttemptRefutes,
              AssertSucceeds, AssertFails, CheckFails, UnchangedInAttempt
<1>5. CASE SearchLearns \/ TryBacktracks
  BY <1>5 DEF SearchLearns, TryBacktracks, Learn, outcome
<1>6. CASE \/ RefutesTooLate \/ RestartsTooLate \/ AssumesTooLate \/ Refused
           \/ SearchRefutes \/ AssumeFalse \/ FoundTooLate
  BY <1>6 DEF RefutesTooLate, RestartsTooLate, AssumesTooLate, Refused, SearchRefutes,
              AssumeFalse, FoundTooLate, Bail, Answers
<1>7. CASE Restart \/ Tidy \/ AssumeTrue \/ AssumeOpen \/ Reduce \/ Branch
  BY <1>7 DEF Restart, Tidy, AssumeTrue, AssumeOpen, Reduce, Branch, Decide,
              UnchangedInside, UnchangedInSearch
<1>8. CASE Returned
  BY <1>8 DEF Returned, vars, outcome
<1> QED
  BY <1>1, <1>2, <1>3, <1>4, <1>5, <1>6, <1>7, <1>8
     DEF Next, AddsSome, Inside, Visits

(* When no variable is open the assignment is what the trail says.         *)
LEMMA FoundHolds ==
  ASSUME PlainTypes, TrailInv, OpenVars = {}
  PROVE  LET found == [v \in Vars |-> IsTrue(<<v, TRUE>>)]
         IN  /\ found \in A!Assignments
             /\ \A i \in DOMAIN trail : A!Holds(found, trail[i].lit)
             /\ \A l \in UsedLits : IsFalse(l) \/ A!Holds(found, l)
<1> DEFINE found == [v \in Vars |-> IsTrue(<<v, TRUE>>)]
<1>1. found \in A!Assignments
  BY FoundTyped DEF A!Assignments
<1>2. \A v \in Vars : found[v] = IsTrue(<<v, TRUE>>)
  OBVIOUS
<1> HIDE DEF found
<1>3. ASSUME NEW i \in DOMAIN trail PROVE A!Holds(found, trail[i].lit)
  <2>1. trail[i].lit \in UsedLits /\ used \in SUBSET Vars /\ OneEach(trail)
    BY StateIs
  <2>2. PICK v \in Vars, b \in BOOLEAN : trail[i].lit = <<v, b>>
    BY <2>1 DEF UsedLits
  <2>3. IsTrue(<<v, TRUE>>) <=> b = TRUE
    <3>1. CASE b = TRUE
      BY <2>2, <3>1 DEF IsTrue
    <3>2. ASSUME b = FALSE, IsTrue(<<v, TRUE>>) PROVE FALSE
      <4>1. PICK j \in DOMAIN trail : trail[j].lit = <<v, TRUE>>
        BY <3>2 DEF IsTrue
      <4>2. trail[j].lit[1] = v /\ trail[i].lit[1] = v
        BY <2>2, <4>1
      <4>3. i = j
        BY <2>1, <4>2 DEF OneEach
      <4>4. <<v, TRUE>> = <<v, FALSE>>
        BY <2>2, <3>2, <4>1, <4>3
      <4> QED
        BY <4>4
    <3> QED
      BY <3>1, <3>2
  <2>4. found[v] = b
    <3>1. IsTrue(<<v, TRUE>>) \in BOOLEAN
      BY DEF IsTrue
    <3> QED
      BY <1>2, <2>2, <2>3, <3>1
  <2>5. trail[i].lit[1] = v /\ trail[i].lit[2] = b
    BY <2>2
  <2> QED
    BY <2>4, <2>5 DEF A!Holds
<1>4. ASSUME NEW l \in UsedLits PROVE IsFalse(l) \/ A!Holds(found, l)
  <2>1. PICK v \in used, b \in BOOLEAN : l = <<v, b>>
    BY DEF UsedLits
  <2>2. ~ IsOpen(<<v, TRUE>>)
    BY <2>1 DEF OpenVars
  <2>3. IsTrue(<<v, TRUE>>) \/ IsTrue(<<v, FALSE>>)
    <3>1. Neg(<<v, TRUE>>) = <<v, FALSE>>
      BY DEF Neg
    <3> QED
      BY <2>2, <3>1 DEF IsOpen, IsFalse
  <2>4. IsTrue(l) \/ IsFalse(l)
    <3>1. CASE b = TRUE
      <4>1. Neg(l) = <<v, FALSE>>
        BY <2>1, <3>1 DEF Neg
      <4> QED
        BY <2>1, <2>3, <3>1, <4>1 DEF IsFalse
    <3>2. CASE b = FALSE
      <4>1. Neg(l) = <<v, TRUE>>
        BY <2>1, <3>2 DEF Neg
      <4> QED
        BY <2>1, <2>3, <3>2, <4>1 DEF IsFalse
    <3> QED
      BY <3>1, <3>2
  <2> QED
    BY <1>3, <2>4 DEF IsTrue
<1> QED
  BY <1>1, <1>3, <1>4 DEF found

LEMMA FoundObeys ==
  ASSUME PlainTypes, TrailInv, ListsInv, GuardInv, Fine, pc # "conflict",
         qhead = Len(trail), NEW a, \A l \in UsedLits : IsFalse(l) \/ A!Holds(a, l),
         NEW id \in DOMAIN clauses
  PROVE  Obeys(a, clauses[id])
<1> DEFINE c == clauses[id]
<1>1. Guarded(c, trail, {j \in DOMAIN trail : j <= Len(trail)}, {})
  BY DoneGuards
<1>2. Clean(c, used)
  BY DEF ListsInv, ClausesOf
<1> HIDE DEF c
<1>3. Elements(c.lits) \subseteq UsedLits
  <2>1. c.lits \in Seq(UsedLits)
    BY <1>2, StateIs, WatchedIs DEF UsedLits
  <2> QED
    BY <2>1 DEF Elements
<1>4. /\ c.kind = "single" =>
           \A l, m \in Elements(c.lits) : IsFalse(l) /\ IsFalse(m) => l = m
      /\ c.kind # "single" => \E l \in Elements(c.lits) : ~ IsFalse(l)
  BY <1>1, <1>2, GuardedMisses
<1>5. Obeys(a, c)
  <2>1. CASE c.kind = "single"
    <3>1. \A l, m \in Elements(c.lits) : l # m => A!Holds(a, l) \/ A!Holds(a, m)
      BY <1>3, <1>4, <2>1
    <3> QED
      BY <2>1, <3>1 DEF Obeys
  <2>2. CASE c.kind # "single"
    BY <1>3, <1>4, <2>2 DEF Obeys
  <2> QED
    BY <2>1, <2>2
<1> QED
  BY <1>5 DEF c

LEMMA SatStep ==
  ASSUME PlainTypes, CallsTyped, TrailInv, ListsInv, CallInv, QueueInv, GuardInv,
         SolveInv, KeepsAll, SearchesOk, AssumedTrue, SatRight, Next
  PROVE  SatRight'
<1> SUFFICES ASSUME answer' = "sat", slips' = {}
             PROVE  model' \in A!Models(given') /\ \A l \in assumed' : A!Holds(model', l)
  BY DEF SatRight
<1>1. slips = {}
  BY GivenGrows
<1>2. CASE UNCHANGED <<answer, given, assumed, model>>
  BY <1>1, <1>2 DEF SatRight
<1>3. CASE ModelFound
  <2> DEFINE found == [v \in Vars |-> IsTrue(<<v, TRUE>>)]
  <2>1. /\ Picking /\ OpenVars = {} /\ model' = found
        /\ given' = given /\ assumed' = assumed
    BY <1>3 DEF ModelFound, UnchangedByAnswer, UnchangedInSearch
  <2>2. /\ pc \in {"propagate", "decide", "pick"} /\ call.op = "solve"
        /\ pc = "propagate" => qhead = Len(trail)
        /\ Len(lim) >= Len(call.lits)
    BY <2>1, StateIs DEF Picking, Branching, Assuming, Deciding, Quiet, Searching, During,
                         CallInv, SolveInv, CurrentLevel, CallsTyped, CallTypes
  <2>3. Fine
    BY <1>1, <2>2 DEF SearchesOk, Fine
  <2>4. qhead = Len(trail) /\ pc # "conflict"
    BY <2>2, <2>3 DEF QueueInv
  <2>5. /\ found \in A!Assignments
        /\ \A i \in DOMAIN trail : A!Holds(found, trail[i].lit)
        /\ \A l \in UsedLits : IsFalse(l) \/ A!Holds(found, l)
    BY <2>1, FoundHolds
  <2> HIDE DEF found
  <2>6. Admits(found, clauses, trail)
    BY <2>3, <2>4, <2>5, FoundObeys DEF Admits, FactsIn
  <2>7. found \in A!Models(given)
    BY <2>3, <2>5, <2>6 DEF KeepsAll
  <2>8. \A l \in assumed : A!Holds(found, l)
    <3> SUFFICES ASSUME NEW l \in assumed PROVE A!Holds(found, l)
      OBVIOUS
    <3>1. call.lits \in Seq(UsedLits) /\ Len(lim) \in Nat
      BY StateIs DEF CallsTyped, CallTypes
    <3>2. PICK k \in DOMAIN call.lits : call.lits[k] = l
      BY <2>2 DEF SolveInv, Range
    <3>3. k \in 1 .. Len(lim) /\ k <= Len(call.lits)
      BY <2>2, <3>1
    <3>4. PICK i \in DOMAIN trail : trail[i].lit = l
      BY <2>2, <3>2, <3>3 DEF AssumedTrue
    <3> QED
      BY <2>5, <3>4
  <2> QED
    BY <2>1, <2>7, <2>8
<1> QED
  BY <1>2, <1>3, SatFrom

(* The invariant with what a search that finds a model rests on.           *)
SInv == KInv /\ SearchesOk /\ AssumedTrue /\ SatRight

LEMMA InitSInv ==
  ASSUME Init
  PROVE  SInv
<1>1. call.op = "none" /\ answer = "none"
  BY DEF Init, NoCall
<1> QED
  BY <1>1, InitKInv DEF SInv, SearchesOk, AssumedTrue, SatRight

LEMMA NextSInv ==
  ASSUME SInv, [Next]_vars
  PROVE  SInv'
<1>1. KInv'
  BY NextKInv DEF SInv
<1>2. CASE Next
  <2> USE DEF SInv, KInv, CInv, MInv, IInv
  <2>1. SearchesOk'
    BY <1>2, SearchesOkStep
  <2>2. AssumedTrue'
    BY <1>2, AssumedStep
  <2>3. SatRight'
    BY <1>2, SatStep
  <2> QED
    BY <1>1, <2>1, <2>2, <2>3
<1>3. CASE UNCHANGED vars
  <2>1. /\ UNCHANGED <<ok, trail, lim, pc, call, given, slips>>
        /\ UNCHANGED <<assumed, answer, model>>
    BY <1>3 DEF vars, assignment, outcome
  <2>2. SearchesOk' /\ AssumedTrue' /\ SatRight'
    BY <2>1 DEF SInv, SearchesOk, AssumedTrue, SatRight
  <2> QED
    BY <1>1, <2>2 DEF SInv
<1> QED
  BY <1>2, <1>3

(* While a search goes on, every level that is open for an assumption has  *)
(* it true; the model that is taken when no variable is left satisfies all *)
(* that was given, and the assumptions.                                    *)
THEOREM SolverSearches == Spec => []SInv
<1>1. Init => SInv
  BY InitSInv
<1>2. SInv /\ [Next]_vars => SInv'
  BY NextSInv
<1> QED
  BY <1>1, <1>2, PTL DEF Spec

(* MiniSATSolver::solve answers right: after SAT the model has all clauses *)
(* given so far and the assumptions, after UNSAT nothing has, in whatever  *)
(* order clauses, attempts and searches came before.                       *)
THEOREM SolverAnswers == Spec => []AnswersRight
<1>1. SInv => AnswersRight
  <2> SUFFICES ASSUME SInv PROVE AnswersRight
    OBVIOUS
  <2>1. SatRight /\ UnsatRight
    BY DEF SInv, KInv, CInv, MInv
  <2> QED
    BY <2>1 DEF SatRight, UnsatRight, AnswersRight, A!AnswersRight
<1> QED
  BY <1>1, SolverSearches, PTL
=============================================================================
