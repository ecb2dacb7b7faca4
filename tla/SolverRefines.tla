-------------------------- MODULE SolverRefines --------------------------
(***************************************************************************)
(* Solver implements SatSearch: as long as nothing slips, every step of it *)
(* is a step of SatSearch or leaves its variables as they are.             *)
(***************************************************************************)
EXTENDS SolverComplete

(* The trail and the clauses as SatSearch has them.                        *)
AsEntry(e) == [lit |-> e.lit, guess |-> e.level > 0 /\ e.why = 0]
AsTrail(t) == [i \in DOMAIN t |-> AsEntry(t[i])]
KnownOf(cl) == UNION {Meaning(cl[i]) : i \in DOMAIN cl}

IsMapped(t) ==
  /\ AsTrail(t) \in Seq(A!Entries) /\ Len(AsTrail(t)) = Len(t)
  /\ DOMAIN AsTrail(t) = 1 .. Len(t) /\ DOMAIN t = 1 .. Len(t)
  /\ Len(t) \in Nat
  /\ \A i \in DOMAIN t :
       /\ AsTrail(t)[i] = AsEntry(t[i])
       /\ AsTrail(t)[i].lit = t[i].lit
       /\ t[i].level > 0 /\ t[i].why = 0 => AsTrail(t)[i].guess
       /\ t[i].level = 0 \/ t[i].why # 0 => ~ AsTrail(t)[i].guess

LEMMA AsTrailIs ==
  ASSUME NEW U \in SUBSET Vars, NEW n \in Nat, NEW t \in Seq(EntryTypes(U, n))
  PROVE  IsMapped(t)
<1>1. /\ Len(t) \in Nat /\ DOMAIN t = 1 .. Len(t)
      /\ \A i \in DOMAIN t : /\ t[i].lit \in U \X BOOLEAN
                             /\ t[i].why \in 0 .. n - 1 /\ t[i].level \in Nat
  BY EntryIs
<1>2. \A i \in DOMAIN t : t[i].lit \in A!Lits
  BY <1>1 DEF A!Lits
<1>3. \A i \in DOMAIN t : AsEntry(t[i]) \in A!Entries
  BY <1>2 DEF A!Entries, AsEntry
<1>4. AsTrail(t) \in [1 .. Len(t) -> A!Entries]
  BY <1>1, <1>3 DEF AsTrail
<1>5. AsTrail(t) \in Seq(A!Entries) /\ Len(AsTrail(t)) = Len(t)
  BY <1>1, <1>4
<1>6. \A i \in DOMAIN t : AsTrail(t)[i] = AsEntry(t[i])
  BY DEF AsTrail
<1>7. ASSUME NEW i \in DOMAIN t
      PROVE  /\ AsEntry(t[i]).lit = t[i].lit
             /\ t[i].level > 0 /\ t[i].why = 0 => AsEntry(t[i]).guess
             /\ t[i].level = 0 \/ t[i].why # 0 => ~ AsEntry(t[i]).guess
  <2>1. t[i].level \in Nat
    BY <1>1
  <2>2. AsEntry(t[i]).guess <=> (t[i].level > 0 /\ t[i].why = 0)
    BY DEF AsEntry
  <2> QED
    BY <2>1, <2>2 DEF AsEntry
<1>8. \A i \in DOMAIN t :
        /\ AsTrail(t)[i].lit = t[i].lit
        /\ t[i].level > 0 /\ t[i].why = 0 => AsTrail(t)[i].guess
        /\ t[i].level = 0 \/ t[i].why # 0 => ~ AsTrail(t)[i].guess
  BY <1>6, <1>7
<1> QED
  BY <1>1, <1>4, <1>5, <1>6, <1>8 DEF IsMapped

(* What the clauses of a solver say, one by one. *)
LEMMA MeaningIs ==
  ASSUME NEW U \in SUBSET Vars, NEW c, Clean(c, U), NEW s
  PROVE  s \in Meaning(c) <=>
           IF c.kind = "single"
           THEN \E l, m \in Elements(c.lits) : l # m /\ s = {l, m}
           ELSE s = Elements(c.lits)
<1>1. /\ c.lits \in Seq(U \X BOOLEAN) /\ DOMAIN c.lits = 1 .. Len(c.lits)
      /\ Len(c.lits) \in Nat /\ DistinctVars(c.lits)
  BY WatchedIs
<1>2. CASE c.kind # "single"
  BY <1>2 DEF Meaning, Range, Elements
<1>3. CASE c.kind = "single"
  <2> DEFINE q == c.lits
             S == {r \in (DOMAIN q) \X (DOMAIN q) : r[1] < r[2]}
  <2>1. s \in Meaning(c) <=> \E p \in S : s = {q[p[1]], q[p[2]]}
    BY <1>3 DEF Meaning, Pairs
  <2> HIDE DEF q
  <2>2. /\ q \in Seq(U \X BOOLEAN) /\ DOMAIN q = 1 .. Len(q) /\ Len(q) \in Nat
        /\ DistinctVars(q)
    BY <1>1 DEF q
  <2>3. ASSUME NEW p \in S, s = {q[p[1]], q[p[2]]}
        PROVE  \E l, m \in Elements(q) : l # m /\ s = {l, m}
    <3>1. p[1] \in DOMAIN q /\ p[2] \in DOMAIN q /\ p[1] # p[2]
      BY <2>2
    <3>2. q[p[1]] # q[p[2]]
      BY <2>2, <3>1 DEF DistinctVars
    <3> QED
      BY <2>3, <3>1, <3>2 DEF Elements
  <2>4. ASSUME NEW l \in Elements(q), NEW m \in Elements(q), l # m, s = {l, m}
        PROVE  \E p \in S : s = {q[p[1]], q[p[2]]}
    <3>1. PICK i \in DOMAIN q : q[i] = l
      BY DEF Elements
    <3>2. PICK j \in DOMAIN q : q[j] = m
      BY DEF Elements
    <3>3. i < j \/ j < i
      BY <2>2, <2>4, <3>1, <3>2
    <3>4. CASE i < j
      <4> DEFINE r == <<i, j>>
      <4>1. r \in S /\ r[1] = i /\ r[2] = j
        BY <3>4
      <4> HIDE DEF r
      <4> QED
        BY <2>4, <3>1, <3>2, <4>1
    <3>5. CASE j < i
      <4> DEFINE r == <<j, i>>
      <4>1. r \in S /\ r[1] = j /\ r[2] = i
        BY <3>5
      <4> HIDE DEF r
      <4>2. s = {q[r[1]], q[r[2]]}
        BY <2>4, <3>1, <3>2, <4>1
      <4> QED
        BY <4>1, <4>2
    <3> QED
      BY <3>3, <3>4, <3>5
  <2> QED
    BY <1>3, <2>1, <2>3, <2>4 DEF q
<1> QED
  BY <1>2, <1>3

LEMMA MeaningObeys ==
  ASSUME NEW U \in SUBSET Vars, NEW c, Clean(c, U), NEW a
  PROVE  Obeys(a, c) <=> \A s \in Meaning(c) : A!Satisfies(a, s)
<1>1. CASE c.kind # "single"
  <2>1. \A s : s \in Meaning(c) <=> s = Elements(c.lits)
    BY <1>1, MeaningIs
  <2> QED
    BY <1>1, <2>1 DEF Obeys, A!Satisfies
<1>2. CASE c.kind = "single"
  <2>1. \A s : s \in Meaning(c) <=>
                 \E l, m \in Elements(c.lits) : l # m /\ s = {l, m}
    BY <1>2, MeaningIs
  <2>2. ASSUME Obeys(a, c), NEW s \in Meaning(c) PROVE A!Satisfies(a, s)
    <3>1. PICK l \in Elements(c.lits), m \in Elements(c.lits) : l # m /\ s = {l, m}
      BY <2>1
    <3> QED
      BY <1>2, <2>2, <3>1 DEF Obeys, A!Satisfies
  <2>3. ASSUME \A s \in Meaning(c) : A!Satisfies(a, s) PROVE Obeys(a, c)
    <3>1. ASSUME NEW l \in Elements(c.lits), NEW m \in Elements(c.lits), l # m
          PROVE  A!Holds(a, l) \/ A!Holds(a, m)
      <4>1. {l, m} \in Meaning(c)
        BY <2>1, <3>1
      <4>2. A!Satisfies(a, {l, m})
        BY <2>3, <4>1
      <4> QED
        BY <4>2 DEF A!Satisfies
    <3> QED
      BY <1>2, <3>1 DEF Obeys
  <2> QED
    BY <2>2, <2>3
<1> QED
  BY <1>1, <1>2

LEMMA MeaningTyped ==
  ASSUME NEW U \in SUBSET Vars, NEW c, Clean(c, U), NEW s \in Meaning(c)
  PROVE  s \in A!Clauses /\ s \subseteq U \X BOOLEAN
<1>1. \A l \in Elements(c.lits) : l \in U \X BOOLEAN
  <2>1. c.lits \in Seq(U \X BOOLEAN)
    BY WatchedIs
  <2> QED
    BY <2>1 DEF Elements
<1>2. U \X BOOLEAN \subseteq A!Lits
  BY DEF A!Lits
<1>3. s \subseteq Elements(c.lits)
  BY MeaningIs
<1> QED
  BY <1>1, <1>2, <1>3 DEF A!Clauses

LEMMA KnownTyped ==
  ASSUME NEW U \in SUBSET Vars, NEW n, NEW cl, ClausesOf(cl, U, n)
  PROVE  /\ KnownOf(cl) \subseteq A!Clauses
         /\ \A s \in KnownOf(cl) : s \subseteq U \X BOOLEAN
         /\ \A a : Obeyed(a, cl) <=> \A s \in KnownOf(cl) : A!Satisfies(a, s)
<1>1. \A i \in DOMAIN cl : Clean(cl[i], U)
  BY DEF ClausesOf
<1>2. \A s : s \in KnownOf(cl) <=> \E i \in DOMAIN cl : s \in Meaning(cl[i])
  BY DEF KnownOf
<1>3. \A i \in DOMAIN cl : \A s \in Meaning(cl[i]) :
        s \in A!Clauses /\ s \subseteq U \X BOOLEAN
  BY <1>1, MeaningTyped
<1>4. ASSUME NEW a
      PROVE  Obeyed(a, cl) <=> \A s \in KnownOf(cl) : A!Satisfies(a, s)
  <2>1. \A i \in DOMAIN cl :
          Obeys(a, cl[i]) <=> \A s \in Meaning(cl[i]) : A!Satisfies(a, s)
    BY <1>1, MeaningObeys
  <2> QED
    BY <1>2, <2>1 DEF Obeyed
<1> QED
  BY <1>2, <1>3, <1>4

LEMMA SameElements ==
  ASSUME NEW U \in SUBSET Vars, NEW c, Clean(c, U), NEW d, Clean(d, U),
         d.kind = c.kind, Elements(d.lits) = Elements(c.lits)
  PROVE  Meaning(d) = Meaning(c)
<1>1. \A s : s \in Meaning(c) <=> s \in Meaning(d)
  <2> SUFFICES ASSUME NEW s PROVE s \in Meaning(c) <=> s \in Meaning(d)
    OBVIOUS
  <2>1. s \in Meaning(c) <=>
          IF c.kind = "single"
          THEN \E l, m \in Elements(c.lits) : l # m /\ s = {l, m}
          ELSE s = Elements(c.lits)
    BY MeaningIs
  <2>2. s \in Meaning(d) <=>
          IF d.kind = "single"
          THEN \E l, m \in Elements(d.lits) : l # m /\ s = {l, m}
          ELSE s = Elements(d.lits)
    BY MeaningIs
  <2> QED
    BY <2>1, <2>2
<1> QED
  BY <1>1

(* Every level that is open begins with a guess, or at the end of the      *)
(* trail when its assumption was true already; no literal is put on the    *)
(* trail before the level has its guess.                                   *)
Begins(t, L) == \A k \in DOMAIN L :
  L[k] < Len(t) => t[L[k] + 1].level > 0 /\ t[L[k] + 1].why = 0
LevelsBegin ==
  /\ Begins(trail, lim)
  /\ pc \in {"propagate", "conflict"} /\ Len(lim) > 0 =>
       lim[Len(lim)] < Len(trail)

(* A conflict at level zero is a clause all of whose literals are false.   *)
ConflictFalse ==
  pc = "conflict" /\ Len(lim) = 0 => \E c \in KnownClauses : \A l \in c : IsFalse(l)

LEMMA FactsMapped ==
  ASSUME NEW U \in SUBSET Vars, NEW n \in Nat, NEW t \in Seq(EntryTypes(U, n)),
         NEW L \in Seq(Int), Levelled(t, L), NEW a
  PROVE  /\ (\A l \in A!Facts(AsTrail(t)) : A!Holds(a, l)) => FactsIn(a, t)
         /\ Len(L) = 0 /\ FactsIn(a, t) =>
              \A l \in A!Facts(AsTrail(t)) : A!Holds(a, l)
         /\ Len(L) = 0 => A!Guesses(AsTrail(t)) = {}
<1> DEFINE u == AsTrail(t)
<1>1. /\ Len(t) \in Nat /\ DOMAIN t = 1 .. Len(t) /\ DOMAIN u = 1 .. Len(t)
      /\ \A i \in DOMAIN t : /\ u[i].lit = t[i].lit
                             /\ u[i].guess => t[i].level > 0
      /\ \A i \in DOMAIN t : t[i].level \in Nat
  <2>1. IsMapped(t)
    BY AsTrailIs
  <2>2. \A i \in DOMAIN t : t[i].level \in Nat
    BY EntryIs
  <2>3. \A i \in DOMAIN t : t[i].level > 0 \/ t[i].level = 0
    BY <2>2
  <2> QED
    BY <2>1, <2>2, <2>3 DEF IsMapped
<1> HIDE DEF u
<1>2. Len(L) \in Nat /\ DOMAIN L = 1 .. Len(L) /\ \A k \in DOMAIN L : L[k] \in Int
  OBVIOUS
<1>3. ASSUME NEW i \in DOMAIN t, t[i].level = 0
      PROVE  t[i].lit \in A!Facts(u)
  <2>1. ASSUME NEW j \in 1 .. i, u[j].guess PROVE FALSE
    <3>1. j \in DOMAIN t /\ t[j].level \in DOMAIN L
      BY <1>1, <1>2, <2>1 DEF Levelled
    <3> DEFINE d == t[j].level
    <3>5. d \in DOMAIN L /\ d <= t[j].level
      BY <1>1, <3>1
    <3>6. L[d] < j
      BY <3>1, <3>5 DEF Levelled
    <3>2. L[t[j].level] < j
      BY <3>6
    <3> HIDE DEF d
    <3>3. L[t[j].level] < i
      BY <1>1, <1>2, <3>1, <3>2
    <3>4. t[j].level <= t[i].level
      BY <3>1, <3>3 DEF Levelled
    <3> QED
      BY <1>1, <1>2, <1>3, <3>1, <3>4
  <2> QED
    BY <1>1, <2>1 DEF A!Facts
<1>4. ASSUME Len(L) = 0, NEW i \in DOMAIN t
      PROVE  t[i].level = 0
  BY <1>1, <1>2, <1>4 DEF Levelled
<1>5. (\A l \in A!Facts(u) : A!Holds(a, l)) => FactsIn(a, t)
  BY <1>3 DEF FactsIn
<1>6. ASSUME Len(L) = 0, FactsIn(a, t), NEW l \in A!Facts(u)
      PROVE  A!Holds(a, l)
  <2>1. PICK i \in DOMAIN u : l = u[i].lit
    BY DEF A!Facts
  <2> QED
    BY <1>1, <1>4, <1>6, <2>1 DEF FactsIn
<1>7. Len(L) = 0 => A!Guesses(u) = {}
  BY <1>1, <1>4 DEF A!Guesses
<1> QED
  BY <1>5, <1>6, <1>7 DEF u

LEMMA ModelsMapped ==
  ASSUME NEW U \in SUBSET Vars, NEW n \in Nat, NEW t \in Seq(EntryTypes(U, n)),
         NEW L \in Seq(Int), Levelled(t, L), NEW cl, ClausesOf(cl, U, n), NEW a
  PROVE  /\ a \in A!ModelsIn(KnownOf(cl), A!Facts(AsTrail(t))) =>
              a \in A!Assignments /\ Allows(a, cl, t)
         /\ a \in A!Assignments /\ Allows(a, cl, t) /\ Len(L) = 0 =>
              a \in A!ModelsIn(KnownOf(cl), A!Facts(AsTrail(t)))
<1>1. Obeyed(a, cl) <=> \A s \in KnownOf(cl) : A!Satisfies(a, s)
  BY KnownTyped
<1>2. /\ (\A l \in A!Facts(AsTrail(t)) : A!Holds(a, l)) => FactsIn(a, t)
      /\ Len(L) = 0 /\ FactsIn(a, t) =>
           \A l \in A!Facts(AsTrail(t)) : A!Holds(a, l)
  BY FactsMapped
<1> QED
  BY <1>1, <1>2 DEF A!ModelsIn, A!Models, Allows

LEMMA ContinuesMapped ==
  ASSUME NEW U \in SUBSET Vars, NEW n \in Nat, NEW t \in Seq(EntryTypes(U, n)),
         NEW m \in Nat, NEW s \in Seq(EntryTypes(U, m)), Prefix(t, s),
         \A i \in DOMAIN s \ DOMAIN t : s[i].level = 0 \/ s[i].why # 0
  PROVE  A!Continues(AsTrail(t), AsTrail(s))
<1>1. /\ Len(t) \in Nat /\ DOMAIN t = 1 .. Len(t) /\ Len(AsTrail(t)) = Len(t)
      /\ \A i \in DOMAIN t :
           AsTrail(t)[i] = AsEntry(t[i])
  <2>1. IsMapped(t)
    BY AsTrailIs
  <2> QED
    BY <2>1 DEF IsMapped
<1>2. /\ Len(s) \in Nat /\ DOMAIN s = 1 .. Len(s) /\ Len(AsTrail(s)) = Len(s)
      /\ \A i \in DOMAIN s :
           /\ AsTrail(s)[i] = AsEntry(s[i])
           /\ s[i].level = 0 \/ s[i].why # 0 => ~ AsTrail(s)[i].guess
  <2>1. IsMapped(s)
    BY AsTrailIs
  <2> QED
    BY <2>1 DEF IsMapped
<1>3. Len(t) <= Len(s)
  BY <1>1, <1>2 DEF Prefix
<1>4. \A i \in 1 .. Len(t) : AsTrail(s)[i] = AsTrail(t)[i]
  BY <1>1, <1>2 DEF Prefix
<1>5. ASSUME NEW i \in Len(t) + 1 .. Len(s)
      PROVE  ~ AsTrail(s)[i].guess
  <2>1. i \in DOMAIN s \ DOMAIN t
    BY <1>1, <1>2
  <2>2. s[i].level = 0 \/ s[i].why # 0
    BY <2>1
  <2> QED
    BY <1>2, <2>1, <2>2
<1> QED
  BY <1>1, <1>2, <1>3, <1>4, <1>5 DEF A!Continues

LEMMA ExtendsMapped ==
  ASSUME NEW U \in SUBSET Vars, NEW n \in Nat, NEW t \in Seq(EntryTypes(U, n)),
         NEW m \in Nat, NEW s \in Seq(EntryTypes(U, m)), Prefix(t, s),
         \A i \in DOMAIN s \ DOMAIN t : s[i].level = 0 \/ s[i].why # 0,
         NEW K, \A i \in DOMAIN s \ DOMAIN t :
                  \E c \in K : \A l \in c \ {s[i].lit} : FalseIn(t, l)
  PROVE  A!Extends(AsTrail(t), AsTrail(s), K)
<1>1. /\ Len(t) \in Nat /\ DOMAIN t = 1 .. Len(t) /\ Len(AsTrail(t)) = Len(t)
  <2>1. IsMapped(t)
    BY AsTrailIs
  <2> QED
    BY <2>1 DEF IsMapped
<1>2. /\ Len(s) \in Nat /\ DOMAIN s = 1 .. Len(s) /\ Len(AsTrail(s)) = Len(s)
      /\ \A i \in DOMAIN s : AsTrail(s)[i].lit = s[i].lit
  <2>1. IsMapped(s)
    BY AsTrailIs
  <2> QED
    BY <2>1 DEF IsMapped
<1>3. ASSUME NEW i \in Len(t) + 1 .. Len(s)
      PROVE  \E c \in K : \A l \in c \ {AsTrail(s)[i].lit} :
               \E j \in 1 .. i - 1 : AsTrail(s)[j].lit = A!Neg(l)
  <2>1. i \in DOMAIN s \ DOMAIN t
    BY <1>1, <1>2
  <2>2. PICK c \in K : \A l \in c \ {s[i].lit} : FalseIn(t, l)
    BY <2>1
  <2>3. ASSUME NEW l \in c \ {s[i].lit}
        PROVE  \E j \in 1 .. i - 1 : AsTrail(s)[j].lit = A!Neg(l)
    <3>1. PICK j \in DOMAIN t : t[j].lit = Neg(l)
      BY <2>2, <2>3 DEF FalseIn, TrueIn
    <3>2. j \in DOMAIN s /\ s[j] = t[j] /\ j \in 1 .. i - 1
      BY <1>1, <1>2, <3>1 DEF Prefix
    <3> QED
      BY <1>2, <3>1, <3>2 DEF Neg, A!Neg
  <2> QED
    BY <1>2, <2>1, <2>2, <2>3
<1>4. A!Continues(AsTrail(t), AsTrail(s))
  BY ContinuesMapped
<1> QED
  BY <1>1, <1>2, <1>3, <1>4 DEF A!Extends

(* Going back to a level is going back to before a guess.                  *)
LEMMA CutMapped ==
  ASSUME PlainTypes, TrailInv, LevelsBegin, NEW n \in Nat
  PROVE  /\ A!CutAtGuess(AsTrail(trail), AsTrail(TrailUpTo(n)))
         /\ n < Len(lim) /\ lim[n + 1] < Len(trail) =>
              /\ lim[n + 1] + 1 \in A!Guesses(AsTrail(trail))
              /\ AsTrail(TrailUpTo(n)) =
                   SubSeq(AsTrail(trail), 1, (lim[n + 1] + 1) - 1)
<1>1. /\ Len(lim) \in Nat /\ Len(trail) \in Nat /\ DOMAIN trail = 1 .. Len(trail)
      /\ \A k \in DOMAIN lim : lim[k] \in 0 .. Len(trail)
      /\ DOMAIN lim = 1 .. Len(lim) /\ next \in Nat /\ used \in SUBSET Vars
      /\ trail \in Seq(EntryTypes(used, next))
  BY StateIs
<1>2. /\ AsTrail(trail) \in Seq(A!Entries) /\ Len(AsTrail(trail)) = Len(trail)
      /\ DOMAIN AsTrail(trail) = 1 .. Len(trail)
      /\ \A i \in DOMAIN trail :
           /\ AsTrail(trail)[i] = AsEntry(trail[i])
           /\ trail[i].level > 0 /\ trail[i].why = 0 => AsTrail(trail)[i].guess
  <2>1. IsMapped(trail)
    BY <1>1, AsTrailIs
  <2> QED
    BY <2>1 DEF IsMapped
<1>3. CASE Len(lim) <= n
  <2>1. TrailUpTo(n) = trail
    BY <1>3 DEF TrailUpTo, CurrentLevel
  <2> QED
    BY <1>1, <1>3, <2>1 DEF A!CutAtGuess
<1>4. CASE n < Len(lim)
  <2> DEFINE e == lim[n + 1]
  <2>1. n + 1 \in DOMAIN lim /\ e \in 0 .. Len(trail) /\ ~ (Len(lim) <= n)
    BY <1>1, <1>4
  <2>2. TrailUpTo(n) = SubSeq(trail, 1, e)
    BY <2>1 DEF TrailUpTo, CurrentLevel
  <2>3. e < Len(trail) => IsGuess(e + 1)
    BY <2>1 DEF LevelsBegin, Begins, IsGuess
  <2> HIDE DEF e
  <2>4. AsTrail(SubSeq(trail, 1, e)) = SubSeq(AsTrail(trail), 1, e)
    <3> DEFINE s == SubSeq(trail, 1, e)
               u == AsTrail(trail)
    <3>1. /\ s \in Seq(EntryTypes(used, next)) /\ Len(s) = e
          /\ \A i \in 1 .. e : s[i] = trail[i]
      BY <1>1, <2>1
    <3>2. /\ AsTrail(s) \in Seq(A!Entries) /\ Len(AsTrail(s)) = e
          /\ \A i \in 1 .. e : AsTrail(s)[i] = AsEntry(s[i])
      <4>1. IsMapped(s)
        BY <1>1, <3>1, AsTrailIs
      <4> QED
        BY <3>1, <4>1 DEF IsMapped
    <3>3. \A i \in 1 .. e : AsTrail(s)[i] = u[i]
      <4>1. \A i \in 1 .. e : i \in DOMAIN trail
        BY <1>1, <2>1
      <4> QED
        BY <1>2, <3>1, <3>2, <4>1
    <3>4. u \in Seq(A!Entries) /\ Len(u) = Len(trail)
      BY <1>2
    <3> HIDE DEF s, u
    <3>5. /\ SubSeq(u, 1, e) \in Seq(A!Entries) /\ Len(SubSeq(u, 1, e)) = e
          /\ \A i \in 1 .. e : SubSeq(u, 1, e)[i] = u[i]
      BY <1>1, <2>1, <3>4
    <3>6. AsTrail(s) = SubSeq(u, 1, e)
      BY <2>1, <3>2, <3>3, <3>5
    <3> QED
      BY <3>6 DEF s, u
  <2>5. e = (e + 1) - 1
    BY <2>1
  <2>6. CASE e < Len(trail)
    <3>1. e + 1 \in A!Guesses(AsTrail(trail))
      <4>1. e + 1 \in DOMAIN trail
        BY <1>1, <2>1, <2>6
      <4> QED
        BY <1>1, <1>2, <2>3, <2>6, <4>1 DEF IsGuess, A!Guesses
    <3> QED
      BY <2>2, <2>4, <2>5, <2>6, <3>1 DEF A!CutAtGuess, e
  <2>7. CASE e = Len(trail)
    <3>1. SubSeq(trail, 1, e) = trail
      BY <1>1, <2>7
    <3>2. ~ (lim[n + 1] < Len(trail))
      BY <1>1, <2>7 DEF e
    <3> QED
      BY <2>2, <3>1, <3>2 DEF A!CutAtGuess
  <2>8. e < Len(trail) \/ e = Len(trail)
    <3>1. Len(trail) \in Nat /\ e \in 0 .. Len(trail)
      BY <1>1, <2>1
    <3> QED
      BY ONLY <3>1
  <2> QED
    BY <2>6, <2>7, <2>8
<1> QED
  BY <1>1, <1>3, <1>4

---------------------------------------------------------------------------
(* Levels keep their guesses.                                              *)
LEMMA LimIs ==
  ASSUME PlainTypes, TrailInv, NEW n \in Nat
  PROVE  \A k \in DOMAIN LimUpTo(n) : k \in DOMAIN lim /\ LimUpTo(n)[k] = lim[k]
<1>1. Len(lim) \in Nat /\ DOMAIN lim = 1 .. Len(lim) /\ lim \in Seq(Nat)
  BY StateIs
<1>2. CASE Len(lim) <= n
  BY <1>2 DEF LimUpTo, CurrentLevel
<1>3. CASE n < Len(lim)
  <2>1. LimUpTo(n) = SubSeq(lim, 1, n)
    BY <1>1, <1>3 DEF LimUpTo, CurrentLevel
  <2> QED
    BY <1>1, <1>3, <2>1
<1> QED
  BY <1>1, <1>2, <1>3

LEMMA BeginsCut ==
  ASSUME PlainTypes, TrailInv, Begins(trail, lim), NEW n \in Nat,
         NEW s, Prefix(TrailUpTo(n), s),
         \A k \in DOMAIN LimUpTo(n) :
           LimUpTo(n)[k] < Len(s) => LimUpTo(n)[k] < Len(TrailUpTo(n))
  PROVE  Begins(s, LimUpTo(n))
<1> DEFINE t == TrailUpTo(n)
           L == LimUpTo(n)
<1>1. /\ next \in Nat /\ next <= next /\ Len(trail) \in Nat
      /\ DOMAIN trail = 1 .. Len(trail)
      /\ \A k \in DOMAIN lim : lim[k] \in Nat
  BY StateIs
<1>2. /\ Len(t) \in 0 .. Len(trail) /\ DOMAIN t = 1 .. Len(t) /\ Prefix(t, trail)
  BY <1>1, BackIs
<1>3. \A k \in DOMAIN L : k \in DOMAIN lim /\ L[k] = lim[k]
  BY LimIs
<1>4. /\ Prefix(t, s)
      /\ \A k \in DOMAIN L : L[k] < Len(s) => L[k] < Len(t)
  OBVIOUS
<1> HIDE DEF t, L
<1>5. ASSUME NEW k \in DOMAIN L, L[k] < Len(s)
      PROVE  s[L[k] + 1].level > 0 /\ s[L[k] + 1].why = 0
  <2>1. k \in DOMAIN lim /\ L[k] = lim[k] /\ L[k] \in Nat /\ L[k] < Len(t)
    BY <1>1, <1>3, <1>4, <1>5
  <2>2. L[k] + 1 \in DOMAIN t
    BY <1>1, <1>2, <2>1
  <2>3. s[L[k] + 1] = trail[L[k] + 1]
    BY <1>2, <1>4, <2>2 DEF Prefix
  <2>4. lim[k] < Len(trail)
    BY <1>1, <1>2, <2>1
  <2> QED
    BY <2>1, <2>3, <2>4 DEF Begins
<1> QED
  BY <1>5 DEF Begins, L

LEMMA BeginsBack ==
  ASSUME PlainTypes, TrailInv, Begins(trail, lim), NEW n \in Nat, CancelUntil(n)
  PROVE  Begins(trail, lim)'
<1>1. trail' = TrailUpTo(n) /\ lim' = LimUpTo(n)
  BY DEF CancelUntil
<1>2. Begins(TrailUpTo(n), LimUpTo(n))
  BY BeginsCut DEF Prefix
<1> QED
  BY <1>1, <1>2

(* The level to which analysis goes back has a literal of its own. *)
LEMMA BackBegins ==
  ASSUME PlainTypes, CallsTyped, TrailInv, WorkInv, Analyzing
  PROVE  /\ BackLevel \in Nat /\ BackLevel < Len(lim)
         /\ TrailUpTo(BackLevel) = SubSeq(trail, 1, lim[BackLevel + 1])
         /\ Len(TrailUpTo(BackLevel)) = lim[BackLevel + 1]
         /\ \A k \in 1 .. BackLevel : lim[k] < lim[BackLevel + 1]
<1> DEFINE b == BackLevel
<1>1. /\ b \in 0 .. Len(lim) - 1
      /\ Kept = << >> => b = 0
      /\ Kept # << >> => \E k \in DOMAIN Kept :
           Kept[k] \in UsedLits /\ IsFalse(Kept[k]) /\ Level(Kept[k][1]) = b
  BY KeptIs DEF BackLevel
<1>2. /\ Len(lim) \in Nat /\ DOMAIN lim = 1 .. Len(lim) /\ Len(trail) \in Nat
      /\ DOMAIN trail = 1 .. Len(trail) /\ Levelled(trail, lim)
      /\ \A k \in DOMAIN lim : lim[k] \in 0 .. Len(trail)
      /\ trail \in Seq(EntryTypes(used, next))
  BY StateIs
<1>3. ASSUME b > 0
      PROVE  \E i \in DOMAIN trail : trail[i].level = b
  BY <1>1, <1>3, FalseHasPlace
<1>4. b \in Nat /\ b < Len(lim) /\ b + 1 \in DOMAIN lim /\ ~ (Len(lim) <= b)
  BY <1>1, <1>2
<1>5. TrailUpTo(b) = SubSeq(trail, 1, lim[b + 1])
  BY <1>4 DEF TrailUpTo, CurrentLevel
<1> HIDE DEF b
<1>6. Len(SubSeq(trail, 1, lim[b + 1])) = lim[b + 1]
  <2> DEFINE e == lim[b + 1]
  <2>1. e \in 0 .. Len(trail)
    BY <1>2, <1>4
  <2> HIDE DEF e
  <2>2. Len(SubSeq(trail, 1, e)) = e
    BY <1>2, <2>1
  <2> QED
    BY <2>2 DEF e
<1>7. ASSUME NEW k \in 1 .. b
      PROVE  lim[k] < lim[b + 1]
  <2>1. b > 0 /\ k \in DOMAIN lim
    BY <1>2, <1>4
  <2>2. PICK i \in DOMAIN trail : trail[i].level = b
    BY <1>3, <2>1
  <2>3. /\ lim[k] < i <=> k <= trail[i].level
        /\ lim[b + 1] < i <=> b + 1 <= trail[i].level
    BY <1>2, <1>4, <2>1 DEF Levelled
  <2>4. lim[k] < i /\ ~ (lim[b + 1] < i)
    BY <1>4, <2>2, <2>3
  <2>5. lim[k] \in Nat /\ lim[b + 1] \in Nat /\ i \in Nat
    BY <1>2, <1>4, <2>1
  <2> QED
    BY <2>4, <2>5
<1> QED
  BY <1>4, <1>5, <1>6, <1>7 DEF b

LEMMA BeginsLearn ==
  ASSUME PlainTypes, CallsTyped, TrailInv, WorkInv, Begins(trail, lim), Next, Learns
  PROVE  /\ Begins(trail, lim)'
         /\ Len(lim') > 0 => lim'[Len(lim')] < Len(trail')
<1> DEFINE b == BackLevel
           t == TrailUpTo(b)
<1>1. Analyzing /\ Learn /\ Present # {}
  BY DEF Learns, SearchLearns, TryBacktracks, Learn
<1>2. lim' = LimUpTo(b)
  BY <1>1 DEF Learn
<1>3. /\ next' \in Nat \ {0} /\ next <= next' /\ next \in Nat
  BY NextGrows, StateIs
<1>4. Kept # << >> => next < next'
  BY <1>1, <1>3 DEF Learn, NewClause
<1>5. /\ Len(trail') \in Nat /\ Len(lim') = b /\ DOMAIN trail' = 1 .. Len(trail')
      /\ Len(trail') = Len(t) + 1 /\ Prefix(t, trail')
  BY <1>1, <1>3, <1>4, LearnKeepsSound
<1>6. /\ b \in Nat /\ Len(t) = lim[b + 1] /\ b < Len(lim)
      /\ \A k \in 1 .. b : lim[k] < lim[b + 1]
  BY <1>1, BackBegins
<1>7. \A k \in DOMAIN LimUpTo(b) : k \in DOMAIN lim /\ LimUpTo(b)[k] = lim[k]
  BY <1>6, LimIs
<1>8. DOMAIN lim = 1 .. Len(lim) /\ Len(lim) \in Nat /\ \A k \in DOMAIN lim : lim[k] \in Nat
  BY StateIs
<1>9. DOMAIN LimUpTo(b) = 1 .. b
  <2>1. LimUpTo(b) \in Seq(Nat)
    <3>1. lim \in Seq(Nat)
      BY StateIs
    <3>2. CASE Len(lim) <= b
      BY <3>1, <3>2 DEF LimUpTo, CurrentLevel
    <3>3. CASE ~ (Len(lim) <= b)
      <4>1. LimUpTo(b) = SubSeq(lim, 1, b)
        BY <3>3 DEF LimUpTo, CurrentLevel
      <4>2. \A k \in 1 .. b : lim[k] \in Nat
        BY <1>6, <1>8
      <4> QED
        BY <1>6, <3>1, <4>1, <4>2
    <3> QED
      BY <3>2, <3>3
  <2> QED
    BY <1>2, <1>5, <2>1
<1> HIDE DEF b, t
<1>10. \A k \in DOMAIN LimUpTo(b) : LimUpTo(b)[k] < Len(t)
  BY <1>6, <1>7, <1>9
<1>11. Begins(trail', LimUpTo(b))
  BY <1>5, <1>6, <1>10, BeginsCut DEF t
<1>12. Len(lim') > 0 => lim'[Len(lim')] < Len(trail')
  <2>1. ASSUME Len(lim') > 0 PROVE b \in DOMAIN LimUpTo(b) /\ b \in DOMAIN lim
    BY <1>5, <1>6, <1>7, <1>9, <2>1
  <2>2. Len(lim') > 0 => LimUpTo(b)[b] < Len(t) /\ LimUpTo(b)[b] = lim[b] /\ lim[b] \in Nat
    BY <1>7, <1>8, <1>10, <2>1
  <2>3. Len(t) \in Nat
    BY <1>6, <1>8
  <2> QED
    BY <1>2, <1>5, <2>2, <2>3
<1> QED
  BY <1>2, <1>11, <1>12

LEMMA BeginsGuess ==
  ASSUME PlainTypes, TrailInv, Begins(trail, lim), NEW l, GuessesLit(l)
  PROVE  /\ Begins(trail, lim)'
         /\ lim'[Len(lim')] < Len(trail')
<1>1. /\ Len(trail) \in Nat /\ DOMAIN trail = 1 .. Len(trail)
      /\ DOMAIN lim = 1 .. Len(lim) /\ Len(lim) \in Nat
      /\ \A k \in DOMAIN lim : lim[k] \in 0 .. Len(trail)
      /\ lim \in Seq(0 .. Len(trail)) /\ trail \in Seq(EntryTypes(used, next))
      /\ \A i \in DOMAIN trail : trail[i].level \in Nat
  BY StateIs
<1> DEFINE e == Entry(l, 0, Len(lim) + 1)
<1>2. trail' = Append(trail, e) /\ lim' = Append(lim, Len(trail))
  BY DEF GuessesLit
<1>3. e.level = Len(lim) + 1 /\ e.why = 0
  BY DEF Entry
<1> HIDE DEF e
<1>4. /\ Len(trail') = Len(trail) + 1 /\ trail'[Len(trail) + 1] = e
      /\ \A i \in DOMAIN trail : trail'[i] = trail[i]
  BY <1>1, <1>2
<1>5. /\ Len(lim') = Len(lim) + 1 /\ lim'[Len(lim) + 1] = Len(trail)
      /\ \A k \in DOMAIN lim : lim'[k] = lim[k]
      /\ DOMAIN lim' = 1 .. Len(lim) + 1
  BY <1>1, <1>2
<1>6. ASSUME NEW k \in DOMAIN lim'
      PROVE  trail'[lim'[k] + 1].level > 0 /\ trail'[lim'[k] + 1].why = 0
  <2>1. CASE k \in DOMAIN lim /\ lim[k] < Len(trail)
    <3>1. lim[k] + 1 \in DOMAIN trail /\ lim'[k] = lim[k]
      BY <1>1, <1>5, <2>1
    <3>2. trail[lim[k] + 1].level > 0 /\ trail[lim[k] + 1].why = 0
      BY <2>1 DEF Begins
    <3> QED
      BY <1>4, <3>1, <3>2
  <2>2. CASE lim'[k] = Len(trail)
    BY <1>1, <1>3, <1>4, <2>2
  <2>3. k \in DOMAIN lim \/ k = Len(lim) + 1
    BY <1>1, <1>5
  <2>4. k \in DOMAIN lim => lim[k] < Len(trail) \/ lim'[k] = Len(trail)
    BY <1>1, <1>5
  <2> QED
    BY <1>5, <2>1, <2>2, <2>3, <2>4
<1> QED
  BY <1>1, <1>4, <1>5, <1>6 DEF Begins

LEMMA BeginsForced ==
  ASSUME PlainTypes, TrailInv, LevelsBegin, pc = "propagate",
         Prefix(trail, trail'), Len(trail') \in Nat, Len(trail) <= Len(trail'), lim' = lim
  PROVE  /\ Begins(trail, lim)'
         /\ Len(lim') > 0 => lim'[Len(lim')] < Len(trail')
<1>1. /\ Len(trail) \in Nat /\ DOMAIN trail = 1 .. Len(trail)
      /\ DOMAIN lim = 1 .. Len(lim) /\ Len(lim) \in Nat
      /\ \A k \in DOMAIN lim : lim[k] \in 0 .. Len(trail)
      /\ Levelled(trail, lim)
  BY StateIs
<1>2. Len(lim) > 0 => lim[Len(lim)] < Len(trail)
  BY DEF LevelsBegin
<1>3. ASSUME NEW k \in DOMAIN lim
      PROVE  trail'[lim[k] + 1].level > 0 /\ trail'[lim[k] + 1].why = 0
  <2>1. k <= Len(lim) /\ Len(lim) \in DOMAIN lim /\ Len(lim) > 0
    BY <1>1
  <2>2. lim[k] <= lim[Len(lim)]
    BY <1>1, <2>1 DEF Levelled
  <2>3. lim[k] < Len(trail) /\ lim[k] + 1 \in DOMAIN trail
    BY <1>1, <1>2, <2>1, <2>2
  <2>4. trail[lim[k] + 1].level > 0 /\ trail[lim[k] + 1].why = 0
    BY <2>3 DEF LevelsBegin, Begins
  <2> QED
    BY <2>3, <2>4 DEF Prefix
<1>4. Begins(trail, lim)'
  BY <1>3 DEF Begins
<1>5. Len(lim) > 0 => lim[Len(lim)] \in Nat
  BY <1>1
<1> QED
  BY <1>1, <1>2, <1>4, <1>5

LEMMA NoneBegin ==
  ASSUME Len(lim') = 0, lim' \in Seq(Nat)
  PROVE  LevelsBegin'
  BY DEF LevelsBegin, Begins

LEMMA LevelsStep ==
  ASSUME PlainTypes, CallsTyped, TrailInv, ListsInv, CallInv, WorkInv, NoLevel,
         LevelsBegin, Next
  PROVE  LevelsBegin'
<1>1. /\ Len(lim) \in Nat /\ Len(trail) \in Nat /\ lim \in Seq(Nat)
      /\ next \in Nat /\ next <= next
      /\ Begins(trail, lim)
  BY StateIs DEF LevelsBegin
<1>2. CASE AllStays /\ ~ AssumeTrue
  <2>1. trail' = trail /\ lim' = lim
    BY <1>2 DEF AllStays, AddFinished, LightSolve, AnswerKnown, TrySucceeds, Denied,
                CheckSucceeds, Ends, Solve, Refused, UnchangedByAnswer, Tidy, Reduce,
                Returned, vars, assignment
  <2>2. pc' \in {"propagate", "conflict"} => pc = pc' \/ Len(lim) = 0
    <3>1. CASE Tidy \/ Solve
      BY <3>1 DEF Tidy, Solve, CurrentLevel
    <3>2. CASE Refused \/ Reduce
      BY <3>2 DEF Refused, Answers, Reduce
    <3>3. CASE TrySucceeds \/ Denied \/ CheckSucceeds \/ AddFinished
      BY <3>3 DEF TrySucceeds, Denied, CheckSucceeds, Ends, Finish, AddFinished
    <3>4. CASE LightSolve \/ AnswerKnown \/ Returned
      BY <3>4 DEF LightSolve, AnswerKnown, Returned, vars
    <3> QED
      BY <1>2, <3>1, <3>2, <3>3, <3>4 DEF AllStays
  <2> QED
    BY <1>1, <2>1, <2>2 DEF LevelsBegin
<1>3. CASE AssumeTrue
  <2>1. trail' = trail /\ lim' = Append(lim, Len(trail)) /\ pc' = "decide"
    BY <1>3 DEF AssumeTrue
  <2>2. \A k \in DOMAIN lim' : \/ k \in DOMAIN lim /\ lim'[k] = lim[k]
                              \/ lim'[k] = Len(trail)
    BY <1>1, <2>1
  <2>3. Begins(trail, lim)'
    BY <1>1, <2>1, <2>2 DEF Begins
  <2> QED
    BY <2>1, <2>3 DEF LevelsBegin
<1>4. CASE AllGuesses
  <2>1. PICK l : GuessesLit(l)
    BY <1>4, GuessesIs DEF AllGuesses
  <2> QED
    BY <1>1, <2>1, BeginsGuess DEF LevelsBegin
<1>5. CASE AllBacks
  <2>1. GoesUp
    BY <1>5, GoesUpIs DEF AllBacks
  <2>2. Begins(trail, lim)'
    BY <1>1, <2>1, BeginsBack DEF GoesUp
  <2>3. pc' \in {"propagate", "conflict"} => Len(lim') = 0
    <3>1. CASE Restart
      <4>1. lim' = LimUpTo(0)
        BY <3>1 DEF Restart, CancelUntil
      <4>2. Len(LimUpTo(0)) = IF Len(lim) <= 0 THEN Len(lim) ELSE 0
        BY <1>1, BackIs
      <4> QED
        BY <1>1, <4>1, <4>2
    <3>2. CASE Reset \/ PopCheck
      BY <3>2 DEF Reset, PopCheck, NextCall, GoesBack
    <3>3. CASE CheckFails \/ AssumeFalse \/ AssumesTooLate \/ RestartsTooLate
               \/ ModelFound \/ FoundTooLate
      BY <3>3 DEF CheckFails, AssumeFalse, AssumesTooLate, RestartsTooLate, Bail,
                  ModelFound, FoundTooLate, Finish, Answers
    <3> QED
      BY <1>5, <3>1, <3>2, <3>3 DEF AllBacks
  <2> QED
    BY <1>1, <2>2, <2>3 DEF LevelsBegin
<1>6. CASE AddsSome
  <2>1. Len(lim) = 0 /\ \E q : Gains(q, 0)
    BY <1>6, AddsGain DEF AddsSome
  <2>2. lim' = lim
    BY <2>1 DEF Gains
  <2> QED
    BY <1>1, <2>1, <2>2, NoneBegin
<1>7. CASE Learns
  BY <1>1, <1>7, BeginsLearn DEF LevelsBegin
<1>8. CASE AssertSucceeds \/ AssertFails
  <2>1. lim' = << >>
    BY <1>8 DEF AssertSucceeds, AssertFails
  <2> QED
    BY <2>1, NoneBegin
<1>9. CASE NextWatchList \/ Visits
  <2>1. /\ Pending /\ Prefix(trail, trail') /\ lim' = lim
        /\ Len(trail') \in Nat /\ Len(trail) <= Len(trail')
    BY <1>9, VisitsGrow
  <2>2. pc = "propagate"
    BY <2>1 DEF Pending
  <2> QED
    BY <2>1, <2>2, BeginsForced DEF LevelsBegin
<1>10. CASE Resolve
  <2>1. UNCHANGED <<trail, lim>> /\ pc' = pc
    BY <1>10 DEF Resolve, assignment
  <2> QED
    BY <2>1 DEF LevelsBegin
<1>11. CASE AddRefutes \/ AttemptRefutes \/ SearchRefutes
  <2>1. UNCHANGED <<trail, lim>> /\ pc' = "call"
    BY <1>11 DEF AddRefutes, AttemptRefutes, SearchRefutes, Finish, Answers, assignment
  <2> QED
    BY <1>1, <2>1 DEF LevelsBegin
<1>12. CASE RefutesTooLate
  <2>1. CancelUntil(0) /\ pc' = "call"
    BY <1>12 DEF RefutesTooLate, Bail, Answers
  <2> QED
    BY <1>1, <2>1, BeginsBack DEF LevelsBegin
<1> QED
  BY <1>2, <1>3, <1>4, <1>5, <1>6, <1>7, <1>8, <1>9, <1>10, <1>11, <1>12, KindsOfSteps

---------------------------------------------------------------------------
(* What the clauses say when one is visited, or made one of them.          *)
LEMMA KnownIs == KnownClauses = KnownOf(clauses)
  BY DEF KnownClauses, KnownOf

LEMMA ReorderSame ==
  ASSUME NEW U \in SUBSET Vars, NEW n, NEW m, NEW cl, NEW all,
         ClausesOf(cl, U, n), ClausesOf(all, U, m), DOMAIN all = DOMAIN cl,
         \A i \in DOMAIN cl : /\ all[i].kind = cl[i].kind
                              /\ Elements(all[i].lits) = Elements(cl[i].lits)
  PROVE  KnownOf(all) = KnownOf(cl)
<1>1. \A i \in DOMAIN cl : Clean(cl[i], U) /\ Clean(all[i], U)
  BY DEF ClausesOf
<1>2. \A i \in DOMAIN cl : Meaning(all[i]) = Meaning(cl[i])
  BY <1>1, SameElements
<1> QED
  BY <1>2 DEF KnownOf

LEMMA VisitsKeepKnown ==
  ASSUME PlainTypes, TrailInv, ListsInv, ListsInv', used' = used, Visits
  PROVE  KnownOf(clauses') = KnownOf(clauses)
<1>1. CASE clauses' = clauses
  BY <1>1
<1>2. CASE \E q : /\ Reorder(q) /\ Elements(q) = Elements(C.lits)
                  /\ Id \in DOMAIN clauses /\ C \in Clauses(used) /\ C = clauses[Id]
  <2>1. PICK q : /\ Reorder(q) /\ Elements(q) = Elements(C.lits)
                 /\ Id \in DOMAIN clauses /\ C \in Clauses(used) /\ C = clauses[Id]
    BY <1>2
  <2> DEFINE id == Id
  <2>2. /\ id \in DOMAIN clauses /\ clauses[id] \in Clauses(used)
        /\ Elements(q) = Elements(clauses[id].lits)
        /\ clauses' = [clauses EXCEPT ![id].lits = q]
    BY <2>1 DEF Reorder
  <2> HIDE DEF id
  <2>3. /\ DOMAIN clauses' = DOMAIN clauses
        /\ \A i \in DOMAIN clauses : i # id => clauses'[i] = clauses[i]
        /\ clauses'[id].lits = q /\ clauses'[id].kind = clauses[id].kind
    <3> DEFINE c == clauses[id]
               d == [c EXCEPT !.lits = q]
    <3>1. d.lits = q /\ d.kind = c.kind
      BY <2>2 DEF Clauses
    <3>2. clauses'[id] = d
      BY <2>2
    <3>3. DOMAIN clauses' = DOMAIN clauses
          /\ \A i \in DOMAIN clauses : i # id => clauses'[i] = clauses[i]
      BY <2>2
    <3> HIDE DEF d, c
    <3>4. clauses'[id].lits = q /\ clauses'[id].kind = c.kind
      BY <3>1, <3>2
    <3> QED
      BY <3>3, <3>4 DEF c
  <2>4. \A i \in DOMAIN clauses :
          /\ clauses'[i].kind = clauses[i].kind
          /\ Elements(clauses'[i].lits) = Elements(clauses[i].lits)
    BY <2>2, <2>3
  <2>5. /\ ClausesOf(clauses, used, next) /\ ClausesOf(clauses', used, next')
        /\ used \in SUBSET Vars
    BY StateIs DEF ListsInv
  <2> QED
    BY <2>3, <2>4, <2>5, ReorderSame
<1> QED
  BY <1>1, <1>2, VisitsReorder

LEMMA KnownHas ==
  ASSUME PlainTypes, ListsInv, NEW id \in DOMAIN clauses, NEW s
  PROVE  /\ Clean(clauses[id], used)
         /\ clauses[id].kind # "single" /\ s = Elements(clauses[id].lits)
              => s \in KnownOf(clauses)
         /\ (clauses[id].kind = "single"
             /\ \E l, m \in Elements(clauses[id].lits) : l # m /\ s = {l, m})
              => s \in KnownOf(clauses)
<1>1. Clean(clauses[id], used) /\ used \in SUBSET Vars
  BY DEF ListsInv, ClausesOf, PlainTypes
<1>2. s \in Meaning(clauses[id]) => s \in KnownOf(clauses)
  BY DEF KnownOf
<1>3. s \in Meaning(clauses[id]) <=>
           IF clauses[id].kind = "single"
           THEN \E l, m \in Elements(clauses[id].lits) : l # m /\ s = {l, m}
           ELSE s = Elements(clauses[id].lits)
  BY <1>1, MeaningIs
<1> QED
  BY <1>1, <1>2, <1>3

LEMMA FailsFalse ==
  ASSUME PlainTypes, TrailInv, ListsInv, VisitFails
  PROVE  \E c \in KnownOf(clauses) : \A l \in c : FalseIn(trail', l)
<1>1. Reading(FALSE) /\ Conflict(Turned) /\ trail' = trail
  BY DEF VisitFails
<1>2. /\ Elements(Turned) = Elements(C.lits)
      /\ C.kind # "single" /\ Id \in DOMAIN clauses
  BY <1>1, TurnedSame, TurnedIs, ReadingIs DEF Reading
<1>3. Elements(C.lits) \in KnownOf(clauses)
  BY <1>2, KnownHas DEF C
<1>4. work'.clause = Turned
  BY <1>1 DEF Conflict, NoWork
<1>5. \A k \in DOMAIN Turned : FalseIn(trail', Turned[k])
  BY <1>4, FailsAnalyzed DEF Analyzed
<1>6. \A l \in Elements(Turned) : FalseIn(trail', l)
  BY <1>5 DEF Elements
<1> QED
  BY <1>2, <1>3, <1>6

LEMMA RefutesFalse ==
  ASSUME PlainTypes, TrailInv, ListsInv, VisitRefutes, Prefix(trail, trail')
  PROVE  \E c \in KnownOf(clauses) : \A l \in c : FalseIn(trail', l)
<1>1. Reading(TRUE) /\ Second # {}
  BY DEF VisitRefutes
<1>2. Id \in DOMAIN clauses /\ IsFalse(Neg(P)) /\ C.kind = "single"
  BY <1>1, ReadingIs DEF Reading
<1>3. /\ Here \in DOMAIN C.lits /\ C.lits[Here] = Neg(P)
  BY <1>1, HereIs
<1>4. PICK k \in DOMAIN C.lits : C.lits[k] # Neg(P) /\ IsFalse(C.lits[k])
  BY <1>1 DEF Second
<1> DEFINE l == C.lits[k]
           m == C.lits[Here]
<1>5. l \in Elements(C.lits) /\ m \in Elements(C.lits) /\ l # m
  BY <1>3, <1>4 DEF Elements
<1>6. FalseIn(trail, l) /\ FalseIn(trail, m)
  BY <1>2, <1>3, <1>4, TrueIs
<1> HIDE DEF l, m
<1>7. FalseIn(trail', l) /\ FalseIn(trail', m)
  BY <1>6 DEF Prefix, FalseIn, TrueIn
<1>8. {l, m} \in KnownOf(clauses)
  BY <1>2, <1>5, KnownHas DEF C
<1> QED
  BY <1>7, <1>8

LEMMA ConflictStep ==
  ASSUME PlainTypes, CallsTyped, TrailInv, ListsInv, ListsInv', CallInv, WorkInv,
         used' = used, Next
  PROVE  ConflictFalse'
<1> SUFFICES ASSUME pc' = "conflict", Len(lim') = 0
             PROVE  \E c \in KnownOf(clauses') : \A l \in c : FalseIn(trail', l)
  <2>1. KnownClauses' = KnownOf(clauses')
    BY DEF KnownClauses, KnownOf
  <2>2. \A l : IsFalse(l)' <=> FalseIn(trail', l)
    BY DEF IsFalse, IsTrue, FalseIn, TrueIn
  <2> QED
    BY <2>1, <2>2 DEF ConflictFalse
<1>1. CASE VisitFails
  BY <1>1, FailsFalse, VisitsKeepKnown DEF Visits
<1>2. CASE VisitRefutes
  <2>1. Prefix(trail, trail')
    BY <1>2, VisitsGrow DEF Visits
  <2> QED
    BY <1>2, <2>1, RefutesFalse, VisitsKeepKnown DEF Visits
<1>3. CASE VisitClashes \/ Resolve
  <2>1. Len(lim) > 0 /\ lim' = lim
    BY <1>3 DEF VisitClashes, Conflict, UnchangedByVisit, Resolve, Analyzing,
                CurrentLevel, assignment
  <2> QED
    BY <2>1
<1> QED
  BY <1>1, <1>2, <1>3, ConflictFrom

---------------------------------------------------------------------------
(* The actions of SatSearch, of the state that it sees.                    *)
SameClauses == KnownOf(clauses') = KnownOf(clauses)

LEMMA Mapped ==
  /\ [i \in DOMAIN trail |-> [lit |-> trail[i].lit, guess |-> IsGuess(i)]]
       = AsTrail(trail)
  /\ [i \in DOMAIN trail |-> [lit |-> trail[i].lit, guess |-> IsGuess(i)]]'
       = AsTrail(trail')
  /\ KnownClauses = KnownOf(clauses)
  /\ KnownClauses' = KnownOf(clauses')
BY DEF AsTrail, AsEntry, IsGuess, KnownClauses, KnownOf

LEMMA StutterIs ==
  ASSUME trail' = trail, SameClauses, UNCHANGED <<given, ok, assumed, answer, model>>
  PROVE  UNCHANGED A!vars
<1>1. /\ [i \in DOMAIN trail |-> [lit |-> trail[i].lit, guess |-> IsGuess(i)]]'
           = [i \in DOMAIN trail |-> [lit |-> trail[i].lit, guess |-> IsGuess(i)]]
      /\ KnownClauses' = KnownClauses
  BY Mapped DEF SameClauses
<1> QED
  BY <1>1 DEF A!vars

LEMMA GiveIs ==
  ASSUME NEW C0 \in SUBSET A!Clauses,
         A!Guesses(AsTrail(trail)) = {}, given' = given \cup C0,
         KnownOf(clauses') \subseteq A!Clauses,
         AsTrail(trail') \in Seq(A!Entries),
         A!Continues(AsTrail(trail), AsTrail(trail')),
         \/ /\ ok' = ok
            /\ A!ModelsIn(KnownOf(clauses'), A!Facts(AsTrail(trail')))
                 = A!ModelsIn(KnownOf(clauses) \cup C0, A!Facts(AsTrail(trail)))
         \/ /\ ~ ok'
            /\ \/ ~ ok
               \/ A!ModelsIn(KnownOf(clauses) \cup C0, A!Facts(AsTrail(trail))) = {},
         answer' = "none", UNCHANGED <<assumed, model>>
  PROVE  A!Give(C0)
<1> DEFINE before == A!ModelsIn(KnownOf(clauses) \cup C0, A!Facts(AsTrail(trail)))
           after == A!ModelsIn(KnownOf(clauses'), A!Facts(AsTrail(trail')))
<1>1. \/ (~ ok)' = (~ ok) /\ after = before
      \/ (~ ok)' = TRUE /\ (~ ok \/ before = {})
  OBVIOUS
<1> HIDE DEF before, after
<1>2. \/ (~ ok)' = (~ ok) /\ after = before
      \/ (~ ok)' = TRUE /\ (~ ok \/ before = {})
  BY <1>1
<1> QED
  BY <1>2, Mapped DEF A!Give, before, after

LEMMA ImplyIs ==
  ASSUME A!Extends(AsTrail(trail), AsTrail(trail'), KnownOf(clauses)),
         AsTrail(trail') \in Seq(A!Entries), SameClauses,
         UNCHANGED <<given, ok, assumed, answer, model>>
  PROVE  A!Imply
BY Mapped DEF A!Imply, SameClauses

LEMMA LearnIs ==
  ASSUME NEW c \in A!Clauses,
         A!Entails(KnownOf(clauses), A!Facts(AsTrail(trail)), c),
         KnownOf(clauses') \subseteq KnownOf(clauses) \cup {c},
         KnownOf(clauses) \subseteq KnownOf(clauses'),
         \E i \in A!Guesses(AsTrail(trail)) :
           A!Extends(SubSeq(AsTrail(trail), 1, i - 1), AsTrail(trail'), {c}),
         AsTrail(trail') \in Seq(A!Entries),
         UNCHANGED <<given, ok, assumed, answer, model>>
  PROVE  A!Learn(c)
BY Mapped DEF A!Learn

LEMMA TakeBackIs ==
  ASSUME A!CutAtGuess(AsTrail(trail), AsTrail(trail')), SameClauses,
         UNCHANGED <<given, ok, assumed, answer, model>>
  PROVE  A!TakeBack
BY Mapped DEF A!TakeBack, SameClauses

LEMMA ForgetIs ==
  ASSUME KnownOf(clauses') \subseteq KnownOf(clauses),
         \A c \in KnownOf(clauses) \ KnownOf(clauses') :
           A!Entails(KnownOf(clauses'), A!Facts(AsTrail(trail)), c),
         trail' = trail, UNCHANGED <<given, ok, assumed, answer, model>>
  PROVE  A!Forget
BY Mapped DEF A!Forget

LEMMA AdoptIs ==
  ASSUME NEW i, A!Guesses(AsTrail(trail)) = {i},
         given' = given \cup {{AsTrail(trail)[i].lit}},
         AsTrail(trail') = [AsTrail(trail) EXCEPT ![i].guess = FALSE],
         answer' = "none", SameClauses, UNCHANGED <<ok, assumed, model>>
  PROVE  A!Adopt
BY Mapped DEF A!Adopt, SameClauses

LEMMA RefuteIs ==
  ASSUME A!Guesses(AsTrail(trail)) = {},
         A!Falsified(KnownOf(clauses), AsTrail(trail)),
         ~ ok', trail' = trail, SameClauses,
         UNCHANGED <<given, assumed, answer, model>>
  PROVE  A!Refute
BY Mapped DEF A!Refute, SameClauses

LEMMA SolveIs ==
  ASSUME assumed' \subseteq A!Lits, answer' = "none", trail' = trail, SameClauses,
         UNCHANGED <<given, ok, model>>
  PROVE  A!Solve(assumed')
BY Mapped DEF A!Solve, SameClauses

LEMMA AnswerIs ==
  ASSUME NEW what, answer' = what, A!CutAtGuess(AsTrail(trail), AsTrail(trail')),
         SameClauses, UNCHANGED <<given, assumed>>
  PROVE  A!Answer(what)
BY Mapped DEF A!Answer, SameClauses

LEMMA AnswerSatIs ==
  ASSUME A!Answer("sat"), ok, ok' = ok,
         A!True(AsTrail(trail)) \cap A!False(AsTrail(trail)) = {},
         \A c \in KnownOf(clauses) : c \cap A!True(AsTrail(trail)) # {},
         assumed \subseteq A!True(AsTrail(trail)),
         model' = [v \in Vars |-> <<v, TRUE>> \in A!True(AsTrail(trail))]
  PROVE  A!AnswerSat
BY Mapped DEF A!AnswerSat

LEMMA AnswerUnsatIs ==
  ASSUME A!Answer("unsat"), model' = model,
         \/ ~ ok /\ ~ ok'
         \/ /\ A!Falsified(KnownOf(clauses), AsTrail(trail))
            /\ A!Guesses(AsTrail(trail)) = {}
            /\ ~ ok'
         \/ /\ ok' = ok
            /\ \A i \in A!Guesses(AsTrail(trail)) : AsTrail(trail)[i].lit \in assumed
            /\ assumed \cap A!False(AsTrail(trail)) # {}
  PROVE  A!AnswerUnsat
BY Mapped DEF A!AnswerUnsat

LEMMA AnswerUndefIs ==
  ASSUME A!Answer("undef"), ok' = ok, model' = model
  PROVE  A!AnswerUndef
BY DEF A!AnswerUndef

---------------------------------------------------------------------------
(* Which step of SatSearch a step is.                                      *)
StutterSteps ==
  \/ AddFinished \/ LightSolve \/ AnswerKnown \/ NextWatchList
  \/ VisitTrue \/ VisitMoves \/ VisitFails \/ VisitSwaps \/ VisitClashes
  \/ Resolve \/ TrySucceeds \/ Denied \/ CheckSucceeds \/ AssumeTrue \/ Returned

LEMMA AreStutters ==
  ASSUME PlainTypes, TrailInv, ListsInv, ListsInv', used' = used, slips' = {},
         StutterSteps
  PROVE  UNCHANGED A!vars
<1>1. CASE VisitTrue \/ VisitMoves \/ VisitFails \/ VisitSwaps \/ VisitClashes
  <2>1. SameClauses
    BY <1>1, VisitsKeepKnown DEF Visits, SameClauses
  <2>2. trail' = trail /\ UNCHANGED <<given, ok, assumed, answer, model>>
    BY <1>1 DEF VisitTrue, VisitMoves, VisitFails, VisitSwaps, VisitClashes, Keep,
                Moves, Conflict, UnchangedByVisit, outcome
  <2> QED
    BY <2>1, <2>2, StutterIs
<1>2. CASE ~ (VisitTrue \/ VisitMoves \/ VisitFails \/ VisitSwaps \/ VisitClashes)
  <2>1. CASE AddFinished \/ LightSolve \/ AnswerKnown
    BY <2>1, StutterIs DEF AddFinished, LightSolve, AnswerKnown, database, assignment,
                           outcome, SameClauses
  <2>2. CASE NextWatchList \/ Resolve
    BY <2>2, StutterIs DEF NextWatchList, Resolve, UnchangedByVisit, database,
                           assignment, outcome, SameClauses
  <2>3. CASE TrySucceeds \/ CheckSucceeds
    BY <2>3, StutterIs DEF TrySucceeds, CheckSucceeds, Ends, UnchangedInAttempt,
                           database, assignment, SameClauses
  <2>5. CASE Denied
    <3>1. ok' = TRUE /\ ok = TRUE
      BY <2>5 DEF Denied, PlainTypes
    <3>2. UNCHANGED <<given, assumed, answer, model, trail, clauses>>
      BY <2>5 DEF Denied, UnchangedInAttempt, database, assignment
    <3> QED
      BY <3>1, <3>2, StutterIs DEF SameClauses
  <2>4. CASE AssumeTrue \/ Returned
    BY <2>4, StutterIs DEF AssumeTrue, Returned, UnchangedInside, UnchangedInSearch,
                           vars, database, assignment, outcome, SameClauses
  <2> QED
    BY <1>2, <2>1, <2>2, <2>3, <2>5, <2>4 DEF StutterSteps
<1> QED
  BY <1>1, <1>2

LEMMA BackCuts ==
  ASSUME PlainTypes, TrailInv, LevelsBegin, CallInv,
         \/ Reset \/ PopCheck \/ CheckFails \/ RefutesTooLate \/ Restart
         \/ RestartsTooLate \/ AssumeFalse \/ AssumesTooLate \/ ModelFound
         \/ FoundTooLate
  PROVE  A!CutAtGuess(AsTrail(trail), AsTrail(trail'))
<1>1. PICK n \in Nat : trail' = TrailUpTo(n)
  BY GoesUpIs DEF GoesUp, CancelUntil
<1> QED
  BY <1>1, CutMapped

LEMMA AreTakeBacks ==
  ASSUME PlainTypes, TrailInv, LevelsBegin, CallInv,
         Reset \/ PopCheck \/ CheckFails \/ Restart
  PROVE  A!TakeBack
<1>1. A!CutAtGuess(AsTrail(trail), AsTrail(trail'))
  BY BackCuts
<1>2. CASE Reset \/ PopCheck
  BY <1>1, <1>2, TakeBackIs DEF Reset, PopCheck, GoesBack, database, outcome, SameClauses
<1>3. CASE CheckFails \/ Restart
  BY <1>1, <1>3, TakeBackIs DEF CheckFails, Restart, UnchangedInAttempt, UnchangedInside,
                                UnchangedInSearch, database, SameClauses
<1> QED
  BY <1>2, <1>3

LEMMA AreUndefs ==
  ASSUME PlainTypes, TrailInv, LevelsBegin, CallInv,
         RestartsTooLate \/ AssumesTooLate \/ FoundTooLate
  PROVE  A!AnswerUndef
<1>1. A!CutAtGuess(AsTrail(trail), AsTrail(trail'))
  BY BackCuts
<1>2. /\ answer' = "undef" /\ SameClauses /\ UNCHANGED <<given, assumed, ok, model>>
  BY DEF RestartsTooLate, AssumesTooLate, FoundTooLate, Bail, Answers,
         UnchangedByAnswer, UnchangedInSearch, database, SameClauses
<1>3. A!Answer("undef")
  BY <1>1, <1>2, AnswerIs
<1> QED
  BY <1>2, <1>3, AnswerUndefIs

LEMMA GuessMapped ==
  ASSUME PlainTypes, TrailInv, NEW l \in UsedLits, GuessesLit(l)
  PROVE  /\ {l, A!Neg(l)} \cap A!True(AsTrail(trail)) = {}
         /\ AsTrail(trail') = Append(AsTrail(trail), [lit |-> l, guess |-> TRUE])
         /\ trail' # << >> /\ LastLit = l
<1>1. /\ Len(trail) \in Nat /\ DOMAIN trail = 1 .. Len(trail) /\ Len(lim) \in Nat
      /\ trail \in Seq(EntryTypes(used, next)) /\ next \in Nat /\ used \in SUBSET Vars
  BY StateIs
<1> DEFINE e == Entry(l, 0, Len(lim) + 1)
           u == AsTrail(trail)
           g == [lit |-> l, guess |-> TRUE]
<1>2. trail' = Append(trail, e) /\ OpenIn(trail, l)
  BY TrueIs DEF GuessesLit
<1>3. e.lit = l /\ AsEntry(e) = g
  <2>1. e.lit = l /\ e.level = Len(lim) + 1 /\ e.why = 0
    BY DEF Entry
  <2>2. (e.level > 0 /\ e.why = 0) = TRUE
    BY <1>1, <2>1
  <2> QED
    BY <2>1, <2>2 DEF AsEntry
<1>4. IsMapped(trail)
  BY <1>1, AsTrailIs
<1>5. /\ u \in Seq(A!Entries) /\ Len(u) = Len(trail) /\ DOMAIN u = 1 .. Len(trail)
      /\ \A i \in DOMAIN trail : u[i] = AsEntry(trail[i]) /\ u[i].lit = trail[i].lit
  BY <1>4 DEF IsMapped
<1>6. {l, A!Neg(l)} \cap A!True(u) = {}
  BY <1>1, <1>2, <1>5 DEF A!True, OpenIn, TrueIn, A!Neg, Neg
<1>13. g \in A!Entries
  <2>1. l \in A!Lits
    BY <1>1 DEF A!Lits, UsedLits
  <2> QED
    BY <2>1 DEF A!Entries
<1> HIDE DEF e, u, g
<1>7. /\ Len(trail') = Len(trail) + 1 /\ trail'[Len(trail) + 1] = e
      /\ \A i \in DOMAIN trail : trail'[i] = trail[i]
      /\ DOMAIN trail' = 1 .. Len(trail) + 1
  BY <1>1, <1>2
<1>8. AsTrail(trail') = [i \in 1 .. Len(trail) + 1 |-> AsEntry(trail'[i])]
  BY <1>7 DEF AsTrail
<1>9. \A i \in 1 .. Len(trail) + 1 :
        AsEntry(trail'[i]) = IF i = Len(trail) + 1 THEN g ELSE u[i]
  BY <1>1, <1>3, <1>5, <1>7
<1>10. Append(u, g) = [i \in 1 .. Len(trail) + 1 |-> IF i = Len(trail) + 1 THEN g ELSE u[i]]
  <2> DEFINE w == Append(u, g)
             n == Len(trail)
  <2>1. /\ w \in Seq(A!Entries) /\ Len(w) = n + 1 /\ w[n + 1] = g
        /\ \A i \in 1 .. n : w[i] = u[i]
    BY <1>1, <1>5, <1>13
  <2>2. n \in Nat
    BY <1>1
  <2> HIDE DEF w, n
  <2>3. w \in [1 .. n + 1 -> A!Entries]
    BY <2>1, <2>2
  <2>4. \A i \in 1 .. n + 1 : w[i] = IF i = n + 1 THEN g ELSE u[i]
    BY <2>1, <2>2
  <2>5. w = [i \in 1 .. n + 1 |-> IF i = n + 1 THEN g ELSE u[i]]
    BY <2>3, <2>4
  <2> QED
    BY <2>5 DEF w, n
<1>11. AsTrail(trail') = Append(u, g)
  BY <1>8, <1>9, <1>10
<1>12. trail' # << >> /\ trail'[Len(trail')].lit = l
  BY <1>1, <1>3, <1>7
<1> QED
  BY <1>6, <1>11, <1>12 DEF u, g, LastLit

LEMMA AreGuesses ==
  ASSUME PlainTypes, CallsTyped, TrailInv, AllGuesses
  PROVE  trail' # << >> /\ A!Guess(LastLit)
<1>1. PICK l \in UsedLits : GuessesLit(l)
  BY GuessesIs DEF AllGuesses
<1>2. SameClauses /\ UNCHANGED <<given, ok, assumed, answer, model>>
  BY DEF AllGuesses, Attempt, AssumeOpen, Branch, Decide, UnchangedInside,
         UnchangedInSearch, database, outcome, SameClauses
<1>3. /\ {l, A!Neg(l)} \cap A!True(AsTrail(trail)) = {}
      /\ AsTrail(trail') = Append(AsTrail(trail), [lit |-> l, guess |-> TRUE])
      /\ trail' # << >> /\ LastLit = l
  BY <1>1, GuessMapped
<1> QED
  BY <1>2, <1>3, Mapped DEF A!Guess, SameClauses

(* A forced literal is the only one of its clause that is not false.       *)
LEMMA ForcesUnit ==
  ASSUME PlainTypes, TrailInv, ListsInv, VisitForces
  PROVE  \E c \in KnownOf(clauses) : \A l \in c \ {Turned[1]} : FalseIn(trail, l)
<1>1. Reading(FALSE) /\ Spare = {} /\ IsFalse(Neg(P)) /\ Id \in DOMAIN clauses
  BY ReadingIs DEF VisitForces, Reading
<1>2. /\ Turned \in Seq(UsedLits) /\ Len(Turned) = Len(C.lits)
      /\ Turned[2] = Neg(P) /\ C.kind # "single"
      /\ \A k \in 3 .. Len(C.lits) : Turned[k] = C.lits[k]
  BY <1>1, TurnedIs
<1>3. Elements(C.lits) \in KnownOf(clauses) /\ Elements(C.lits) = Elements(Turned)
  BY <1>1, <1>2, KnownHas, TurnedSame DEF C
<1>4. \A k \in 3 .. Len(C.lits) : IsFalse(C.lits[k])
  BY <1>1 DEF Spare
<1>5. \A k \in DOMAIN Turned : k = 1 \/ IsFalse(Turned[k])
  <2> DEFINE n == Len(C.lits)
             q == Turned
  <2>1. q \in Seq(UsedLits) /\ Len(q) = n /\ IsFalse(q[2])
        /\ \A k \in 3 .. n : IsFalse(q[k])
    BY <1>1, <1>2, <1>4
  <2> HIDE DEF n, q
  <2>2. \A k \in DOMAIN q : k = 1 \/ k = 2 \/ k \in 3 .. n
    BY <2>1
  <2>3. \A k \in DOMAIN q : k = 1 \/ IsFalse(q[k])
    BY <2>1, <2>2
  <2> QED
    BY <2>3 DEF q
<1>6. \A l \in Elements(Turned) \ {Turned[1]} : FalseIn(trail, l)
  BY <1>5, TrueIs DEF Elements
<1> QED
  BY <1>3, <1>6

(* The open literals of a single set one of whose literals is false.       *)
LEMMA SettlesUnit ==
  ASSUME PlainTypes, TrailInv, ListsInv, Reading(TRUE), NEW k \in OpenOnes
  PROVE  \E c \in KnownOf(clauses) : \A l \in c \ {C.lits[k]} : FalseIn(trail, l)
<1>1. /\ Id \in DOMAIN clauses /\ IsFalse(Neg(P)) /\ C.kind = "single"
      /\ ~ IsOpen(Neg(P))
  BY ReadingIs DEF Reading
<1>2. Here \in DOMAIN C.lits /\ C.lits[Here] = Neg(P)
  BY HereIs
<1> DEFINE l == C.lits[k]
           m == Neg(P)
<1>3. l \in Elements(C.lits) /\ m \in Elements(C.lits) /\ l # m
  BY <1>1, <1>2 DEF OpenOnes, Elements
<1>4. FalseIn(trail, m)
  BY <1>1, TrueIs
<1> HIDE DEF l, m
<1>5. {l, m} \in KnownOf(clauses)
  BY <1>1, <1>3, KnownHas DEF C
<1>6. \A x \in {l, m} \ {l} : FalseIn(trail, x)
  BY <1>4
<1> QED
  BY <1>5, <1>6 DEF l

LEMMA ImpliesUnit ==
  ASSUME PlainTypes, TrailInv, ListsInv, VisitForces \/ VisitSettles \/ VisitRefutes,
         used' = used, next' = next
  PROVE  /\ Prefix(trail, trail')
         /\ \A i \in DOMAIN trail' \ DOMAIN trail :
              /\ trail'[i].level = 0 \/ trail'[i].why # 0
              /\ \E c \in KnownOf(clauses) :
                   \A l \in c \ {trail'[i].lit} : FalseIn(trail, l)
<1>1. next \in Nat /\ Len(lim) \in Nat /\ trail \in Seq(EntryTypes(used, next))
  BY StateIs
<1>2. CASE VisitForces
  <2>1. Reading(FALSE) /\ Enqueue(Turned[1], Id) /\ Id \in 1 .. next - 1
    BY <1>2, ReadingIs DEF VisitForces, Reading
  <2> DEFINE e == Entry(Turned[1], Id, CurrentLevel)
  <2>2. trail' = Append(trail, e)
    BY <2>1 DEF Enqueue
  <2>3. e.lit = Turned[1] /\ e.why = Id /\ e.why # 0
    BY <2>1 DEF Entry
  <2> HIDE DEF e
  <2>4. /\ Prefix(trail, trail')
        /\ \A i \in DOMAIN trail' \ DOMAIN trail : trail'[i] = e
    BY <1>1, <2>2 DEF Prefix
  <2>5. \E c \in KnownOf(clauses) : \A l \in c \ {Turned[1]} : FalseIn(trail, l)
    BY <1>2, ForcesUnit
  <2> QED
    BY <2>3, <2>4, <2>5
<1>3. CASE VisitSettles \/ VisitRefutes
  <2>1. Len(lim) = 0 /\ Reading(TRUE)
    BY <1>3 DEF VisitSettles, VisitRefutes, CurrentLevel
  <2>2. PICK S \in SUBSET OpenOnes : EnqueueAll(Chosen(C.lits, S), Id)
    BY <1>3 DEF VisitSettles, VisitRefutes
  <2> DEFINE q == Chosen(C.lits, S)
  <2>3. trail' = Grown(trail, q, Id, Len(lim))
    BY <2>2 DEF EnqueueAll, Grown, Put, Entries, CurrentLevel
  <2>4. C.lits \in Seq(UsedLits) /\ S \subseteq DOMAIN C.lits
    BY <2>1, <2>2, HereIs DEF OpenOnes
  <2>5. /\ q \in Seq(UsedLits)
        /\ \A m \in DOMAIN q : \E k \in S : q[m] = C.lits[k]
    BY <2>4, ChosenIs
  <2> HIDE DEF q
  <2> DEFINE p == Put(q, Id, Len(lim))
  <2>6. /\ p \in Seq([lit : UsedLits, why : {Id}, level : {0}])
        /\ \A m \in DOMAIN p : /\ m \in DOMAIN q /\ p[m].lit = q[m]
                               /\ p[m].level = 0
    <3> DEFINE R == [lit : UsedLits, why : {Id}, level : {0}]
    <3>1. /\ DOMAIN q = 1 .. Len(q) /\ Len(q) \in Nat
          /\ \A m \in DOMAIN q : q[m] \in UsedLits
      BY <2>5
    <3>2. \A m \in DOMAIN q : /\ Entry(q[m], Id, 0) \in R
                            /\ Entry(q[m], Id, 0).lit = q[m]
                            /\ Entry(q[m], Id, 0).level = 0
      BY <3>1 DEF Entry
    <3>3. p = [m \in DOMAIN q |-> Entry(q[m], Id, 0)]
      BY <2>1 DEF Put
    <3> HIDE DEF p, R
    <3>4. p \in [1 .. Len(q) -> R]
      BY <3>1, <3>2, <3>3
    <3>5. p \in Seq(R)
      BY <3>1, <3>4
    <3>6. \A m \in DOMAIN p : m \in DOMAIN q /\ p[m].lit = q[m] /\ p[m].level = 0
      BY <3>2, <3>3
    <3> QED
      BY <3>5, <3>6 DEF R
  <2> HIDE DEF p
  <2>7. trail' = trail \o p
    BY <2>3 DEF Grown, p
  <2>8. /\ DOMAIN trail' = 1 .. Len(trail) + Len(p)
        /\ \A i \in DOMAIN trail : trail'[i] = trail[i]
        /\ \A m \in 1 .. Len(p) : trail'[Len(trail) + m] = p[m]
    BY <1>1, <2>6, <2>7, JoinedIs
  <2>9. Prefix(trail, trail')
    BY <1>1, <2>6, <2>8 DEF Prefix
  <2>10. ASSUME NEW i \in DOMAIN trail' \ DOMAIN trail
         PROVE  \E m \in DOMAIN p : trail'[i] = p[m]
    <3>1. i - Len(trail) \in 1 .. Len(p) /\ i = Len(trail) + (i - Len(trail))
      BY <1>1, <2>6, <2>8, <2>10
    <3> QED
      BY <2>6, <2>8, <3>1
  <2>11. ASSUME NEW m \in DOMAIN q
         PROVE  \E c \in KnownOf(clauses) : \A l \in c \ {q[m]} : FalseIn(trail, l)
    BY <2>1, <2>2, <2>5, <2>11, SettlesUnit
  <2> QED
    BY <2>6, <2>9, <2>10, <2>11
<1> QED
  BY <1>2, <1>3

LEMMA AreImplied ==
  ASSUME PlainTypes, TrailInv, ListsInv, ListsInv', TrailInv', PlainTypes',
         used' = used, VisitForces \/ VisitSettles \/ VisitRefutes
  PROVE  A!Imply
<1>1. SameClauses
  BY VisitsKeepKnown DEF Visits, SameClauses
<1>2. UNCHANGED <<given, ok, assumed, answer, model>> /\ next' = next
  BY DEF VisitForces, VisitSettles, VisitRefutes, Keep, Conflict, UnchangedByVisit,
         outcome
<1>3. /\ used \in SUBSET Vars /\ next \in Nat /\ trail \in Seq(EntryTypes(used, next))
  BY StateIs
<1>4. trail' \in Seq(EntryTypes(used, next))
  BY <1>2 DEF TrailInv, Sound
<1>5. A!Extends(AsTrail(trail), AsTrail(trail'), KnownOf(clauses))
  BY <1>2, <1>3, <1>4, ImpliesUnit, ExtendsMapped
<1>6. AsTrail(trail') \in Seq(A!Entries)
  <2>1. IsMapped(trail')
    BY <1>3, <1>4, AsTrailIs
  <2> QED
    BY <2>1 DEF IsMapped
<1> QED
  BY <1>1, <1>2, <1>5, <1>6, ImplyIs

(* The literals of the trail, and a conflict without a guess, as SatSearch  *)
(* sees them.                                                              *)
LEMMA TrueMapped ==
  ASSUME PlainTypes, TrailInv
  PROVE  /\ \A l : l \in A!True(AsTrail(trail)) <=> IsTrue(l)
         /\ \A l \in UsedLits : l \in A!False(AsTrail(trail)) <=> IsFalse(l)
         /\ \A i \in A!Guesses(AsTrail(trail)) :
              i \in DOMAIN trail /\ IsGuess(i) /\ AsTrail(trail)[i].lit = trail[i].lit
         /\ \A i \in DOMAIN trail : IsGuess(i) => i \in A!Guesses(AsTrail(trail))
         /\ Len(lim) = 0 => A!Guesses(AsTrail(trail)) = {}
         /\ A!True(AsTrail(trail)) \cap A!False(AsTrail(trail)) = {}
<1>1. /\ trail \in Seq(EntryTypes(used, next)) /\ next \in Nat /\ used \in SUBSET Vars
      /\ OneEach(trail) /\ Levelled(trail, lim) /\ lim \in Seq(Int)
      /\ \A i \in DOMAIN trail : /\ trail[i].lit \in UsedLits /\ trail[i].level \in Nat
                                 /\ trail[i].why \in Nat
  BY StateIs
<1> DEFINE u == AsTrail(trail)
<1>2. /\ DOMAIN u = DOMAIN trail
      /\ \A i \in DOMAIN trail : /\ u[i].lit = trail[i].lit
                                 /\ u[i].guess <=> trail[i].level > 0 /\ trail[i].why = 0
  <2>1. IsMapped(trail)
    BY <1>1, AsTrailIs
  <2>2. \A i \in DOMAIN trail : \/ trail[i].level > 0 /\ trail[i].why = 0
                                \/ trail[i].level = 0 \/ trail[i].why # 0
    BY <1>1
  <2> QED
    BY <2>1, <2>2 DEF IsMapped
<1>3. Len(lim) = 0 => A!Guesses(u) = {}
  BY <1>1, FactsMapped
<1> HIDE DEF u
<1>4. \A l : l \in A!True(u) <=> IsTrue(l)
  BY <1>2 DEF A!True, IsTrue
<1>5. \A l \in UsedLits : Neg(Neg(l)) = l /\ Neg(l) \in UsedLits
  <2>1. UsedLits \subseteq Lits
    BY <1>1 DEF UsedLits, Lits
  <2>2. \A l \in UsedLits : Neg(l) \in UsedLits
    BY DEF UsedLits, Neg
  <2> QED
    BY <2>1, <2>2, LitFacts
<1>6. \A l \in UsedLits : l \in A!False(u) <=> IsFalse(l)
  <2> SUFFICES ASSUME NEW l \in UsedLits PROVE l \in A!False(u) <=> IsFalse(l)
    OBVIOUS
  <2>1. ASSUME l \in A!False(u) PROVE IsFalse(l)
    <3>1. PICK m \in A!True(u) : l = A!Neg(m)
      BY <2>1 DEF A!False
    <3>2. IsTrue(m) /\ m \in UsedLits
      BY <1>1, <1>4, <3>1 DEF IsTrue
    <3>3. A!Neg(m) = Neg(m)
      BY DEF A!Neg, Neg
    <3>4. Neg(l) = m
      BY <1>5, <3>1, <3>2, <3>3
    <3> QED
      BY <3>2, <3>4 DEF IsFalse
  <2>2. ASSUME IsFalse(l) PROVE l \in A!False(u)
    <3>1. Neg(l) \in A!True(u)
      BY <1>4, <2>2 DEF IsFalse
    <3>2. A!Neg(Neg(l)) = l
      BY <1>5 DEF A!Neg, Neg
    <3> QED
      BY <3>1, <3>2 DEF A!False
  <2> QED
    BY <2>1, <2>2
<1>7. A!True(u) \cap A!False(u) = {}
  <2> SUFFICES ASSUME NEW l, l \in A!True(u), l \in A!False(u) PROVE FALSE
    OBVIOUS
  <2>1. IsTrue(l) /\ l \in UsedLits
    BY <1>1, <1>4 DEF IsTrue
  <2>2. IsFalse(l)
    BY <1>6, <2>1
  <2>3. PICK i \in DOMAIN trail : trail[i].lit = l
    BY <2>1 DEF IsTrue
  <2>4. PICK j \in DOMAIN trail : trail[j].lit = Neg(l)
    BY <2>2 DEF IsFalse, IsTrue
  <2>5. Neg(l)[1] = l[1] /\ Neg(l) # l
    BY <2>1 DEF Neg, UsedLits
  <2> QED
    BY <1>1, <2>3, <2>4, <2>5 DEF OneEach
<1>8. \A i \in DOMAIN trail : i \in A!Guesses(u) <=> IsGuess(i)
  BY <1>2 DEF A!Guesses, IsGuess
<1>9. A!Guesses(u) \subseteq DOMAIN trail
  BY <1>2 DEF A!Guesses
<1> QED
  BY <1>2, <1>3, <1>4, <1>6, <1>7, <1>8, <1>9 DEF u

LEMMA FalsifiedIs ==
  ASSUME PlainTypes, TrailInv, ListsInv, ConflictFalse, pc = "conflict", Len(lim) = 0
  PROVE  A!Falsified(KnownOf(clauses), AsTrail(trail))
<1>1. PICK c \in KnownOf(clauses) : \A l \in c : IsFalse(l)
  BY KnownIs DEF ConflictFalse
<1>2. c \subseteq UsedLits
  <2>1. ClausesOf(clauses, used, next) /\ used \in SUBSET Vars
    BY DEF ListsInv, PlainTypes
  <2> QED
    BY <2>1, KnownTyped DEF UsedLits
<1>3. c \subseteq A!False(AsTrail(trail))
  BY <1>1, <1>2, TrueMapped
<1> QED
  BY <1>1, <1>3 DEF A!Falsified

LEMMA AreRefuted ==
  ASSUME PlainTypes, TrailInv, ListsInv, NoLevel, ConflictFalse,
         AddRefutes \/ AttemptRefutes
  PROVE  A!Refute
<1>1. pc = "conflict" /\ Len(lim) = 0
  BY DEF AddRefutes, AttemptRefutes, NoLevel, During, CurrentLevel
<1>2. /\ ~ ok' /\ trail' = trail /\ SameClauses
      /\ UNCHANGED <<given, assumed, answer, model>>
  BY DEF AddRefutes, AttemptRefutes, UnchangedInAttempt, database, assignment, outcome,
         SameClauses
<1>3. A!Guesses(AsTrail(trail)) = {}
  BY <1>1, TrueMapped
<1> QED
  BY <1>1, <1>2, <1>3, FalsifiedIs, RefuteIs

LEMMA AreSolves ==
  ASSUME PlainTypes, CallsTyped, TrailInv, Solve
  PROVE  A!Solve(assumed')
<1>1. /\ assumed' = Range(Args) /\ answer' = "none" /\ trail' = trail /\ SameClauses
      /\ UNCHANGED <<given, ok, model>>
  BY DEF Solve, database, assignment, SameClauses
<1>2. Args \in Seq(UsedLits)
  BY CallIs DEF Solve
<1>3. UsedLits \subseteq A!Lits
  BY DEF PlainTypes, UsedLits, A!Lits
<1>4. Range(Args) \subseteq A!Lits
  <2> DEFINE q == Args
  <2>1. q \in Seq(UsedLits)
    BY <1>2
  <2> HIDE DEF q
  <2>2. Range(q) \subseteq A!Lits
    BY <1>3, <2>1 DEF Range
  <2> QED
    BY <2>2 DEF q
<1> QED
  BY <1>1, <1>4, SolveIs

LEMMA AreUnsats ==
  ASSUME PlainTypes, CallsTyped, TrailInv, ListsInv, CallInv, NoLevel, SolveInv,
         LevelsBegin, ConflictFalse, Refused \/ SearchRefutes \/ AssumeFalse
  PROVE  A!AnswerUnsat
<1>1. /\ answer' = "unsat" /\ SameClauses /\ UNCHANGED <<given, assumed, model>>
  BY DEF Refused, SearchRefutes, AssumeFalse, Answers, UnchangedByAnswer,
         UnchangedInSearch, database, SameClauses
<1>2. A!CutAtGuess(AsTrail(trail), AsTrail(trail'))
  <2>1. CASE AssumeFalse
    BY <2>1, BackCuts
  <2>2. CASE Refused \/ SearchRefutes
    BY <2>2 DEF Refused, SearchRefutes, assignment, A!CutAtGuess
  <2> QED
    BY <2>1, <2>2
<1>3. A!Answer("unsat")
  BY <1>1, <1>2, AnswerIs
<1>4. CASE Refused
  <2>1. ~ ok /\ ~ ok'
    BY <1>4 DEF Refused, SolveInv
  <2> QED
    BY <1>1, <1>3, <2>1, AnswerUnsatIs
<1>5. CASE SearchRefutes
  <2>1. pc = "conflict" /\ Len(lim) = 0 /\ ~ ok'
    BY <1>5 DEF SearchRefutes, CurrentLevel
  <2>2. A!Guesses(AsTrail(trail)) = {}
    BY <2>1, TrueMapped
  <2> QED
    BY <1>1, <1>3, <2>1, <2>2, FalsifiedIs, AnswerUnsatIs
<1>6. CASE AssumeFalse
  <2>1. Assuming /\ IsFalse(Assumption) /\ ok' = ok
    BY <1>6 DEF AssumeFalse
  <2>2. call.op = "solve" /\ assumed = Range(call.lits)
    BY <2>1 DEF Assuming, Deciding, Searching, During, CallInv, SolveInv
  <2>3. /\ Len(lim) \in Nat /\ Len(lim) < Len(call.lits)
        /\ call.lits \in Seq(UsedLits) /\ Assumption = call.lits[Len(lim) + 1]
    BY <2>1, StateIs DEF Assuming, Assumption, CurrentLevel, CallsTyped, CallTypes
  <2>4. \A k \in 1 .. Len(lim) + 1 : call.lits[k] \in assumed
    <3>1. \A k \in 1 .. Len(lim) + 1 : k \in DOMAIN call.lits
      BY <2>3
    <3> QED
      BY <2>2, <3>1 DEF Range
  <2>5. ASSUME NEW i \in DOMAIN trail, IsGuess(i) PROVE trail[i].lit \in assumed
    <3>1. trail[i].level \in 0 .. Len(lim) /\ trail[i].level > 0
      BY <2>5, StateIs DEF IsGuess
    <3>2. trail[i].level \in 1 .. Len(lim) + 1 /\ trail[i].level <= Len(call.lits)
      BY <2>3, <3>1
    <3>3. trail[i].lit = call.lits[trail[i].level]
      BY <2>2, <2>5, <3>2 DEF SolveInv
    <3> QED
      BY <2>4, <3>2, <3>3
  <2>6. \A i \in A!Guesses(AsTrail(trail)) : AsTrail(trail)[i].lit \in assumed
    BY <2>5, TrueMapped
  <2>7. Assumption \in UsedLits /\ Assumption \in assumed
    <3>1. Len(lim) + 1 \in 1 .. Len(lim) + 1
      BY <2>3
    <3> QED
      BY <2>1, <2>3, <2>4, <3>1, AssumptionIs
  <2>8. Assumption \in A!False(AsTrail(trail))
    BY <2>1, <2>7, TrueMapped
  <2> QED
    BY <1>1, <1>3, <2>1, <2>6, <2>7, <2>8, AnswerUnsatIs
<1> QED
  BY <1>4, <1>5, <1>6

LEMMA AreSats ==
  ASSUME PlainTypes, CallsTyped, TrailInv, ListsInv, CallInv, QueueInv, GuardInv,
         SolveInv, SearchesOk, AssumedTrue, LevelsBegin, slips = {}, ModelFound
  PROVE  A!AnswerSat
<1> DEFINE found == [v \in Vars |-> IsTrue(<<v, TRUE>>)]
<1>1. /\ Picking /\ OpenVars = {} /\ model' = found /\ ok' = ok
      /\ answer' = "sat" /\ SameClauses /\ UNCHANGED <<given, assumed>>
  BY DEF ModelFound, Answers, UnchangedByAnswer, UnchangedInSearch, database, SameClauses
<1>2. /\ pc \in {"propagate", "decide", "pick"} /\ call.op = "solve"
      /\ pc = "propagate" => qhead = Len(trail)
      /\ Len(lim) >= Len(call.lits)
  BY <1>1, StateIs DEF Picking, Branching, Assuming, Deciding, Quiet, Searching, During,
                       CallInv, SolveInv, CurrentLevel, CallsTyped, CallTypes
<1>3. Fine
  BY <1>2 DEF SearchesOk, Fine
<1>4. qhead = Len(trail) /\ pc # "conflict"
  BY <1>2, <1>3 DEF QueueInv
<1>5. /\ found \in A!Assignments
      /\ \A l \in UsedLits : IsFalse(l) \/ A!Holds(found, l)
  BY <1>1, FoundHolds
<1>6. \A v \in Vars : found[v] <=> <<v, TRUE>> \in A!True(AsTrail(trail))
  BY TrueMapped
<1>7. found = [v \in Vars |-> <<v, TRUE>> \in A!True(AsTrail(trail))]
  <2> DEFINE right == [v \in Vars |-> <<v, TRUE>> \in A!True(AsTrail(trail))]
  <2>1. /\ DOMAIN found = Vars /\ DOMAIN right = Vars
        /\ found = [v \in Vars |-> found[v]] /\ right = [v \in Vars |-> right[v]]
    OBVIOUS
  <2>2. \A v \in Vars : found[v] \in BOOLEAN /\ right[v] \in BOOLEAN
    BY DEF IsTrue
  <2>3. \A v \in Vars : found[v] <=> right[v]
    BY <1>6
  <2> HIDE DEF found, right
  <2>4. \A v \in Vars : found[v] = right[v]
    BY <2>2, <2>3
  <2>5. found = right
    BY <2>1, <2>4
  <2> QED
    BY <2>5 DEF found, right
<1>8. ASSUME NEW l \in UsedLits, A!Holds(found, l)
      PROVE  l \in A!True(AsTrail(trail))
  <2>1. PICK v \in used, b \in BOOLEAN : l = <<v, b>>
    BY DEF UsedLits
  <2>2. v \in Vars
    BY DEF PlainTypes
  <2>3. CASE b = TRUE
    <3>1. found[v] = TRUE
      BY <1>8, <2>1, <2>3 DEF A!Holds
    <3> QED
      BY <2>1, <2>2, <2>3, <3>1, TrueMapped
  <2>4. CASE b = FALSE
    <3>1. found[v] = FALSE
      BY <1>8, <2>1, <2>4 DEF A!Holds
    <3>2. ~ IsTrue(<<v, TRUE>>)
      BY <2>2, <3>1
    <3>3. ~ IsOpen(<<v, TRUE>>)
      BY <1>1 DEF OpenVars
    <3>4. Neg(<<v, TRUE>>) = l
      BY <2>1, <2>4 DEF Neg
    <3>5. IsTrue(l)
      BY <3>2, <3>3, <3>4 DEF IsOpen, IsFalse
    <3> QED
      BY <3>5, TrueMapped
  <2> QED
    BY <2>3, <2>4
<1> HIDE DEF found
<1>9. ASSUME NEW c \in KnownOf(clauses)
      PROVE  c \cap A!True(AsTrail(trail)) # {}
  <2>1. ClausesOf(clauses, used, next) /\ used \in SUBSET Vars
    BY DEF ListsInv, PlainTypes
  <2>2. Obeyed(found, clauses)
    BY <1>3, <1>4, <1>5, FoundObeys DEF Obeyed
  <2>3. A!Satisfies(found, c) /\ c \subseteq UsedLits
    BY <1>9, <2>1, <2>2, KnownTyped DEF UsedLits
  <2>4. PICK l \in c : A!Holds(found, l)
    BY <2>3 DEF A!Satisfies
  <2> QED
    BY <1>8, <2>3, <2>4
<1>10. assumed \subseteq A!True(AsTrail(trail))
  <2> SUFFICES ASSUME NEW l \in assumed PROVE l \in A!True(AsTrail(trail))
    OBVIOUS
  <2>1. call.lits \in Seq(UsedLits) /\ Len(lim) \in Nat
    BY StateIs DEF CallsTyped, CallTypes
  <2>2. PICK k \in DOMAIN call.lits : call.lits[k] = l
    BY <1>2 DEF SolveInv, Range
  <2>3. k \in 1 .. Len(lim) /\ k <= Len(call.lits)
    BY <1>2, <2>1
  <2>4. PICK i \in DOMAIN trail : trail[i].lit = l
    BY <1>2, <2>2, <2>3 DEF AssumedTrue
  <2> QED
    BY <2>4, TrueMapped DEF IsTrue
<1>11. A!Answer("sat")
  BY <1>1, BackCuts, AnswerIs
<1>12. ok /\ A!True(AsTrail(trail)) \cap A!False(AsTrail(trail)) = {}
  BY <1>3, TrueMapped DEF Fine
<1> QED
  BY <1>1, <1>7, <1>9, <1>10, <1>11, <1>12, AnswerSatIs


(* A clause learnt: the trail goes back to before a guess, and is one       *)
(* literal longer, which the clause leaves no choice but.                   *)
LEMMA BackUnit ==
  ASSUME PlainTypes, TrailInv, TrailInv', LevelsBegin, pc = "conflict",
         used' = used, next' \in Nat, next <= next', NEW n \in Nat, n < Len(lim),
         Prefix(TrailUpTo(n), trail'), Len(trail') = Len(TrailUpTo(n)) + 1,
         trail'[Len(trail')].level = 0 \/ trail'[Len(trail')].why # 0,
         NEW c,
         \A l \in c \ {trail'[Len(trail')].lit} : FalseIn(TrailUpTo(n), l)
  PROVE  /\ \E i \in A!Guesses(AsTrail(trail)) :
              A!Extends(SubSeq(AsTrail(trail), 1, i - 1), AsTrail(trail'), {c})
         /\ AsTrail(trail') \in Seq(A!Entries)
<1> DEFINE t == TrailUpTo(n)
           i == lim[n + 1] + 1
<1>1. /\ used \in SUBSET Vars /\ next \in Nat /\ lim \in Seq(Nat) /\ Len(lim) \in Nat
      /\ Levelled(trail, lim) /\ Len(trail) \in Nat
  BY StateIs
<1>2. lim[n + 1] < Len(trail)
  <2>1. lim[Len(lim)] < Len(trail)
    BY <1>1 DEF LevelsBegin
  <2>2. n + 1 \in DOMAIN lim /\ Len(lim) \in DOMAIN lim /\ n + 1 <= Len(lim)
    BY <1>1
  <2>3. lim[n + 1] <= lim[Len(lim)] /\ lim[n + 1] \in Nat /\ lim[Len(lim)] \in Nat
    BY <1>1, <2>2 DEF Levelled
  <2> QED
    BY <1>1, <2>1, <2>3
<1>3. /\ i \in A!Guesses(AsTrail(trail))
      /\ AsTrail(t) = SubSeq(AsTrail(trail), 1, i - 1)
  BY <1>2, CutMapped
<1>4. next \in Nat /\ next <= next
  BY <1>1
<1>5. t \in Seq(EntryTypes(used, next)) /\ DOMAIN t = 1 .. Len(t) /\ Len(t) \in Nat
  <2>1. Sound(t, LimUpTo(n), used, next) /\ DOMAIN t = 1 .. Len(t)
    BY <1>4, BackIs
  <2>2. t \in Seq(EntryTypes(used, next))
    BY <2>1 DEF Sound
  <2> HIDE DEF t
  <2> QED
    BY <2>1, <2>2
<1>6. trail' \in Seq(EntryTypes(used, next'))
  BY DEF TrailInv, Sound
<1>7. IsMapped(trail')
  BY <1>1, <1>6, AsTrailIs
<1>8. AsTrail(trail') \in Seq(A!Entries) /\ DOMAIN trail' = 1 .. Len(trail')
  BY <1>7 DEF IsMapped
<1> HIDE DEF t, i
<1>9. \A k \in DOMAIN trail' \ DOMAIN t : k = Len(trail')
  BY <1>5, <1>8 DEF t
<1>10. A!Extends(AsTrail(t), AsTrail(trail'), {c})
  <2>1. /\ \A k \in DOMAIN trail' \ DOMAIN t : trail'[k].level = 0 \/ trail'[k].why # 0
        /\ Prefix(t, trail')
    BY <1>9 DEF t
  <2>2. \A k \in DOMAIN trail' \ DOMAIN t :
          \E d \in {c} : \A l \in d \ {trail'[k].lit} : FalseIn(t, l)
    BY <1>9 DEF t
  <2> QED
    BY <1>1, <1>5, <1>6, <2>1, <2>2, ExtendsMapped
<1> QED
  BY <1>3, <1>8, <1>10

(* What allows the clauses and the facts satisfies c: c follows.           *)
LEMMA EntailedIs ==
  ASSUME PlainTypes, TrailInv, ListsInv, NEW c,
         \A a \in A!Assignments : Allows(a, clauses, trail) => A!Satisfies(a, c)
  PROVE  A!Entails(KnownOf(clauses), A!Facts(AsTrail(trail)), c)
<1>1. /\ used \in SUBSET Vars /\ next \in Nat /\ trail \in Seq(EntryTypes(used, next))
      /\ Levelled(trail, lim) /\ lim \in Seq(Int) /\ ClausesOf(clauses, used, next)
  BY StateIs DEF ListsInv
<1>2. ASSUME NEW a \in A!Assignments,
             \A l \in A!Facts(AsTrail(trail)) : A!Holds(a, l),
             \A k \in KnownOf(clauses) : A!Satisfies(a, k)
      PROVE  A!Satisfies(a, c)
  <2>1. FactsIn(a, trail)
    BY <1>1, <1>2, FactsMapped
  <2>2. Obeyed(a, clauses)
    BY <1>1, <1>2, KnownTyped
  <2> QED
    BY <2>1, <2>2 DEF Allows
<1> QED
  BY <1>2 DEF A!Entails

(* The clause learnt is kept, or is its only literal.                      *)
LEMMA LearntIsOne ==
  ASSUME PlainTypes, CallsTyped, TrailInv, ListsInv, ReasonsInv, WorkInv, WorkMeans,
         Learn, Kept = << >>, used' = used
  PROVE  /\ Asserting \in UsedLits /\ next' = next /\ clauses' = clauses
         /\ \A a \in A!Assignments : Allows(a, clauses, trail) =>
              A!Satisfies(a, {Asserting})
<1>1. Analyzing /\ Present # {}
  BY DEF Learn
<1>2. Asserting \in UsedLits
  BY <1>1, LearntIs
<1>3. next' = next /\ clauses' = clauses
  BY DEF Learn, database
<1>4. Elements(Kept) = {}
  BY DEF Elements
<1>5. ASSUME NEW a \in A!Assignments, Allows(a, clauses, trail)
      PROVE  A!Satisfies(a, {Asserting})
  <2>1. A!Holds(a, Asserting)
    BY <1>4, <1>5, LearntMeans
  <2> QED
    BY <2>1 DEF A!Satisfies
<1> QED
  BY <1>2, <1>3, <1>5

LEMMA LearntIsKept ==
  ASSUME PlainTypes, CallsTyped, TrailInv, ListsInv, ReasonsInv, WorkInv, WorkMeans,
         Learn, Kept # << >>, used' = used
  PROVE  LET c == Elements(LearntClause)
         IN  /\ c \subseteq UsedLits /\ next' = next + 1 /\ next \in Nat
             /\ Range(clauses'[next].lits) = c
             /\ KnownOf(clauses') = KnownOf(clauses) \cup {c}
             /\ \A l \in c \ {Asserting} : FalseIn(TrailUpTo(BackLevel), l)
             /\ \A a \in A!Assignments : Allows(a, clauses, trail) => A!Satisfies(a, c)
<1> DEFINE q == LearntClause
           d == [lits |-> q, kind |-> "learnt"]
<1>1. Analyzing /\ Present # {}
  BY DEF Learn
<1>2. /\ q \in Seq(UsedLits) /\ Len(q) \in Nat /\ q[1] = Asserting
      /\ \A k \in 2 .. Len(q) : FalseIn(TrailUpTo(BackLevel), q[k])
  BY <1>1, LearntIs
<1>3. /\ next' = next + 1
      /\ clauses' = [i \in DOMAIN clauses \cup {next} |->
                       IF i = next THEN d ELSE clauses[i]]
  BY DEF Learn, NewClause
<1>4. next \in Nat /\ DOMAIN clauses \subseteq 1 .. next - 1
  BY StateIs DEF ListsInv, ClausesOf
<1>5. next \notin DOMAIN clauses
  BY <1>4
<1>6. \A a \in A!Assignments : Allows(a, clauses, trail) =>
        \E l \in Elements(q) : A!Holds(a, l)
  BY LearntObeyed
<1> HIDE DEF q
<1>7. d.lits = q /\ Meaning(d) = {Elements(q)} /\ Range(q) = Elements(q)
  BY DEF Meaning, Elements, Range
<1> HIDE DEF d
<1>8. /\ clauses'[next] = d /\ DOMAIN clauses' = DOMAIN clauses \cup {next}
      /\ \A i \in DOMAIN clauses : clauses'[i] = clauses[i]
  BY <1>3, <1>5
<1>9. KnownOf(clauses') = KnownOf(clauses) \cup {Elements(q)}
  BY <1>7, <1>8 DEF KnownOf
<1>10. Elements(q) \subseteq UsedLits
  BY <1>2 DEF Elements
<1>11. \A l \in Elements(q) \ {Asserting} : FalseIn(TrailUpTo(BackLevel), l)
  <2> SUFFICES ASSUME NEW l \in Elements(q) \ {Asserting}
               PROVE  FalseIn(TrailUpTo(BackLevel), l)
    OBVIOUS
  <2>1. PICK k \in DOMAIN q : q[k] = l
    BY DEF Elements
  <2>2. k \in 2 .. Len(q)
    BY <1>2, <2>1
  <2> QED
    BY <1>2, <2>1, <2>2
<1>12. \A a \in A!Assignments : Allows(a, clauses, trail) => A!Satisfies(a, Elements(q))
  BY <1>6 DEF A!Satisfies
<1> QED
  BY <1>3, <1>4, <1>7, <1>8, <1>9, <1>10, <1>11, <1>12 DEF q

LEMMA AreLearns ==
  ASSUME PlainTypes, CallsTyped, TrailInv, ListsInv, ReasonsInv, WorkInv, WorkMeans,
         LevelsBegin, TrailInv', used' = used, Next, Learns
  PROVE  trail' # << >> /\ A!Learn(Learnt)
<1>1. /\ Learn /\ Analyzing /\ pc = "conflict"
      /\ UNCHANGED <<given, ok, assumed, answer, model>>
  BY DEF Learns, SearchLearns, TryBacktracks, Learn, Analyzing, outcome
<1>2. next' \in Nat \ {0} /\ next <= next' /\ next \in Nat \ {0}
  BY NextGrows, StateIs
<1>3. Kept # << >> => next' = next + 1
  BY <1>1 DEF Learn, NewClause
<1> DEFINE b == BackLevel
           t == TrailUpTo(b)
<1>4. /\ Prefix(t, trail') /\ Len(trail') = Len(t) + 1 /\ Len(trail') \in Nat
      /\ DOMAIN trail' = 1 .. Len(trail')
      /\ trail'[Len(trail')] = Entry(Asserting, IF Kept = << >> THEN 0 ELSE next, b)
      /\ b \in Nat /\ b < Len(lim)
  BY <1>1, <1>2, <1>3, LearnKeepsSound
<1>5. Len(t) \in Nat
  <2>1. next \in Nat /\ next <= next
    BY <1>2
  <2> QED
    BY <1>4, <2>1, BackIs
<1>6. trail' # << >> /\ Len(trail') >= 1
  BY <1>4, <1>5
<1>7. LastLit = Asserting /\ trail'[Len(trail')].lit = Asserting
  BY <1>4 DEF LastLit, Entry
<1>8. trail'[Len(trail')].level = 0 \/ trail'[Len(trail')].why # 0
  <2>1. CASE Kept = << >>
    BY <1>4, <2>1 DEF Entry, BackLevel
  <2>2. CASE Kept # << >>
    BY <1>2, <1>4, <2>2 DEF Entry
  <2> QED
    BY <2>1, <2>2
<1> HIDE DEF b, t
<1>9. PICK c : c = Learnt
  OBVIOUS
<1>10. /\ c \subseteq UsedLits
       /\ KnownOf(clauses') \subseteq KnownOf(clauses) \cup {c}
       /\ KnownOf(clauses) \subseteq KnownOf(clauses')
       /\ \A l \in c \ {Asserting} : FalseIn(TrailUpTo(BackLevel), l)
       /\ \A a \in A!Assignments : Allows(a, clauses, trail) => A!Satisfies(a, c)
  <2>1. CASE Kept = << >>
    <3>1. /\ Asserting \in UsedLits /\ next' = next /\ clauses' = clauses
          /\ \A a \in A!Assignments : Allows(a, clauses, trail) =>
               A!Satisfies(a, {Asserting})
      BY <1>1, <2>1, LearntIsOne
    <3>2. c = {Asserting}
      BY <1>7, <1>9, <3>1 DEF Learnt
    <3> QED
      BY <3>1, <3>2
  <2>2. CASE Kept # << >>
    <3> DEFINE d == Elements(LearntClause)
    <3>1. /\ d \subseteq UsedLits /\ next' = next + 1 /\ next \in Nat
          /\ Range(clauses'[next].lits) = d
          /\ KnownOf(clauses') = KnownOf(clauses) \cup {d}
          /\ \A l \in d \ {Asserting} : FalseIn(TrailUpTo(BackLevel), l)
          /\ \A a \in A!Assignments : Allows(a, clauses, trail) => A!Satisfies(a, d)
      BY <1>1, <2>2, LearntIsKept
    <3> HIDE DEF d
    <3>2. c = d
      BY <1>9, <3>1 DEF Learnt
    <3> QED
      BY <3>1, <3>2
  <2> QED
    BY <2>1, <2>2
<1>11. c \in A!Clauses
  <2>1. UsedLits \subseteq A!Lits
    BY DEF PlainTypes, UsedLits, A!Lits
  <2> QED
    BY <1>10, <2>1 DEF A!Clauses
<1>12. A!Entails(KnownOf(clauses), A!Facts(AsTrail(trail)), c)
  BY <1>10, EntailedIs
<1>13. /\ \E i \in A!Guesses(AsTrail(trail)) :
            A!Extends(SubSeq(AsTrail(trail), 1, i - 1), AsTrail(trail'), {c})
       /\ AsTrail(trail') \in Seq(A!Entries)
  <2>1. /\ next' \in Nat /\ b \in Nat /\ b < Len(lim)
        /\ Prefix(TrailUpTo(b), trail') /\ Len(trail') = Len(TrailUpTo(b)) + 1
        /\ \A l \in c \ {trail'[Len(trail')].lit} : FalseIn(TrailUpTo(b), l)
    BY <1>2, <1>4, <1>7, <1>10 DEF b, t
  <2> QED
    BY <1>1, <1>2, <1>8, <2>1, BackUnit
<1>14. A!Learn(c)
  BY <1>1, <1>10, <1>11, <1>12, <1>13, LearnIs
<1>15. A!Learn(Learnt)
  BY <1>9, <1>14 DEF A!Learn
<1> QED
  BY <1>6, <1>15

(* The literal to assert fails: its opposite is learnt.                    *)
LEMMA AreDenied ==
  ASSUME PlainTypes, CallsTyped, TrailInv, ListsInv, ReasonsInv, CallInv, Clash,
         LevelsBegin, TrailInv', used' = used, AssertFails
  PROVE  trail' # << >> /\ A!Learn(Learnt)
<1>1. /\ pc = "conflict" /\ next' = next /\ clauses' = clauses
      /\ UNCHANGED <<given, ok, assumed, answer, model>>
  BY DEF AssertFails, UnchangedInAttempt, database
<1>2. Neg(Lit) \in UsedLits /\ Len(lim) = 1
  BY DeniedLit
<1> DEFINE t == TrailUpTo(0)
<1>3. /\ Prefix(t, trail') /\ Len(trail') = Len(t) + 1
      /\ trail'[Len(trail')] = Entry(Neg(Lit), 0, 0)
  BY DenyKeepsSound
<1>4. next \in Nat \ {0} /\ Len(t) \in Nat
  <2>1. next \in Nat /\ next <= next /\ next \in Nat \ {0} /\ 0 \in Nat
    BY StateIs
  <2> QED
    BY <2>1, BackIs
<1>5. trail' # << >>
  BY <1>3, <1>4
<1> HIDE DEF t
<1>6. /\ trail'[Len(trail')].lit = Neg(Lit) /\ LastLit = Neg(Lit)
      /\ trail'[Len(trail')].level = 0
  BY <1>3 DEF Entry, LastLit
<1>7. PICK c : c = {Neg(Lit)}
  OBVIOUS
<1>8. c = Learnt
  BY <1>1, <1>6, <1>7 DEF Learnt
<1>9. c \in A!Clauses
  <2>1. UsedLits \subseteq A!Lits
    BY DEF PlainTypes, UsedLits, A!Lits
  <2> QED
    BY <1>2, <1>7, <2>1 DEF A!Clauses
<1>10. A!Entails(KnownOf(clauses), A!Facts(AsTrail(trail)), c)
  <2>1. ASSUME NEW a \in A!Assignments, Allows(a, clauses, trail)
        PROVE  A!Satisfies(a, c)
    <3>1. A!Holds(a, Neg(Lit))
      BY <2>1, DeniedHolds
    <3> QED
      BY <1>7, <3>1 DEF A!Satisfies
  <2> QED
    BY <2>1, EntailedIs
<1>11. /\ \E i \in A!Guesses(AsTrail(trail)) :
            A!Extends(SubSeq(AsTrail(trail), 1, i - 1), AsTrail(trail'), {c})
       /\ AsTrail(trail') \in Seq(A!Entries)
  <2>1. /\ next' \in Nat /\ next <= next' /\ 0 \in Nat /\ 0 < Len(lim)
        /\ Prefix(TrailUpTo(0), trail') /\ Len(trail') = Len(TrailUpTo(0)) + 1
        /\ trail'[Len(trail')].level = 0
        /\ \A l \in c \ {trail'[Len(trail')].lit} : FalseIn(TrailUpTo(0), l)
    BY <1>1, <1>2, <1>3, <1>4, <1>6, <1>7 DEF t
  <2> QED
    BY <1>1, <2>1, BackUnit
<1>12. A!Learn(c)
  BY <1>1, <1>9, <1>10, <1>11, LearnIs
<1>13. A!Learn(Learnt)
  BY <1>8, <1>12 DEF A!Learn
<1> QED
  BY <1>5, <1>13

(* A literal is wanted for good: what was guessed becomes fact.            *)
LEMMA AsFact ==
  ASSUME NEW e, e.level \in Nat, e.level = 0 \/ e.why # 0
  PROVE  AsEntry(e) = [lit |-> e.lit, guess |-> FALSE]
<1>1. (e.level > 0 /\ e.why = 0) = FALSE
  OBVIOUS
<1> QED
  BY <1>1 DEF AsEntry

LEMMA FieldSet ==
  ASSUME NEW l, NEW g, NEW f
  PROVE  [[lit |-> l, guess |-> g] EXCEPT !.guess = f] = [lit |-> l, guess |-> f]
OBVIOUS

LEMMA GuessDropped ==
  ASSUME NEW e \in A!Entries
  PROVE  [e EXCEPT !.guess = FALSE] = [lit |-> e.lit, guess |-> FALSE]
<1>1. PICK l, g : e = [lit |-> l, guess |-> g]
  BY DEF A!Entries
<1>2. e.lit = l
  BY <1>1
<1>3. [[lit |-> l, guess |-> g] EXCEPT !.guess = FALSE] = [lit |-> l, guess |-> FALSE]
  BY FieldSet
<1> QED
  BY <1>1, <1>2, <1>3

LEMMA AreAdopted ==
  ASSUME PlainTypes, CallsTyped, TrailInv, CallInv, LevelsBegin, AssertSucceeds
  PROVE  A!Adopt
<1> DEFINE i == lim[1] + 1
           u == AsTrail(trail)
<1>1. /\ Len(lim) = 1 /\ i \in DOMAIN trail /\ trail[i].lit = Lit
      /\ SameClauses /\ given' = given \cup {{Lit}} /\ answer' = "none"
      /\ UNCHANGED <<ok, assumed, model>>
  BY DEF AssertSucceeds, During, CallInv, UnchangedInAttempt, database, SameClauses
<1>2. /\ used \in SUBSET Vars /\ next \in Nat /\ trail \in Seq(EntryTypes(used, next))
      /\ DOMAIN trail = 1 .. Len(trail) /\ Len(trail) \in Nat /\ lim \in Seq(Nat)
      /\ GuessFirst(trail, lim)
      /\ \A j \in DOMAIN trail : trail[j].level \in 0 .. 1 /\ trail[j].level \in Nat
  BY <1>1, StateIs
<1>3. IsGuess(i)
  <2>1. lim \in Seq(Nat) /\ Len(lim) = 1
    BY <1>1, <1>2
  <2>4. DOMAIN lim = 1 .. Len(lim)
    BY ONLY <2>1
  <2>3. 1 \in DOMAIN lim /\ lim[1] \in Nat
    <3>1. 1 \in DOMAIN lim
      BY ONLY <2>1, <2>4
    <3>2. \A k \in DOMAIN lim : lim[k] \in Nat
      BY ONLY <2>1
    <3> QED
      BY ONLY <3>1, <3>2
  <2>2. lim[1] < Len(trail)
    BY <1>1, <1>2, <2>3
  <2> QED
    BY <2>2, <2>3 DEF LevelsBegin, Begins, IsGuess
<1>4. \A j \in DOMAIN trail : IsGuess(j) => j = i
  <2> SUFFICES ASSUME NEW j \in DOMAIN trail, IsGuess(j) PROVE j = i
    OBVIOUS
  <2>1. trail[j].level = 1
    BY <1>2 DEF IsGuess
  <2> QED
    BY <1>2, <2>1 DEF GuessFirst, IsGuess
<1>5. IsMapped(trail)
  BY <1>2, AsTrailIs
<1>6. /\ u \in [1 .. Len(trail) -> A!Entries]
      /\ \A j \in DOMAIN trail : u[j] = AsEntry(trail[j]) /\ u[j].lit = trail[j].lit
  <2>1. u \in Seq(A!Entries) /\ Len(u) = Len(trail) /\ Len(trail) \in Nat
    BY <1>5 DEF IsMapped
  <2>2. \A j \in DOMAIN trail : u[j] = AsEntry(trail[j]) /\ u[j].lit = trail[j].lit
    BY <1>5 DEF IsMapped
  <2> HIDE DEF u
  <2> QED
    BY <2>1, <2>2
<1> HIDE DEF u
<1>7. A!Guesses(u) = {i}
  <2>1. \A j \in A!Guesses(u) : j \in DOMAIN trail /\ IsGuess(j)
    BY TrueMapped DEF u
  <2>2. i \in A!Guesses(u)
    BY <1>1, <1>3, TrueMapped DEF u
  <2> HIDE DEF i
  <2> QED
    BY <1>4, <2>1, <2>2
<1> HIDE DEF i
<1>8. given' = given \cup {{u[i].lit}}
  BY <1>1, <1>6
<1>9. /\ DOMAIN trail' = DOMAIN trail
      /\ \A j \in DOMAIN trail : /\ trail'[j].lit = trail[j].lit /\ trail'[j].level = 0
  <2>1. trail' = [j \in DOMAIN trail |-> [trail[j] EXCEPT !.level = 0]]
    BY DEF AssertSucceeds
  <2>2. \A j \in DOMAIN trail : trail[j] \in EntryTypes(used, next)
    BY <1>2
  <2> QED
    BY <2>1, <2>2 DEF EntryTypes
<1> DEFINE x == [lit |-> Lit, guess |-> FALSE]
<1>10. \A j \in DOMAIN trail : AsEntry(trail'[j]) = IF j = i THEN x ELSE u[j]
  <2> SUFFICES ASSUME NEW j \in DOMAIN trail
               PROVE  AsEntry(trail'[j]) = IF j = i THEN x ELSE u[j]
    OBVIOUS
  <2>1. trail'[j].level \in Nat /\ trail'[j].level = 0 /\ trail'[j].lit = trail[j].lit
    BY <1>9
  <2>2. AsEntry(trail'[j]) = [lit |-> trail[j].lit, guess |-> FALSE]
    BY <2>1, AsFact
  <2>3. CASE j = i
    BY <1>1, <2>2, <2>3
  <2>4. CASE j # i
    <3>1. trail[j].level \in Nat /\ (trail[j].level = 0 \/ trail[j].why # 0)
      <4>1. ~ IsGuess(j)
        BY <1>4, <2>4
      <4> QED
        BY <1>2, <4>1 DEF IsGuess
    <3>2. AsEntry(trail[j]) = [lit |-> trail[j].lit, guess |-> FALSE]
      BY <3>1, AsFact
    <3> QED
      BY <1>6, <2>2, <2>4, <3>2
  <2> QED
    BY <2>3, <2>4
<1>11. [u[i] EXCEPT !.guess = FALSE] = x
  <2>1. u[i] \in A!Entries /\ u[i].lit = Lit
    BY <1>1, <1>2, <1>6
  <2> QED
    BY <2>1, GuessDropped
<1> HIDE DEF x
<1>12. [u EXCEPT ![i].guess = FALSE] = [u EXCEPT ![i] = x]
  BY <1>11
<1>13. AsTrail(trail') = [j \in DOMAIN trail |-> IF j = i THEN x ELSE u[j]]
  BY <1>9, <1>10 DEF AsTrail
<1>14. [u EXCEPT ![i] = x] = [j \in DOMAIN trail |-> IF j = i THEN x ELSE u[j]]
  BY <1>2, <1>6
<1>15. AsTrail(trail') = [u EXCEPT ![i].guess = FALSE]
  BY <1>12, <1>13, <1>14
<1> QED
  BY <1>1, <1>7, <1>8, <1>15, AdoptIs DEF u

(* Clauses that the rest and the facts make needless go.                   *)
LEMMA AreForgotten ==
  ASSUME PlainTypes, TrailInv, NEW S, clauses' = [i \in DOMAIN clauses \ S |-> clauses[i]],
         ClausesOf(clauses', used, next),
         \A id \in S \cap DOMAIN clauses : \A s \in Meaning(clauses[id]) :
           \A a \in A!Assignments : Allows(a, clauses', trail) => A!Satisfies(a, s),
         trail' = trail, UNCHANGED <<given, ok, assumed, answer, model>>
  PROVE  A!Forget
<1>1. /\ used \in SUBSET Vars /\ next \in Nat /\ trail \in Seq(EntryTypes(used, next))
      /\ Levelled(trail, lim) /\ lim \in Seq(Int)
  BY StateIs
<1>2. /\ DOMAIN clauses' = DOMAIN clauses \ S
      /\ \A i \in DOMAIN clauses' : clauses'[i] = clauses[i]
  OBVIOUS
<1>3. KnownOf(clauses') \subseteq KnownOf(clauses)
  BY <1>2 DEF KnownOf
<1>4. ASSUME NEW s \in KnownOf(clauses) \ KnownOf(clauses'),
             NEW a \in A!Assignments,
             \A l \in A!Facts(AsTrail(trail)) : A!Holds(a, l),
             \A k \in KnownOf(clauses') : A!Satisfies(a, k)
      PROVE  A!Satisfies(a, s)
  <2>1. PICK id \in DOMAIN clauses : s \in Meaning(clauses[id])
    BY <1>4 DEF KnownOf
  <2>2. id \in S
    <3>1. id \notin DOMAIN clauses'
      BY <1>2, <1>4, <2>1 DEF KnownOf
    <3> QED
      BY <1>2, <3>1
  <2>3. FactsIn(a, trail)
    BY <1>1, <1>4, FactsMapped
  <2>4. Obeyed(a, clauses')
    BY <1>1, <1>4, KnownTyped
  <2>5. Allows(a, clauses', trail)
    BY <2>3, <2>4 DEF Allows
  <2> QED
    BY <2>1, <2>2, <2>5
<1>5. \A s \in KnownOf(clauses) \ KnownOf(clauses') :
        A!Entails(KnownOf(clauses'), A!Facts(AsTrail(trail)), s)
  BY <1>4 DEF A!Entails
<1> QED
  BY <1>3, <1>5, ForgetIs

LEMMA TidyForgets ==
  ASSUME PlainTypes, TrailInv, ListsInv, ListsInv', GuardInv, SearchesOk, slips = {},
         used' = used, Tidy
  PROVE  A!Forget
<1>1. /\ Quiet /\ Len(lim) = 0 /\ trail' = trail /\ SimplifyAndCompact
      /\ UNCHANGED <<given, ok, assumed, answer, model>>
      /\ call.op \in {"tidy", "solve"}
  BY DEF Tidy, CurrentLevel, UnchangedInside, UnchangedInSearch, assignment, During,
         Searching
<1>2. Fine
  BY <1>1 DEF SearchesOk, Fine, Quiet
<1>3. used \in SUBSET Vars /\ ClausesOf(clauses, used, next)
  BY StateIs DEF ListsInv
<1>4. next' = next
  BY <1>1 DEF SimplifyAndCompact, Compact, database
<1>5. ClausesOf(clauses', used, next)
  BY <1>4 DEF ListsInv
<1> DEFINE S == DOMAIN clauses \ Staying
<1>6. CASE Compact
  <2>1. clauses' = [i \in DOMAIN clauses \ S |-> clauses[i]]
    <3>1. DOMAIN clauses \ S = Staying
      BY DEF Staying
    <3> QED
      BY <1>6, <3>1 DEF Compact
  <2>2. ASSUME NEW id \in S \cap DOMAIN clauses, NEW s \in Meaning(clauses[id]),
               NEW a \in A!Assignments, Allows(a, clauses', trail)
        PROVE  A!Satisfies(a, s)
    <3>1. Satisfied(clauses[id])
      BY <2>2 DEF Staying
    <3>2. FactsIn(a, trail)
      BY <2>2 DEF Allows
    <3>3. Obeys(a, clauses[id])
      BY <1>1, <1>2, <2>2, <3>1, <3>2, SatisfiedObeys
    <3>4. Clean(clauses[id], used)
      BY <1>3, <2>2 DEF ClausesOf
    <3> QED
      BY <1>3, <2>2, <3>3, <3>4, MeaningObeys
  <2> HIDE DEF S
  <2> QED
    BY <1>1, <1>5, <2>1, <2>2, AreForgotten
<1>7. CASE UNCHANGED database
  <2>1. KnownOf(clauses') = KnownOf(clauses)
    BY <1>7 DEF database
  <2> QED
    BY <1>1, <2>1, ForgetIs
<1> QED
  BY <1>1, <1>6, <1>7 DEF SimplifyAndCompact

LEMMA ReduceForgets ==
  ASSUME PlainTypes, TrailInv, ListsInv, ListsInv', CallInv, KeepsAll, Follows,
         SearchesOk, slips = {}, used' = used, Reduce
  PROVE  A!Forget
<1>1. /\ trail' = trail /\ UNCHANGED <<given, ok, assumed, answer, model>>
      /\ call.op \in {"tidy", "solve"} /\ pc # "refused"
  BY DEF Reduce, UnchangedInside, UnchangedInSearch, assignment, CallInv, Branching,
         Deciding, Searching, During, Quiet
<1>2. Fine
  BY <1>1 DEF SearchesOk, Fine
<1>3. used \in SUBSET Vars /\ ClausesOf(clauses, used, next)
  BY StateIs DEF ListsInv
<1>4. PICK S \in SUBSET Removable : Removed(S)
  BY DEF Reduce, ReduceDB
<1>5. /\ clauses' = [i \in DOMAIN clauses \ S |-> clauses[i]] /\ next' = next
      /\ \A i \in S : clauses[i].kind = "learnt"
  BY <1>4 DEF Removed, Removable, Learnts
<1>6. ClausesOf(clauses', used, next)
  BY <1>5 DEF ListsInv
<1>7. ASSUME NEW id \in S \cap DOMAIN clauses, NEW s \in Meaning(clauses[id]),
             NEW a \in A!Assignments, Allows(a, clauses', trail)
      PROVE  A!Satisfies(a, s)
  <2>1. Obeyed(a, clauses') /\ FactsIn(a, trail)
    BY <1>7 DEF Allows
  <2>2. \A i \in DOMAIN clauses : clauses[i].kind # "learnt" => Obeys(a, clauses[i])
    BY <1>5, <2>1 DEF Obeyed
  <2>3. a \in A!Models(given)
    BY <1>2, <2>1, <2>2 DEF Admits, KeepsAll
  <2>4. Allows(a, clauses, trail)
    BY <2>3 DEF Follows
  <2>5. Obeys(a, clauses[id]) /\ Clean(clauses[id], used)
    BY <1>3, <1>7, <2>4 DEF Allows, Obeyed, ClausesOf
  <2> QED
    BY <1>3, <1>7, <2>5, MeaningObeys
<1> QED
  BY <1>1, <1>5, <1>6, <1>7, AreForgotten

(* A clause is given: what is kept says what it said before, and the       *)
(* clause; when that cannot be the solver may find it out.                 *)
LEMMA SaysTyped ==
  ASSUME PlainTypes, CallsTyped, AddsSome
  PROVE  /\ Says(Head(calls)) \subseteq A!Clauses /\ given' = given \cup Says(Head(calls))
         /\ calls # << >> /\ answer' = "none" /\ UNCHANGED <<assumed, model>>
<1>1. /\ Args \in Seq(UsedLits) /\ given' = given \cup Says(Head(calls))
      /\ calls # << >> /\ answer' = "none" /\ UNCHANGED <<assumed, model>>
  BY CallIs DEF AddsSome, AddAClause, AddASingle, AddAPair, Adds, NextCall
<1>2. UsedLits \subseteq A!Lits
  BY DEF PlainTypes, UsedLits, A!Lits
<1> DEFINE c == Head(calls)
           q == c.lits
<1>3. q \in Seq(UsedLits)
  BY <1>1 DEF Args
<1>4. Says(c) = IF c.op = "single" THEN Pairs(q) ELSE {Range(q)}
  BY DEF Says
<1> HIDE DEF q
<1>5. \A k \in DOMAIN q : q[k] \in A!Lits
  BY <1>2, <1>3
<1>6. Range(q) \in A!Clauses
  BY <1>5 DEF Range, A!Clauses
<1>7. Pairs(q) \subseteq A!Clauses
  BY <1>5 DEF Pairs, A!Clauses
<1>8. Says(c) \subseteq A!Clauses
  BY <1>4, <1>6, <1>7
<1> QED
  BY <1>1, <1>8

(* Before and after, the same assignments are left.                        *)
LEMMA GivesSame ==
  ASSUME PlainTypes, CallsTyped, TrailInv, ListsInv, QueueInv, Next, AddsSome,
         KeepsAll, Follows', Fine, slips' = {}, NEW C0, given' = given \cup C0,
         NEW a \in A!Assignments
  PROVE  /\ Allows(a, clauses, trail) /\ (\A c \in C0 : A!Satisfies(a, c)) =>
              ok' /\ Allows(a, clauses', trail')
         /\ ok' /\ Allows(a, clauses', trail') =>
              Allows(a, clauses, trail) /\ \A c \in C0 : A!Satisfies(a, c)
<1>1. ASSUME Allows(a, clauses, trail), \A c \in C0 : A!Satisfies(a, c)
      PROVE  ok' /\ Allows(a, clauses', trail')
  <2>1. Admits(a, clauses, trail)
    BY <1>1 DEF Allows, Obeyed, Admits
  <2>2. a \in A!Models(given)
    BY <2>1 DEF KeepsAll
  <2>3. \A c \in C0 : \E l \in c : A!Holds(a, l)
    BY <1>1 DEF A!Satisfies
  <2>4. a \in A!Models(given \cup C0)
    BY <2>2, <2>3, GivenWith
  <2> QED
    BY <2>4 DEF Follows
<1>2. ASSUME ok', Allows(a, clauses', trail')
      PROVE  Allows(a, clauses, trail) /\ \A c \in C0 : A!Satisfies(a, c)
  <2>1. Admits(a, clauses', trail')
    BY <1>2 DEF Allows, Obeyed, Admits
  <2>2. Admits(a, clauses, trail)
    BY <2>1, AddsGrow
  <2>3. a \in A!Models(given)
    BY <2>2 DEF KeepsAll
  <2>4. Obeyed(a, clauses)
    <3>1. Addition
      BY ClauseAdds, SingleAdds, PairAdds DEF AddsSome, Adding
    <3>2. /\ DOMAIN clauses \subseteq DOMAIN clauses'
          /\ \A i \in DOMAIN clauses : clauses'[i] = clauses[i]
      BY <3>1, AdditionExtends
    <3>3. Obeyed(a, clauses')
      BY <1>2 DEF Allows
    <3> QED
      BY <3>2, <3>3 DEF Obeyed
  <2>5. Allows(a, clauses, trail)
    BY <2>2, <2>4 DEF Admits, Allows
  <2>6. a \in A!Models(given')
    BY <1>2, <2>1, <2>3, <2>4, CallSays
  <2>7. \A c \in C0 : \E l \in c : A!Holds(a, l)
    <3>1. a \in A!Models(given \cup C0)
      BY <2>6
    <3> QED
      BY <3>1, MoreGiven
  <2> QED
    BY <2>5, <2>7 DEF A!Satisfies
<1> QED
  BY <1>1, <1>2

LEMMA AreGives ==
  ASSUME PlainTypes, CallsTyped, TrailInv, ListsInv, QueueInv, Next, AddsSome,
         KeepsAll, Follows', TrailInv', ListsInv', used' = used, slips = {}, slips' = {}
  PROVE  calls # << >> /\ A!Give(Says(Head(calls)))
<1>1. /\ Says(Head(calls)) \subseteq A!Clauses /\ given' = given \cup Says(Head(calls))
      /\ calls # << >> /\ answer' = "none" /\ UNCHANGED <<assumed, model>>
  BY SaysTyped
<1>2. PICK C0 : C0 = Says(Head(calls))
  OBVIOUS
<1>3. C0 \in SUBSET A!Clauses /\ given' = given \cup C0
  BY <1>1, <1>2
<1>4. Len(lim) = 0 /\ \E q : Gains(q, 0)
  BY AddsGain DEF AddsSome
<1>5. /\ used \in SUBSET Vars /\ next \in Nat /\ trail \in Seq(EntryTypes(used, next))
      /\ Levelled(trail, lim) /\ lim \in Seq(Int) /\ ClausesOf(clauses, used, next)
  BY StateIs DEF ListsInv
<1>6. next' \in Nat /\ next <= next' /\ ok' \in BOOLEAN /\ ok \in BOOLEAN /\ (ok' => ok)
  <2>1. ok' \in BOOLEAN /\ (ok' => ok)
    BY ClauseAdds, SingleAdds, PairAdds DEF AddsSome, Adding
  <2> QED
    BY <2>1, NextGrows DEF PlainTypes
<1>7. PICK q : Gains(q, 0)
  BY <1>4
<1>8. /\ Prefix(trail, trail') /\ HasPut(trail', trail, q, 0, Len(lim)) /\ lim' = lim
      /\ DOMAIN trail' = 1 .. Len(trail')
  BY <1>6, <1>7, GainKeepsSound DEF Gains
<1>9. \A i \in DOMAIN trail' \ DOMAIN trail : trail'[i].level = 0
  BY <1>4, <1>8 DEF HasPut
<1>10. /\ trail' \in Seq(EntryTypes(used, next')) /\ Levelled(trail', lim)
       /\ ClausesOf(clauses', used, next')
  BY <1>8 DEF TrailInv, Sound, ListsInv
<1>11. A!Continues(AsTrail(trail), AsTrail(trail'))
  BY <1>5, <1>6, <1>8, <1>9, <1>10, ContinuesMapped
<1>12. AsTrail(trail') \in Seq(A!Entries)
  <2>1. IsMapped(trail')
    BY <1>5, <1>6, <1>10, AsTrailIs
  <2> QED
    BY <2>1 DEF IsMapped
<1>13. A!Guesses(AsTrail(trail)) = {}
  BY <1>4, TrueMapped
<1>14. KnownOf(clauses') \subseteq A!Clauses
  BY <1>5, <1>10, KnownTyped
<1> DEFINE before == A!ModelsIn(KnownOf(clauses) \cup C0, A!Facts(AsTrail(trail)))
           after == A!ModelsIn(KnownOf(clauses'), A!Facts(AsTrail(trail')))
<1>15. \A a : a \in before <=>
          /\ a \in A!ModelsIn(KnownOf(clauses), A!Facts(AsTrail(trail)))
          /\ \A c \in C0 : A!Satisfies(a, c)
  BY DEF A!ModelsIn, A!Models
<1>16. \A a : a \in before <=> /\ a \in A!Assignments /\ Allows(a, clauses, trail)
                               /\ \A c \in C0 : A!Satisfies(a, c)
  <2>1. \A a : a \in A!ModelsIn(KnownOf(clauses), A!Facts(AsTrail(trail))) <=>
                 a \in A!Assignments /\ Allows(a, clauses, trail)
    BY <1>4, <1>5, ModelsMapped
  <2> HIDE DEF before
  <2> QED
    BY <1>15, <2>1
<1>17. \A a : a \in after <=> a \in A!Assignments /\ Allows(a, clauses', trail')
  BY <1>4, <1>5, <1>6, <1>10, ModelsMapped
<1> HIDE DEF before, after
<1>18. \/ ok' = ok /\ after = before
       \/ ~ ok' /\ (~ ok \/ before = {})
  <2>1. CASE ~ ok
    BY <1>6, <2>1
  <2>2. CASE ok
    <3>1. Fine
      BY <2>2 DEF Fine
    <3>2. \A a \in A!Assignments :
            /\ Allows(a, clauses, trail) /\ (\A c \in C0 : A!Satisfies(a, c)) =>
                 ok' /\ Allows(a, clauses', trail')
            /\ ok' /\ Allows(a, clauses', trail') =>
                 Allows(a, clauses, trail) /\ \A c \in C0 : A!Satisfies(a, c)
      BY <1>3, <3>1, GivesSame
    <3>3. CASE ok'
      <4>1. \A a : a \in after <=> a \in before
        BY <1>16, <1>17, <3>2, <3>3
      <4>2. after = before
        <5>1. after \subseteq A!Assignments /\ before \subseteq A!Assignments
          BY <1>16, <1>17
        <5> QED
          BY <4>1, <5>1
      <4>3. ok' = ok
        BY <1>6, <2>2, <3>3
      <4> QED
        BY <4>2, <4>3
    <3>4. CASE ~ ok'
      BY <1>16, <3>2, <3>4
    <3> QED
      BY <3>3, <3>4
  <2> QED
    BY <2>1, <2>2
<1>19. A!Give(C0)
  BY <1>1, <1>3, <1>11, <1>12, <1>13, <1>14, <1>18, GiveIs DEF before, after
<1>20. A!Give(Says(Head(calls)))
  BY <1>2, <1>19 DEF A!Give
<1> QED
  BY <1>1, <1>20

(* The invariant with what a conflict is to someone who sees only the      *)
(* trail and the clauses: there is a guess to take back, or a clause that  *)
(* is false.                                                               *)
RInv == SInv /\ LevelsBegin /\ ConflictFalse

LEMMA InitRInv ==
  ASSUME Init
  PROVE  RInv
<1>1. lim = << >> /\ pc = "call"
  BY DEF Init
<1>2. LevelsBegin /\ ConflictFalse
  BY <1>1 DEF LevelsBegin, Begins, ConflictFalse
<1> QED
  BY <1>2, InitSInv DEF RInv

LEMMA NextRInv ==
  ASSUME RInv, [Next]_vars
  PROVE  RInv'
<1>1. SInv'
  BY NextSInv DEF RInv
<1>2. CASE Next
  <2> USE <1>2 DEF RInv, SInv, KInv, CInv, MInv, IInv
  <2>1. LevelsBegin'
    BY LevelsStep
  <2>2. used' = used
    BY FlatStep
  <2>3. ListsInv'
    BY <1>1
  <2>4. ConflictFalse'
    BY <2>2, <2>3, ConflictStep
  <2> QED
    BY <1>1, <2>1, <2>4
<1>3. CASE UNCHANGED vars
  <2>1. UNCHANGED <<clauses, trail, lim, pc>>
    BY <1>3 DEF vars, database, assignment
  <2>2. LevelsBegin' /\ ConflictFalse'
    BY <2>1 DEF RInv, LevelsBegin, Begins, ConflictFalse, KnownClauses, IsFalse, IsTrue
  <2> QED
    BY <1>1, <2>2 DEF RInv
<1> QED
  BY <1>2, <1>3

LEMMA InitMapped ==
  ASSUME Init
  PROVE  A!Init
<1>1. /\ trail = << >> /\ clauses = << >> /\ ok = TRUE /\ given = {} /\ assumed = {}
      /\ answer = "none" /\ model = [v \in Vars |-> FALSE]
  BY DEF Init
<1>2. KnownClauses = {}
  BY <1>1 DEF KnownClauses
<1>3. [i \in DOMAIN trail |-> [lit |-> trail[i].lit, guess |-> IsGuess(i)]] = << >>
  BY <1>1
<1>4. (~ ok) = FALSE
  BY <1>1
<1>5. model \in A!Assignments
  BY <1>1 DEF A!Assignments
<1> QED
  BY <1>1, <1>2, <1>3, <1>4, <1>5 DEF A!Init

(* A step in which nothing slips is a step of SatSearch, or not one.       *)
LEMMA StepMapped ==
  ASSUME RInv, RInv', Next, slips' = {}
  PROVE  AbstractStep \/ UNCHANGED A!vars
<1>1. /\ PlainTypes /\ CallsTyped /\ TrailInv /\ ListsInv /\ ReasonsInv /\ CallInv
      /\ WorkInv /\ WorkMeans /\ Clash /\ Follows /\ NoLevel /\ SolveInv
      /\ QueueInv /\ GuardInv /\ KeepsAll /\ SearchesOk /\ AssumedTrue
      /\ LevelsBegin /\ ConflictFalse
  BY DEF RInv, SInv, KInv, CInv, MInv, IInv
<1>2. PlainTypes' /\ TrailInv' /\ ListsInv' /\ Follows'
  BY DEF RInv, SInv, KInv, CInv, MInv, IInv
<1>3. used' = used /\ slips = {}
  BY <1>1, FlatStep, GivenGrows
<1>4. CASE StutterSteps
  BY <1>1, <1>2, <1>3, <1>4, AreStutters
<1>5. CASE AddsSome
  BY <1>1, <1>2, <1>3, <1>5, AreGives DEF AbstractStep
<1>6. CASE VisitForces \/ VisitSettles \/ VisitRefutes
  BY <1>1, <1>2, <1>3, <1>6, AreImplied DEF AbstractStep
<1>7. CASE AllGuesses
  BY <1>1, <1>7, AreGuesses DEF AbstractStep
<1>8. CASE Learns
  BY <1>1, <1>2, <1>3, <1>8, AreLearns DEF AbstractStep
<1>9. CASE AssertFails
  BY <1>1, <1>2, <1>3, <1>9, AreDenied DEF AbstractStep
<1>10. CASE Reset \/ PopCheck \/ CheckFails \/ Restart
  BY <1>1, <1>10, AreTakeBacks DEF AbstractStep
<1>11. CASE Tidy
  BY <1>1, <1>2, <1>3, <1>11, TidyForgets DEF AbstractStep
<1>12. CASE Reduce
  BY <1>1, <1>2, <1>3, <1>12, ReduceForgets DEF AbstractStep
<1>13. CASE AssertSucceeds
  BY <1>1, <1>13, AreAdopted DEF AbstractStep
<1>14. CASE AddRefutes \/ AttemptRefutes
  BY <1>1, <1>14, AreRefuted DEF AbstractStep
<1>15. CASE Solve
  BY <1>1, <1>15, AreSolves DEF AbstractStep
<1>16. CASE ModelFound
  BY <1>1, <1>3, <1>16, AreSats DEF AbstractStep
<1>17. CASE Refused \/ SearchRefutes \/ AssumeFalse
  BY <1>1, <1>17, AreUnsats DEF AbstractStep
<1>18. CASE RestartsTooLate \/ AssumesTooLate \/ FoundTooLate
  BY <1>1, <1>18, AreUndefs DEF AbstractStep
<1>19. CASE RefutesTooLate
  <2>1. "givenUp" \in slips'
    BY <1>19 DEF RefutesTooLate, Bail
  <2> QED
    BY <2>1
<1> QED
  BY <1>4, <1>5, <1>6, <1>7, <1>8, <1>9, <1>10, <1>11, <1>12, <1>13, <1>14, <1>15,
     <1>16, <1>17, <1>18, <1>19, KindsOfSteps
     DEF AllStays, AllBacks, Visits, StutterSteps

(* MSsolverNS::Solver implements SatSearch: whatever is called, and however *)
(* the search goes, a step is one that SatSearch allows, or changes nothing *)
(* that it sees, until a slip.                                             *)
THEOREM SolverImplements == Spec => Implements
<1>1. Init => RInv
  BY InitRInv
<1>2. RInv /\ [Next]_vars => RInv'
  BY NextRInv
<1>3. Init => A!Init
  BY InitMapped
<1>4. RInv /\ RInv' /\ [Next]_vars => [slips' = {} => AbstractStep]_(A!vars)
  <2> SUFFICES ASSUME RInv, RInv', [Next]_vars
               PROVE  [slips' = {} => AbstractStep]_(A!vars)
    OBVIOUS
  <2>1. CASE Next
    BY <2>1, StepMapped
  <2>2. CASE UNCHANGED vars
    <3>1. /\ trail' = trail /\ clauses' = clauses
          /\ UNCHANGED <<given, ok, assumed, answer, model>>
      BY <2>2 DEF vars, database, assignment, outcome
    <3>2. SameClauses
      BY <3>1 DEF SameClauses
    <3>3. UNCHANGED A!vars
      BY <3>1, <3>2, StutterIs
    <3> QED
      BY <3>3
  <2> QED
    BY <2>1, <2>2
<1> QED
  BY <1>1, <1>2, <1>3, <1>4, PTL DEF Spec, Implements

===============================================================================
