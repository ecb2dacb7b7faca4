--------------------------- MODULE SatSearchProofs ---------------------------
(***************************************************************************)
(* Proofs about SatSearch, for any set of variables: the solver's answers  *)
(* are right, whatever it guesses, learns and forgets.                     *)
(***************************************************************************)
EXTENDS SatSearch, WellFoundedInduction, TLAPS

(* A non-empty set of numbers has a least element: the form in which the   *)
(* proofs below use induction.                                             *)
LEMMA NatOrder == IsWellFoundedOn({p \in Nat \X Nat : p[1] < p[2]}, Nat)
  BY NatLessThanWellFounded DEF OpToRel

LEMMA Least ==
  ASSUME NEW T \in SUBSET Nat, T # {}
  PROVE  \E x \in T : \A y \in T : x <= y
<1>1. PICK x \in T :
        \A y \in T : <<y, x>> \notin {p \in Nat \X Nat : p[1] < p[2]}
  BY NatOrder, WFMin
<1>2. ASSUME NEW y \in T PROVE ~ (y < x)
  <2>1. <<y, x>> \in Nat \X Nat
    OBVIOUS
  <2>2. QED
    BY <2>1, <1>1
<1>3. QED
  BY <1>2

---------------------------------------------------------------------------
(* About trails. *)

LEMMA NegType ==
  ASSUME NEW l \in Lits
  PROVE  /\ Neg(l) \in Lits
         /\ \A a \in Assignments : Holds(a, Neg(l)) <=> ~ Holds(a, l)
BY DEF Lits, Neg, Holds, Assignments

LEMMA NegNeg ==
  ASSUME NEW l \in Lits
  PROVE  Neg(Neg(l)) = l
<1>1. PICK v \in Vars, b \in BOOLEAN : l = <<v, b>>
  BY DEF Lits
<1>2. Neg(l) = <<v, ~ b>> /\ Neg(Neg(l)) = <<v, ~ ~ b>>
  BY <1>1 DEF Neg
<1>3. CASE b = TRUE
  BY <1>1, <1>2, <1>3
<1>4. CASE b = FALSE
  BY <1>1, <1>2, <1>4
<1>5. QED
  BY <1>3, <1>4

LEMMA TrailType ==
  ASSUME NEW t \in Seq(Entries)
  PROVE  /\ Len(t) \in Nat /\ DOMAIN t = 1 .. Len(t)
         /\ \A i \in DOMAIN t : /\ t[i] \in Entries
                                /\ t[i].lit \in Lits
                                /\ t[i].guess \in BOOLEAN
<1>1. Len(t) \in Nat /\ DOMAIN t = 1 .. Len(t)
  OBVIOUS
<1>2. \A i \in DOMAIN t : t[i] \in Entries
  OBVIOUS
<1>3. \A e \in Entries : e.lit \in Lits /\ e.guess \in BOOLEAN
  BY DEF Entries
<1>4. QED
  BY <1>1, <1>2, <1>3

(* Who agrees with the guesses agrees with the trail. *)
LEMMA GuessesDecide ==
  ASSUME NEW t \in Seq(Entries), NEW a \in Assignments, Respects(a, t),
         NEW n \in Nat, n <= Len(t),
         \A i \in 1 .. n : t[i].guess => Holds(a, t[i].lit)
  PROVE  \A i \in 1 .. n : Holds(a, t[i].lit)
<1>1. SUFFICES ASSUME NEW i \in 1 .. n PROVE Holds(a, t[i].lit)
  OBVIOUS
<1>2. i \in DOMAIN t /\ 1 .. i - 1 \subseteq 1 .. n
  BY TrailType
<1>3. CASE t[i].guess
  BY <1>3
<1>4. CASE ~ t[i].guess
  BY <1>2, <1>4 DEF Respects
<1>5. QED
  BY <1>3, <1>4

LEMMA FactsHold ==
  ASSUME NEW t \in Seq(Entries), NEW a \in Assignments, Respects(a, t)
  PROVE  \A l \in Facts(t) : Holds(a, l)
<1>1. SUFFICES ASSUME NEW i \in DOMAIN t,
                      \A k \in 1 .. i : ~ t[k].guess
               PROVE  Holds(a, t[i].lit)
  BY DEF Facts
<1>2. i \in 1 .. i /\ 1 .. i - 1 \subseteq 1 .. i
  BY TrailType
<1>3. QED
  BY <1>1, <1>2 DEF Respects

(* Without guesses the whole trail is fact. *)
LEMMA NoGuess ==
  ASSUME NEW t \in Seq(Entries), Guesses(t) = {}
  PROVE  Facts(t) = True(t)
<1>1. \A i \in DOMAIN t : ~ t[i].guess
  BY DEF Guesses
<1>2. \A i \in DOMAIN t : \A k \in 1 .. i : k \in DOMAIN t
  BY TrailType
<1>3. QED
  BY <1>1, <1>2 DEF Facts, True

(* One more literal that a clause of K gives: the least of the new entries *)
(* that a disagrees with would have a clause that a makes false.           *)
LEMMA ExtendsRespects ==
  ASSUME NEW t \in Seq(Entries), NEW u \in Seq(Entries), NEW K,
         K \subseteq Clauses, Extends(t, u, K),
         NEW a \in Assignments, Respects(a, t),
         \A c \in K : Satisfies(a, c)
  PROVE  Respects(a, u)
<1> DEFINE Wrong(i) == /\ ~ u[i].guess
                       /\ \A j \in 1 .. i - 1 :
                            u[j].guess => Holds(a, u[j].lit)
                       /\ ~ Holds(a, u[i].lit)
           W == {i \in DOMAIN u : Wrong(i)}
<1>1. SUFFICES ASSUME W # {} PROVE FALSE
  BY DEF Respects
<1>2. W \in SUBSET Nat
  BY TrailType
<1>3. PICK i \in W : \A y \in W : i <= y
  BY <1>1, <1>2, Least
<1>4. i \in Nat /\ i \in 1 .. Len(u) /\ Wrong(i)
  BY <1>3, TrailType
<1>5. \A j \in 1 .. i - 1 : Holds(a, u[j].lit)
  <2>1. SUFFICES ASSUME NEW j \in 1 .. i - 1, ~ Holds(a, u[j].lit)
                 PROVE  FALSE
    OBVIOUS
  <2>2. j \in DOMAIN u /\ 1 .. j - 1 \subseteq 1 .. i - 1 /\ j < i
    BY <1>4, TrailType
  <2>3. ~ u[j].guess
    BY <1>4, <2>1
  <2>4. Wrong(j)
    BY <1>4, <2>1, <2>2, <2>3
  <2>5. j \in W
    BY <2>2, <2>4
  <2>6. QED
    BY <1>3, <1>4, <2>2, <2>5
<1>6. CASE i <= Len(t)
  <2>1. Len(t) \in Nat /\ DOMAIN t = 1 .. Len(t)
    BY TrailType
  <2>2. i \in DOMAIN t /\ \A j \in 1 .. i : u[j] = t[j]
    BY <1>4, <1>6, <2>1 DEF Extends, Continues
  <2>3. i \in 1 .. i /\ 1 .. i - 1 \subseteq 1 .. i
    BY <1>4
  <2>4. u[i] = t[i] /\ \A j \in 1 .. i - 1 : u[j] = t[j]
    BY <2>2, <2>3
  <2>5. Holds(a, t[i].lit)
    BY <1>4, <2>2, <2>4 DEF Respects
  <2>6. QED
    BY <1>4, <2>4, <2>5
<1>7. CASE ~ (i <= Len(t))
  <2>1. i \in Len(t) + 1 .. Len(u)
    BY <1>4, <1>7, TrailType
  <2>2. PICK c \in K : \A l \in c \ {u[i].lit} :
                         \E j \in 1 .. i - 1 : u[j].lit = Neg(l)
    BY <2>1 DEF Extends
  <2>3. PICK l \in c : Holds(a, l)
    BY DEF Satisfies
  <2>4. l # u[i].lit
    BY <1>4, <2>3
  <2>5. PICK j \in 1 .. i - 1 : u[j].lit = Neg(l)
    BY <2>2, <2>4
  <2>6. l \in Lits
    BY DEF Clauses
  <2>7. QED
    BY <1>5, <2>3, <2>5, <2>6, NegType
<1>8. QED
  BY <1>6, <1>7

(* Taking guesses back leaves the facts and what the rest rests on. *)
LEMMA PrefixType ==
  ASSUME NEW t \in Seq(Entries), NEW i \in Guesses(t)
  PROVE  LET u == SubSeq(t, 1, i - 1) IN
         /\ u \in Seq(Entries) /\ Len(u) = i - 1 /\ i - 1 < Len(t)
         /\ i \in 1 .. Len(t)
         /\ \A k \in 1 .. i - 1 : u[k] = t[k]
<1>1. i \in 1 .. Len(t) /\ Len(t) \in Nat
  BY TrailType DEF Guesses
<1>2. QED
  BY <1>1

LEMMA PrefixRespects ==
  ASSUME NEW t \in Seq(Entries), NEW i \in Guesses(t),
         NEW a \in Assignments, Respects(a, t)
  PROVE  Respects(a, SubSeq(t, 1, i - 1))
<1> DEFINE u == SubSeq(t, 1, i - 1)
<1>1. /\ u \in Seq(Entries) /\ Len(u) = i - 1 /\ i - 1 < Len(t)
      /\ i \in 1 .. Len(t) /\ Len(t) \in Nat
      /\ \A k \in 1 .. i - 1 : u[k] = t[k]
  BY PrefixType, TrailType
<1>2. DOMAIN u = 1 .. i - 1 /\ DOMAIN t = 1 .. Len(t)
  BY <1>1, TrailType
<1> HIDE DEF u
<1>3. ASSUME NEW k \in DOMAIN u, ~ u[k].guess,
             \A j \in 1 .. k - 1 : u[j].guess => Holds(a, u[j].lit)
      PROVE  Holds(a, u[k].lit)
  <2>1. k \in DOMAIN t /\ k \in 1 .. i - 1
    BY <1>1, <1>2
  <2>2. u[k] = t[k] /\ \A j \in 1 .. k - 1 : u[j] = t[j]
    BY <1>1, <2>1
  <2>3. QED
    BY <1>3, <2>1, <2>2 DEF Respects
<1>4. Respects(a, u)
  BY <1>3 DEF Respects
<1>5. QED
  BY <1>4 DEF u

LEMMA PrefixFacts ==
  ASSUME NEW t \in Seq(Entries), NEW i \in Guesses(t)
  PROVE  Facts(t) \subseteq Facts(SubSeq(t, 1, i - 1))
<1> DEFINE u == SubSeq(t, 1, i - 1)
<1>1. /\ u \in Seq(Entries) /\ Len(u) = i - 1 /\ i - 1 < Len(t)
      /\ i \in 1 .. Len(t) /\ Len(t) \in Nat
      /\ \A k \in 1 .. i - 1 : u[k] = t[k]
  BY PrefixType, TrailType
<1>2. DOMAIN u = 1 .. i - 1 /\ DOMAIN t = 1 .. Len(t)
  BY <1>1, TrailType
<1>3. t[i].guess
  BY DEF Guesses
<1> HIDE DEF u
<1>4. ASSUME NEW j \in DOMAIN t, \A k \in 1 .. j : ~ t[k].guess
      PROVE  t[j].lit \in Facts(u)
  <2>1. j \in 1 .. i - 1
    <3>1. ~ (i <= j)
      BY <1>1, <1>2, <1>3, <1>4
    <3>2. QED
      BY <1>1, <1>2, <3>1
  <2>2. \A k \in 1 .. j : u[k] = t[k]
    BY <1>1, <2>1
  <2>3. j \in 1 .. j
    BY <2>1
  <2>4. QED
    BY <1>2, <1>4, <2>1, <2>2, <2>3 DEF Facts
<1>5. QED
  BY <1>4 DEF u, Facts

LEMMA ContinuesFacts ==
  ASSUME NEW t \in Seq(Entries), NEW u \in Seq(Entries),
         Continues(t, u)
  PROVE  Facts(t) \subseteq Facts(u)
<1>1. /\ Len(t) \in Nat /\ Len(u) \in Nat /\ Len(t) <= Len(u)
      /\ DOMAIN t = 1 .. Len(t) /\ DOMAIN u = 1 .. Len(u)
      /\ \A i \in 1 .. Len(t) : u[i] = t[i]
  BY TrailType DEF Continues
<1>2. ASSUME NEW j \in DOMAIN t, \A k \in 1 .. j : ~ t[k].guess
      PROVE  t[j].lit \in Facts(u)
  <2>1. j \in DOMAIN u /\ j \in 1 .. j /\ \A k \in 1 .. j : u[k] = t[k]
    BY <1>1
  <2>2. QED
    BY <1>2, <2>1 DEF Facts
<1>3. QED
  BY <1>2 DEF Facts

---------------------------------------------------------------------------
(* A clause all of whose literals are false on a trail that a agrees with  *)
(* is not satisfied by a.                                                  *)
LEMMA FalsifiedFails ==
  ASSUME NEW t \in Seq(Entries), NEW K, K \subseteq Clauses,
         Falsified(K, t), NEW a \in Assignments,
         \A l \in True(t) : Holds(a, l)
  PROVE  \E c \in K : ~ Satisfies(a, c)
<1>1. PICK c \in K : c \subseteq False(t)
  BY DEF Falsified
<1>2. \A l \in True(t) : l \in Lits
  BY TrailType DEF True
<1>3. \A l \in False(t) : ~ Holds(a, l)
  BY <1>2, NegType DEF False
<1>4. QED
  BY <1>1, <1>3 DEF Satisfies

LEMMA AllTrue ==
  ASSUME NEW t \in Seq(Entries), NEW a \in Assignments, Respects(a, t),
         \A i \in Guesses(t) : Holds(a, t[i].lit)
  PROVE  \A l \in True(t) : Holds(a, l)
<1>1. Len(t) \in Nat /\ DOMAIN t = 1 .. Len(t)
  BY TrailType
<1>2. \A i \in 1 .. Len(t) : Holds(a, t[i].lit)
  BY <1>1, GuessesDecide DEF Guesses
<1>3. QED
  BY <1>1, <1>2 DEF True

IInv == TypeOK /\ KnownFollows /\ NothingLost /\ AnswersRight

LEMMA InitInv == Init => IInv
<1> SUFFICES ASSUME Init PROVE IInv
  OBVIOUS
<1>1. TypeOK
  <2>1. << >> \in Seq(Entries) /\ "none" \in Answers
    BY DEF Answers
  <2>2. QED
    BY <2>1 DEF Init, TypeOK
<1>2. \A a : Respects(a, trail)
  BY DEF Init, Respects
<1>3. QED
  BY <1>1, <1>2 DEF IInv, Init, KnownFollows, NothingLost, AnswersRight,
     Models

(* A step that leaves the input alone, and after which the trail still     *)
(* follows.                                                                *)
LEMMA SameInput ==
  ASSUME IInv, input' = input, trail' \in Seq(Entries), known' \subseteq Clauses,
         refuted' \in BOOLEAN,
         \A a \in Models(input) : \A c \in known' : Satisfies(a, c),
         \A a \in Models(input) : Respects(a, trail'),
         refuted' => refuted \/ Models(input) = {},
         refuted => refuted',
         Facts(trail) \subseteq Facts(trail'),
         \A a \in Assignments :
           /\ \A c \in known' : Satisfies(a, c)
           /\ \A l \in Facts(trail') : Holds(a, l)
           => \A c \in known : Satisfies(a, c)
  PROVE  KnownFollows' /\ NothingLost'
<1>1. KnownFollows'
  BY DEF IInv, KnownFollows
<1>2. NothingLost'
  <2>1. SUFFICES ASSUME NEW a \in Assignments, ~ refuted',
                        \A c \in known' : Satisfies(a, c),
                        \A l \in Facts(trail') : Holds(a, l)
                 PROVE  a \in Models(input)
    BY DEF NothingLost
  <2>2. ~ refuted
    BY <2>1
  <2>3. \A l \in Facts(trail) : Holds(a, l)
    BY <2>1
  <2>4. \A c \in known : Satisfies(a, c)
    BY <2>1
  <2>5. QED
    BY <2>2, <2>3, <2>4 DEF IInv, NothingLost
<1>3. QED
  BY <1>1, <1>2

LEMMA ContinuesNoGuess ==
  ASSUME NEW t \in Seq(Entries), NEW u \in Seq(Entries),
         Continues(t, u), Guesses(t) = {}
  PROVE  Guesses(u) = {}
<1>1. /\ Len(t) \in Nat /\ Len(u) \in Nat
      /\ DOMAIN t = 1 .. Len(t) /\ DOMAIN u = 1 .. Len(u)
  BY TrailType
<1>2. SUFFICES ASSUME NEW i \in 1 .. Len(u) PROVE ~ u[i].guess
  BY <1>1 DEF Guesses
<1>3. CASE i \in 1 .. Len(t)
  BY <1>1, <1>3 DEF Continues, Guesses
<1>4. CASE i \in Len(t) + 1 .. Len(u)
  BY <1>4 DEF Continues
<1>5. QED
  BY <1>1, <1>3, <1>4

LEMMA GiveInv ==
  ASSUME IInv, NEW C \in SUBSET Clauses, Give(C)
  PROVE  IInv'
<1> DEFINE before == ModelsIn(known \cup C, Facts(trail))
           after == ModelsIn(known', Facts(trail'))
<1>1. /\ input \subseteq Clauses /\ input' = input \cup C
      /\ trail \in Seq(Entries) /\ trail' \in Seq(Entries)
      /\ Continues(trail, trail') /\ Guesses(trail) = {}
      /\ Guesses(trail') = {} /\ Facts(trail') = True(trail')
      /\ refuted \in BOOLEAN
      /\ \/ refuted' = refuted /\ after = before
         \/ refuted' = TRUE /\ (refuted \/ before = {})
  BY ContinuesNoGuess, NoGuess DEF IInv, TypeOK, Give
<1>2. TypeOK'
  <2>1. input' \subseteq Clauses /\ refuted' \in BOOLEAN
    BY <1>1
  <2>2. QED
    BY <1>1, <2>1 DEF IInv, Give, TypeOK, Answers
<1>3. ASSUME NEW a \in Models(input')
      PROVE  a \in before /\ ~ refuted
  <2>1. /\ a \in Models(input) /\ a \in Assignments
        /\ \A c \in C : Satisfies(a, c)
    BY <1>1 DEF Models
  <2>2. ~ refuted /\ (\A c \in known : Satisfies(a, c)) /\ Respects(a, trail)
    BY <2>1 DEF IInv, KnownFollows
  <2>3. \A l \in Facts(trail) : Holds(a, l)
    BY <1>1, <2>1, <2>2, FactsHold
  <2>4. QED
    BY <2>1, <2>2, <2>3 DEF ModelsIn, Models
<1>4. KnownFollows'
  <2>1. SUFFICES ASSUME NEW a \in Models(input')
                 PROVE  /\ ~ refuted'
                        /\ \A c \in known' : Satisfies(a, c)
                        /\ Respects(a, trail')
    BY DEF KnownFollows
  <2>2. ~ refuted' /\ a \in after
    <3>1. a \in before /\ ~ refuted
      BY <1>3
    <3> HIDE DEF before, after
    <3>2. QED
      BY <1>1, <3>1
  <2>3. /\ \A c \in known' : Satisfies(a, c)
        /\ \A l \in True(trail') : Holds(a, l)
    BY <1>1, <2>2 DEF ModelsIn, Models
  <2>4. QED
    BY <2>2, <2>3 DEF Respects, True
<1>5. NothingLost'
  <2>1. SUFFICES ASSUME NEW a \in Assignments, ~ refuted',
                        \A c \in known' : Satisfies(a, c),
                        \A l \in Facts(trail') : Holds(a, l)
                 PROVE  a \in Models(input')
    BY DEF NothingLost
  <2>2. a \in after
    BY <2>1 DEF ModelsIn, Models
  <2>3. ~ refuted /\ a \in before
    BY <1>1, <2>1, <2>2
  <2>4. /\ \A c \in known \cup C : Satisfies(a, c)
        /\ \A l \in Facts(trail) : Holds(a, l)
    BY <2>3 DEF ModelsIn, Models
  <2>5. a \in Models(input)
    BY <2>3, <2>4 DEF IInv, NothingLost
  <2>6. QED
    BY <1>1, <2>4, <2>5 DEF Models
<1>6. AnswersRight'
  BY DEF Give, AnswersRight
<1>7. QED
  BY <1>2, <1>4, <1>5, <1>6 DEF IInv

(* Nothing but the trail and the kept clauses changes. *)
LEMMA SearchStep ==
  ASSUME IInv, UNCHANGED <<input, refuted, assumed, answer, model>>,
         trail' \in Seq(Entries), known' \subseteq Clauses,
         \A a \in Models(input) : \A c \in known' : Satisfies(a, c),
         \A a \in Models(input) : Respects(a, trail'),
         Facts(trail) \subseteq Facts(trail'),
         \A a \in Assignments :
           /\ \A c \in known' : Satisfies(a, c)
           /\ \A l \in Facts(trail') : Holds(a, l)
           => \A c \in known : Satisfies(a, c)
  PROVE  IInv'
<1>1. TypeOK'
  BY DEF IInv, TypeOK
<1>2. AnswersRight'
  BY DEF IInv, AnswersRight
<1>3. refuted' \in BOOLEAN /\ input' = input /\ refuted' = refuted
  BY DEF IInv, TypeOK
<1>4. KnownFollows' /\ NothingLost'
  BY <1>3, SameInput
<1>5. QED
  BY <1>1, <1>2, <1>4 DEF IInv

LEMMA InvFacts ==
  ASSUME IInv
  PROVE  /\ trail \in Seq(Entries) /\ known \subseteq Clauses
         /\ \A a \in Models(input) :
              /\ a \in Assignments /\ ~ refuted /\ Respects(a, trail)
              /\ \A c \in known : Satisfies(a, c)
              /\ \A l \in Facts(trail) : Holds(a, l)
<1>1. trail \in Seq(Entries) /\ known \subseteq Clauses
  BY DEF IInv, TypeOK
<1>2. \A a \in Models(input) :
        /\ a \in Assignments /\ ~ refuted /\ Respects(a, trail)
        /\ \A c \in known : Satisfies(a, c)
  BY DEF IInv, KnownFollows, Models
<1>3. QED
  BY <1>1, <1>2, FactsHold

LEMMA ImplyInv == ASSUME IInv, Imply PROVE IInv'
<1>1. trail' \in Seq(Entries) /\ known' = known /\ Extends(trail, trail', known)
  BY DEF Imply
<1>2. \A a \in Models(input) : Respects(a, trail')
  BY <1>1, InvFacts, ExtendsRespects
<1>3. Facts(trail) \subseteq Facts(trail')
  BY <1>1, InvFacts, ContinuesFacts DEF Extends
<1>4. QED
  BY <1>1, <1>2, <1>3, InvFacts, SearchStep DEF Imply

LEMMA GuessInv == ASSUME IInv, NEW l \in Lits, Guess(l) PROVE IInv'
<1> DEFINE e == [lit |-> l, guess |-> TRUE]
<1>1. e \in Entries /\ trail \in Seq(Entries)
  BY InvFacts DEF Entries
<1>2. /\ trail' \in Seq(Entries) /\ Len(trail') = Len(trail) + 1
      /\ Len(trail) \in Nat /\ trail'[Len(trail) + 1] = e
      /\ \A i \in 1 .. Len(trail) : trail'[i] = trail[i]
  BY <1>1 DEF Guess
<1>3. DOMAIN trail' = 1 .. Len(trail) + 1 /\ DOMAIN trail = 1 .. Len(trail)
  BY <1>1, <1>2, TrailType
<1>4. ASSUME NEW a \in Models(input) PROVE Respects(a, trail')
  <2>1. Respects(a, trail)
    BY InvFacts
  <2>2. SUFFICES ASSUME NEW i \in DOMAIN trail', ~ trail'[i].guess,
                        \A j \in 1 .. i - 1 :
                          trail'[j].guess => Holds(a, trail'[j].lit)
                 PROVE  Holds(a, trail'[i].lit)
    BY DEF Respects
  <2>3. i # Len(trail) + 1
    BY <1>2, <2>2
  <2>4. i \in DOMAIN trail /\ trail'[i] = trail[i]
        /\ \A j \in 1 .. i - 1 : trail'[j] = trail[j]
    BY <1>2, <1>3, <2>2, <2>3
  <2>5. QED
    BY <2>1, <2>2, <2>4 DEF Respects
<1>5. Facts(trail) \subseteq Facts(trail')
  <2>1. SUFFICES ASSUME NEW i \in DOMAIN trail,
                        \A k \in 1 .. i : ~ trail[k].guess
                 PROVE  trail[i].lit \in Facts(trail')
    BY DEF Facts
  <2>2. i \in DOMAIN trail' /\ i \in 1 .. i
        /\ \A k \in 1 .. i : trail'[k] = trail[k]
    BY <1>2, <1>3
  <2>3. QED
    BY <2>1, <2>2 DEF Facts
<1>6. known' = known
  BY DEF Guess
<1>7. QED
  BY <1>2, <1>4, <1>5, <1>6, InvFacts, SearchStep DEF Guess

LEMMA LearnInv == ASSUME IInv, NEW c \in Clauses, Learn(c) PROVE IInv'
<1>1. /\ trail' \in Seq(Entries) /\ known \subseteq known'
      /\ known' \subseteq known \cup {c} /\ trail \in Seq(Entries)
      /\ {c} \subseteq Clauses
  BY InvFacts DEF Learn
<1>2. ASSUME NEW a \in Models(input) PROVE Satisfies(a, c)
  BY InvFacts DEF Learn, Entails
<1>3. ASSUME NEW a \in Models(input) PROVE Respects(a, trail')
  <2>1. a \in Assignments /\ Respects(a, trail)
    BY InvFacts
  <2>2. CASE Extends(trail, trail', {c})
    BY <1>1, <1>2, <2>1, <2>2, ExtendsRespects
  <2>3. ASSUME NEW i \in Guesses(trail),
               Extends(SubSeq(trail, 1, i - 1), trail', {c})
        PROVE  Respects(a, trail')
    <3> DEFINE u == SubSeq(trail, 1, i - 1)
    <3>1. Respects(a, u)
      BY <1>1, <2>1, PrefixRespects
    <3>2. u \in Seq(Entries)
      BY <1>1, PrefixType
    <3>3. \A k \in {c} : Satisfies(a, k)
      BY <1>2
    <3>4. Extends(u, trail', {c})
      BY <2>3
    <3> HIDE DEF u
    <3>5. QED
      BY <1>1, <2>1, <3>1, <3>2, <3>3, <3>4, ExtendsRespects
  <2>4. QED
    BY <2>2, <2>3 DEF Learn
<1>4. Facts(trail) \subseteq Facts(trail')
  <2>1. CASE Extends(trail, trail', {c})
    BY <1>1, <2>1, ContinuesFacts DEF Extends
  <2>2. ASSUME NEW i \in Guesses(trail),
               Extends(SubSeq(trail, 1, i - 1), trail', {c})
        PROVE  Facts(trail) \subseteq Facts(trail')
    <3>1. SubSeq(trail, 1, i - 1) \in Seq(Entries)
      BY <1>1, PrefixType
    <3>2. Facts(trail) \subseteq Facts(SubSeq(trail, 1, i - 1))
      BY <1>1, PrefixFacts
    <3>3. Facts(SubSeq(trail, 1, i - 1)) \subseteq Facts(trail')
      BY <1>1, <2>2, <3>1, ContinuesFacts DEF Extends
    <3>4. QED
      BY <3>2, <3>3
  <2>3. QED
    BY <2>1, <2>2 DEF Learn
<1>5. \A a \in Models(input) : \A k \in known' : Satisfies(a, k)
  BY <1>1, <1>2, InvFacts
<1>6. known' \subseteq Clauses
  BY <1>1, InvFacts
<1>7. QED
  BY <1>1, <1>3, <1>4, <1>5, <1>6, SearchStep DEF Learn

(* What is left of the trail when guesses are taken back. *)
LEMMA CutKeeps ==
  ASSUME NEW t \in Seq(Entries), NEW u, CutAtGuess(t, u)
  PROVE  /\ u \in Seq(Entries)
         /\ \A a \in Assignments : Respects(a, t) => Respects(a, u)
         /\ Facts(t) \subseteq Facts(u)
<1>1. CASE u = t
  BY <1>1
<1>2. ASSUME NEW i \in Guesses(t), u = SubSeq(t, 1, i - 1)
      PROVE  /\ u \in Seq(Entries)
             /\ \A a \in Assignments : Respects(a, t) => Respects(a, u)
             /\ Facts(t) \subseteq Facts(u)
  BY <1>2, PrefixType, PrefixRespects, PrefixFacts
<1>3. QED
  BY <1>1, <1>2 DEF CutAtGuess

LEMMA TakeBackInv == ASSUME IInv, TakeBack PROVE IInv'
<1>1. /\ trail' \in Seq(Entries) /\ Facts(trail) \subseteq Facts(trail')
      /\ \A a \in Assignments : Respects(a, trail) => Respects(a, trail')
  BY InvFacts, CutKeeps DEF TakeBack
<1>2. QED
  BY <1>1, InvFacts, SearchStep DEF TakeBack

LEMMA ForgetInv == ASSUME IInv, Forget PROVE IInv'
<1>1. trail' = trail /\ known' \subseteq known
  BY DEF Forget
<1>2. ASSUME NEW a \in Assignments, \A c \in known' : Satisfies(a, c),
             \A l \in Facts(trail') : Holds(a, l), NEW c \in known
      PROVE  Satisfies(a, c)
  <2>1. CASE c \in known'
    BY <1>2, <2>1
  <2>2. CASE c \notin known'
    BY <1>1, <1>2, <2>2 DEF Forget, Entails
  <2>3. QED
    BY <2>1, <2>2
<1>3. trail' \in Seq(Entries) /\ known' \subseteq Clauses
  BY <1>1, InvFacts
<1>4. \A a \in Models(input) : \A c \in known' : Satisfies(a, c)
  BY <1>1, InvFacts
<1>5. \A a \in Models(input) : Respects(a, trail')
  BY <1>1, InvFacts
<1>6. QED
  BY <1>1, <1>2, <1>3, <1>4, <1>5, SearchStep DEF Forget

LEMMA AdoptInv == ASSUME IInv, Adopt PROVE IInv'
<1>1. PICK i \in Guesses(trail) :
        /\ Guesses(trail) = {i}
        /\ input' = input \cup {{trail[i].lit}}
        /\ trail' = [trail EXCEPT ![i].guess = FALSE]
        /\ answer' = "none"
        /\ UNCHANGED <<known, refuted, assumed, model>>
  BY DEF Adopt
<1>2. /\ trail \in Seq(Entries) /\ i \in 1 .. Len(trail)
      /\ Len(trail) \in Nat /\ DOMAIN trail = 1 .. Len(trail)
      /\ trail[i] \in Entries /\ trail[i].lit \in Lits
      /\ trail \in [1 .. Len(trail) -> Entries]
  BY InvFacts, TrailType DEF Guesses
<1> DEFINE e == [trail[i] EXCEPT !.guess = FALSE]
<1>3. e \in Entries /\ e.lit = trail[i].lit /\ ~ e.guess
  BY <1>2 DEF Entries
<1>4. /\ trail' \in Seq(Entries) /\ DOMAIN trail' = DOMAIN trail
      /\ trail'[i] = e
      /\ \A k \in DOMAIN trail : k # i => trail'[k] = trail[k]
  <2>1. trail' = [trail EXCEPT ![i] = e]
    BY <1>1, <1>2
  <2>2. [trail EXCEPT ![i] = e] \in Seq(Entries)
    BY <1>2, <1>3
  <2>3. QED
    BY <1>2, <2>1, <2>2
<1>5. Guesses(trail') = {}
  BY <1>1, <1>3, <1>4 DEF Guesses
<1>6. \A k \in DOMAIN trail : trail'[k].lit = trail[k].lit
  BY <1>3, <1>4
<1>7. True(trail') = True(trail)
  BY <1>4, <1>6 DEF True
<1>8. \A a \in Models(input') :
        a \in Models(input) /\ a \in Assignments /\ Holds(a, trail[i].lit)
  <2>1. SUFFICES ASSUME NEW a \in Models(input')
                 PROVE  /\ a \in Models(input) /\ a \in Assignments
                        /\ Holds(a, trail[i].lit)
    OBVIOUS
  <2>2. input \subseteq input' /\ {trail[i].lit} \in input'
    BY <1>1
  <2>3. a \in Models(input) /\ a \in Assignments
    BY <2>2 DEF Models
  <2>4. Satisfies(a, {trail[i].lit})
    BY <2>2 DEF Models
  <2>5. QED
    BY <2>3, <2>4 DEF Satisfies
<1>9. TypeOK'
  <2>1. input' \subseteq Clauses
    BY <1>1, <1>2 DEF IInv, TypeOK, Clauses
  <2>2. QED
    BY <1>1, <1>4, <2>1 DEF IInv, TypeOK, Answers
<1>10. KnownFollows'
  <2>1. SUFFICES ASSUME NEW a \in Models(input')
                 PROVE  /\ ~ refuted'
                        /\ \A c \in known' : Satisfies(a, c)
                        /\ Respects(a, trail')
    BY DEF KnownFollows
  <2>2. /\ a \in Assignments /\ ~ refuted /\ Respects(a, trail)
        /\ \A c \in known : Satisfies(a, c)
        /\ Holds(a, trail[i].lit)
    BY <1>8, InvFacts
  <2>3. \A k \in Guesses(trail) : Holds(a, trail[k].lit)
    BY <1>1, <2>2
  <2>4. \A l \in True(trail) : Holds(a, l)
    BY <1>2, <2>2, <2>3, AllTrue
  <2>5. Respects(a, trail')
    BY <1>4, <1>6, <2>4 DEF Respects, True
  <2>6. QED
    BY <1>1, <2>2, <2>5
<1>11. NothingLost'
  <2>1. SUFFICES ASSUME NEW a \in Assignments, ~ refuted',
                        \A c \in known' : Satisfies(a, c),
                        \A l \in Facts(trail') : Holds(a, l)
                 PROVE  a \in Models(input')
    BY DEF NothingLost
  <2>2. \A l \in True(trail) : Holds(a, l)
    BY <1>4, <1>5, <1>7, <2>1, NoGuess
  <2>3. Facts(trail) \subseteq True(trail) /\ trail[i].lit \in True(trail)
    BY <1>2 DEF Facts, True
  <2>4. a \in Models(input)
    BY <1>1, <2>1, <2>2, <2>3 DEF IInv, NothingLost
  <2>5. Satisfies(a, {trail[i].lit})
    BY <2>2, <2>3 DEF Satisfies
  <2>6. QED
    BY <1>1, <2>4, <2>5 DEF Models
<1>12. AnswersRight'
  BY <1>1 DEF AnswersRight
<1>13. QED
  BY <1>9, <1>10, <1>11, <1>12 DEF IInv

(* A conflict on a trail without guesses leaves no model. *)
LEMMA NoModels ==
  ASSUME IInv, Guesses(trail) = {}, Falsified(known, trail)
  PROVE  Models(input) = {}
<1>1. SUFFICES ASSUME NEW a \in Models(input) PROVE FALSE
  OBVIOUS
<1>2. \A l \in True(trail) : Holds(a, l)
  BY InvFacts, AllTrue
<1>3. QED
  BY <1>2, InvFacts, FalsifiedFails

LEMMA RefuteInv == ASSUME IInv, Refute PROVE IInv'
<1>1. Models(input) = {} /\ input' = input
  BY NoModels DEF Refute
<1>2. TypeOK'
  BY DEF Refute, IInv, TypeOK
<1>3. KnownFollows' /\ NothingLost'
  BY <1>1, SMT DEF Refute, KnownFollows, NothingLost
<1>4. AnswersRight'
  BY DEF Refute, IInv, AnswersRight
<1>5. QED
  BY <1>2, <1>3, <1>4 DEF IInv

LEMMA SolveInv == ASSUME IInv, NEW A \in SUBSET Lits, Solve(A) PROVE IInv'
<1>1. TypeOK'
  BY DEF Solve, IInv, TypeOK, Answers
<1>2. KnownFollows' /\ NothingLost'
  BY DEF Solve, IInv, KnownFollows, NothingLost
<1>3. AnswersRight'
  BY DEF Solve, AnswersRight
<1>4. QED
  BY <1>1, <1>2, <1>3 DEF IInv

(* The trail after an answer, and the type of what an answer changes. *)
LEMMA AnswerKeeps ==
  ASSUME IInv, NEW w \in Answers, Answer(w), model' \in Assignments,
         refuted' \in BOOLEAN, refuted => refuted',
         refuted' => refuted \/ Models(input) = {}
  PROVE  TypeOK' /\ KnownFollows' /\ NothingLost'
<1>1. /\ trail' \in Seq(Entries) /\ Facts(trail) \subseteq Facts(trail')
      /\ \A a \in Assignments : Respects(a, trail) => Respects(a, trail')
  BY InvFacts, CutKeeps DEF Answer
<1>2. input' = input /\ known' = known
  BY DEF Answer
<1>3. TypeOK'
  BY <1>1 DEF IInv, TypeOK, Answer
<1>4. KnownFollows' /\ NothingLost'
  BY <1>1, <1>2, InvFacts, SameInput
<1>5. QED
  BY <1>3, <1>4

(* A trail that makes every kept clause true is a model. *)
LEMMA AnswerSatInv == ASSUME IInv, AnswerSat PROVE IInv'
<1>1. /\ True(trail) \cap False(trail) = {}
      /\ \A c \in known : c \cap True(trail) # {}
      /\ ~ refuted
      /\ assumed \subseteq True(trail)
      /\ model' = [v \in Vars |-> <<v, TRUE>> \in True(trail)]
      /\ Answer("sat") /\ UNCHANGED refuted
  BY DEF AnswerSat
<1>2. model' \in Assignments
  BY <1>1 DEF Assignments
<1>3. TypeOK' /\ KnownFollows' /\ NothingLost'
  <2>1. "sat" \in Answers
    BY DEF Answers
  <2>2. refuted' \in BOOLEAN
    BY <1>1 DEF IInv, TypeOK
  <2>3. /\ refuted => refuted'
        /\ refuted' => refuted \/ Models(input) = {}
    BY <1>1
  <2>4. QED
    BY <1>1, <1>2, <2>1, <2>2, <2>3, AnswerKeeps
<1>4. \A l \in True(trail) : l \in Lits /\ Neg(l) \notin True(trail)
  <2>1. \A l \in True(trail) : l \in Lits
    BY InvFacts, TrailType DEF True
  <2>2. \A l \in Lits : Neg(l) \in True(trail) => l \in False(trail)
    BY NegNeg DEF False
  <2>3. QED
    BY <1>1, <2>1, <2>2
<1>6. \A l \in True(trail) : Holds(model', l)
  <2>1. SUFFICES ASSUME NEW v \in Vars, NEW b \in BOOLEAN,
                        <<v, b>> \in True(trail)
                 PROVE  model'[v] = b
    BY <1>4 DEF Lits, Holds
  <2>2. model'[v] = (<<v, TRUE>> \in True(trail))
    BY <1>1
  <2>3. CASE b = TRUE
    BY <2>1, <2>2, <2>3
  <2>4. CASE b = FALSE
    <3>1. Neg(<<v, b>>) = <<v, TRUE>>
      BY <2>4 DEF Neg
    <3>2. <<v, TRUE>> \notin True(trail)
      BY <1>4, <2>1, <3>1
    <3>3. ~ model'[v]
      BY <2>2, <3>2
    <3>4. model'[v] \in BOOLEAN
      BY <1>2 DEF Assignments
    <3>5. model'[v] = FALSE
      BY <3>3, <3>4
    <3>6. QED
      BY <2>4, <3>5
  <2>5. QED
    BY <2>3, <2>4
<1>7. ASSUME NEW c \in known PROVE Satisfies(model', c)
  BY <1>1, <1>6 DEF Satisfies
<1>8. Facts(trail) \subseteq True(trail)
  BY DEF Facts, True
<1>9. model' \in Models(input)
  BY <1>1, <1>2, <1>6, <1>7, <1>8 DEF IInv, NothingLost
<1>10. AnswersRight'
  BY <1>1, <1>6, <1>9 DEF AnswersRight, Answer
<1>11. QED
  BY <1>3, <1>10 DEF IInv

(* "unsat" is said when the facts contradict a kept clause, or when what   *)
(* follows from some assumptions contradicts another.                      *)
LEMMA AnswerUnsatInv == ASSUME IInv, AnswerUnsat PROVE IInv'
<1>1. Answer("unsat") /\ UNCHANGED model /\ refuted' \in BOOLEAN
  BY DEF AnswerUnsat
<1>2. /\ refuted => refuted'
      /\ refuted' => refuted \/ Models(input) = {}
  BY NoModels DEF AnswerUnsat
<1>3. TypeOK' /\ KnownFollows' /\ NothingLost'
  <2>1. "unsat" \in Answers /\ model' \in Assignments
    BY <1>1 DEF Answers, IInv, TypeOK
  <2>2. QED
    BY <1>1, <1>2, <2>1, AnswerKeeps
<1>4. ASSUME NEW a \in Models(input) PROVE \E l \in assumed : ~ Holds(a, l)
  <2>1. ~ refuted /\ a \in Assignments /\ Respects(a, trail)
    BY InvFacts
  <2>2. /\ \A i \in Guesses(trail) : trail[i].lit \in assumed
        /\ assumed \cap False(trail) # {}
    BY <2>1, NoModels DEF AnswerUnsat
  <2>3. SUFFICES ASSUME \A l \in assumed : Holds(a, l) PROVE FALSE
    OBVIOUS
  <2>4. \A l \in True(trail) : Holds(a, l)
    BY <2>1, <2>2, <2>3, InvFacts, AllTrue
  <2>5. PICK l \in True(trail) : Neg(l) \in assumed
    BY <2>2 DEF False
  <2>6. l \in Lits
    BY <2>5, InvFacts, TrailType DEF True
  <2>7. QED
    BY <2>1, <2>3, <2>4, <2>5, <2>6, NegType
<1>5. AnswersRight'
  BY <1>1, <1>4 DEF AnswersRight, Answer
<1>6. QED
  BY <1>3, <1>5 DEF IInv

LEMMA AnswerUndefInv == ASSUME IInv, AnswerUndef PROVE IInv'
<1>1. /\ Answer("undef") /\ UNCHANGED <<refuted, model>>
      /\ "undef" \in Answers
  BY DEF AnswerUndef, Answers
<1>2. TypeOK' /\ KnownFollows' /\ NothingLost'
  <2>1. model' \in Assignments /\ refuted' \in BOOLEAN
    BY <1>1 DEF IInv, TypeOK
  <2>2. QED
    BY <1>1, <2>1, AnswerKeeps
<1>3. AnswersRight'
  BY <1>1 DEF AnswersRight, Answer
<1>4. QED
  BY <1>2, <1>3 DEF IInv

---------------------------------------------------------------------------
LEMMA StutterInv == ASSUME IInv, UNCHANGED vars PROVE IInv'
BY DEF IInv, vars, TypeOK, KnownFollows, NothingLost, AnswersRight

LEMMA NextInv == ASSUME IInv, [Next]_vars PROVE IInv'
<1>1. ASSUME NEW C \in SUBSET Clauses, Give(C) PROVE IInv'
  BY <1>1, GiveInv
<1>2. ASSUME NEW l \in Lits, Guess(l) PROVE IInv'
  BY <1>2, GuessInv
<1>3. ASSUME NEW c \in Clauses, Learn(c) PROVE IInv'
  BY <1>3, LearnInv
<1>4. ASSUME NEW A \in SUBSET Lits, Solve(A) PROVE IInv'
  BY <1>4, SolveInv
<1>5. QED
  BY <1>1, <1>2, <1>3, <1>4, ImplyInv, TakeBackInv, ForgetInv, AdoptInv,
     RefuteInv, AnswerSatInv, AnswerUnsatInv, AnswerUndefInv, StutterInv
  DEF Next

THEOREM Invariance == Spec => []IInv
<1>1. Init => IInv
  BY InitInv
<1>2. IInv /\ [Next]_vars => IInv'
  BY NextInv
<1>3. QED
  BY <1>1, <1>2, PTL DEF Spec

(* What the solver keeps follows from the caller's clauses: no guess taken *)
(* back and no learnt clause leaves a trace that a model contradicts.      *)
THEOREM KeptFollows == Spec => []KnownFollows
<1>1. IInv => KnownFollows
  BY DEF IInv
<1>2. QED
  BY <1>1, Invariance, PTL

(* No clause of the caller is lost, whatever is shrunk or deleted.         *)
THEOREM KeptSuffices == Spec => []NothingLost
<1>1. IInv => NothingLost
  BY DEF IInv
<1>2. QED
  BY <1>1, Invariance, PTL

(* "sat" comes with a model of the caller's clauses and assumptions, and   *)
(* "unsat" only when there is none.                                        *)
THEOREM AnswersAreRight == Spec => []AnswersRight
<1>1. IInv => AnswersRight
  BY DEF IInv
<1>2. QED
  BY <1>1, Invariance, PTL
=============================================================================
