------------------------------ MODULE SolverProofs ------------------------------
(***************************************************************************)
(* Theorems of Solver: its types, and the exactness of its watch lists     *)
(* (WatchesRight), whatever is called in whatever order.  First lemmas on  *)
(* its operators on sequences and sets, then what holds between calls of   *)
(* the solver's data, piece by piece: of a trail with the lengths at which *)
(* its levels were opened, of clauses with their watch lists, and of the   *)
(* reasons of literals.  Each piece has the lemmas on the operations that  *)
(* change it; they are about values, so that they serve before and after a *)
(* step.  Then there is a lemma for each part of the invariant, with a     *)
(* case for each action.                                                   *)
(***************************************************************************)
EXTENDS Solver, NaturalsInduction, FiniteSetTheorems, WellFoundedInduction, TLAPS

(* What is least, and what is greatest.                                    *)
LEMMA NatOrder == IsWellFoundedOn({p \in Nat \X Nat : p[1] < p[2]}, Nat)
  BY NatLessThanWellFounded DEF OpToRel

LEMMA LeastOf ==
  ASSUME NEW S \in SUBSET Nat, S # {}
  PROVE  Least(S) \in S /\ \A j \in S : Least(S) <= j
<1>1. PICK x \in S : \A y \in S : <<y, x>> \notin {p \in Nat \X Nat : p[1] < p[2]}
  BY NatOrder, WFMin
<1>2. \A y \in S : x <= y
  <2>1. ASSUME NEW y \in S PROVE ~ (y < x)
    <3>1. <<y, x>> \in Nat \X Nat
      OBVIOUS
    <3>2. QED
      BY <3>1, <1>1
  <2>2. QED
    BY <2>1
<1>3. QED
  BY <1>2 DEF Least

LEMMA GreatestOf ==
  ASSUME NEW S \in SUBSET Nat, S # {}, NEW n \in Nat, \A i \in S : i <= n
  PROVE  Greatest(S) \in S /\ \A j \in S : j <= Greatest(S)
<1> DEFINE T == {k \in Nat : \E i \in S : k = n - i}
<1>1. T \in SUBSET Nat /\ T # {}
  <2>1. PICK i \in S : TRUE
    OBVIOUS
  <2>2. n - i \in T
    BY <2>1
  <2>3. QED
    BY <2>2
<1>2. PICK k \in T : \A j \in T : k <= j
  BY <1>1, LeastOf
<1>3. PICK x \in S : k = n - x
  OBVIOUS
<1>4. ASSUME NEW j \in S PROVE j <= x
  <2>1. n - j \in T
    OBVIOUS
  <2>2. k <= n - j
    BY <2>1, <1>2
  <2>3. QED
    BY <2>2, <1>3
<1>5. QED
  BY <1>4 DEF Greatest

---------------------------------------------------------------------------
(* Two elements change places.                                             *)
LEMMA Swapped ==
  ASSUME NEW X, NEW q \in Seq(X), NEW i \in DOMAIN q, NEW j \in DOMAIN q
  PROVE  /\ Swap(q, i, j) \in Seq(X) /\ Len(Swap(q, i, j)) = Len(q)
         /\ DOMAIN Swap(q, i, j) = DOMAIN q
         /\ Swap(q, i, j)[i] = q[j] /\ Swap(q, i, j)[j] = q[i]
         /\ \A k \in DOMAIN q : k # i /\ k # j => Swap(q, i, j)[k] = q[k]
BY DEF Swap

(* No two literals of q have a variable in common. *)
DistinctVars(q) == \A j, k \in DOMAIN q : q[j][1] = q[k][1] => j = k
Elements(q) == {q[k] : k \in DOMAIN q}

LEMMA SwapKeeps ==
  ASSUME NEW X, NEW q \in Seq(X), NEW i \in DOMAIN q, NEW j \in DOMAIN q
  PROVE  /\ DistinctVars(q) => DistinctVars(Swap(q, i, j))
         /\ Elements(Swap(q, i, j)) = Elements(q)
<1> DEFINE s == Swap(q, i, j)
           t(k) == IF k = i THEN j ELSE IF k = j THEN i ELSE k
<1>1. /\ DOMAIN s = DOMAIN q
      /\ \A k \in DOMAIN q : t(k) \in DOMAIN q /\ s[k] = q[t(k)] /\ t(t(k)) = k
  <2>1. /\ DOMAIN s = DOMAIN q /\ s[i] = q[j] /\ s[j] = q[i]
        /\ \A k \in DOMAIN q : k # i /\ k # j => s[k] = q[k]
    BY Swapped
  <2> HIDE DEF s
  <2>2. QED
    BY <2>1
<1>2. ASSUME DistinctVars(q), NEW k \in DOMAIN q, NEW m \in DOMAIN q,
             s[k][1] = s[m][1]
      PROVE  k = m
  <2>1. t(k) = t(m)
    BY <1>1, <1>2 DEF DistinctVars
  <2>2. QED
    BY <1>1, <2>1
<1>3. Elements(s) = Elements(q)
  <2>1. \A k \in DOMAIN q : s[k] \in Elements(q)
    BY <1>1 DEF Elements
  <2>2. \A k \in DOMAIN q : q[k] \in Elements(s)
    <3>1. \A k \in DOMAIN q : q[k] = s[t(k)]
      BY <1>1
    <3>2. QED
      BY <3>1, <1>1 DEF Elements
  <2>3. QED
    BY <2>1, <2>2, <1>1 DEF Elements
<1>4. QED
  BY <1>1, <1>2, <1>3 DEF DistinctVars

---------------------------------------------------------------------------
(* An element is left out.                                                 *)
LEMMA LeftOut ==
  ASSUME NEW X, NEW q \in Seq(X), NEW i \in DOMAIN q
  PROVE  /\ Without(q, i) \in Seq(X) /\ Len(Without(q, i)) = Len(q) - 1
         /\ DOMAIN Without(q, i) = 1 .. Len(q) - 1
         /\ \A n \in 1 .. Len(q) - 1 :
              Without(q, i)[n] = IF n < i THEN q[n] ELSE q[n + 1]
<1>1. Len(q) \in Nat /\ i \in 1 .. Len(q) /\ \A n \in 1 .. Len(q) : q[n] \in X
  OBVIOUS
<1>2. \A n \in 1 .. Len(q) - 1 : (IF n < i THEN q[n] ELSE q[n + 1]) \in X
  BY <1>1
<1>3. QED
  BY <1>1, <1>2 DEF Without

LEMMA LeftOutKeeps ==
  ASSUME NEW X, NEW q \in Seq(X), NEW i \in DOMAIN q,
         \A m, n \in DOMAIN q : q[m] = q[n] => m = n
  PROVE  /\ \A m, n \in DOMAIN Without(q, i) :
              Without(q, i)[m] = Without(q, i)[n] => m = n
         /\ \A n \in DOMAIN Without(q, i) :
              /\ Without(q, i)[n] # q[i]
              /\ \E m \in DOMAIN q : Without(q, i)[n] = q[m]
         /\ \A m \in DOMAIN q : m # i =>
              \E n \in DOMAIN Without(q, i) : Without(q, i)[n] = q[m]
<1> DEFINE w == Without(q, i)
           p(n) == IF n < i THEN n ELSE n + 1
<1>1. /\ Len(q) \in Nat /\ i \in 1 .. Len(q) /\ DOMAIN q = 1 .. Len(q)
      /\ DOMAIN w = 1 .. Len(q) - 1
      /\ \A n \in DOMAIN w : p(n) \in DOMAIN q /\ p(n) # i /\ w[n] = q[p(n)]
  <2>1. Len(q) \in Nat /\ i \in 1 .. Len(q) /\ DOMAIN q = 1 .. Len(q)
    OBVIOUS
  <2>2. /\ DOMAIN w = 1 .. Len(q) - 1
        /\ \A n \in 1 .. Len(q) - 1 : w[n] = IF n < i THEN q[n] ELSE q[n + 1]
    BY LeftOut
  <2> HIDE DEF w
  <2>3. ASSUME NEW n \in DOMAIN w
        PROVE  p(n) \in DOMAIN q /\ p(n) # i /\ w[n] = q[p(n)]
    BY <2>1, <2>2
  <2>4. QED
    BY <2>1, <2>2, <2>3
<1>2. \A m, n \in DOMAIN w : p(m) = p(n) => m = n
  BY <1>1
<1>3. ASSUME NEW m \in DOMAIN q, m # i
      PROVE  \E n \in DOMAIN w : p(n) = m
  <2>1. CASE m < i
    BY <2>1, <1>1
  <2>2. CASE m > i
    <3>1. m - 1 \in DOMAIN w /\ p(m - 1) = m
      BY <2>2, <1>1
    <3>2. QED
      BY <3>1
  <2>3. QED
    BY <2>1, <2>2, <1>1, <1>3
<1> HIDE DEF w, p
<1>4. QED
  BY <1>1, <1>2, <1>3 DEF w

---------------------------------------------------------------------------
(* Sorting by a key that no two elements share.                            *)
Keyed(S, key) ==
  /\ IsFiniteSet(S) /\ \A x \in S : key[x] \in Int
  /\ \A x, y \in S : key[x] = key[y] => x = y
InOrderOf(q, S, key) ==
  /\ q \in Seq(S) /\ Len(q) = Cardinality(S) /\ DOMAIN q = 1 .. Cardinality(S)
  /\ \A m, n \in DOMAIN q : m < n => key[q[m]] < key[q[n]]
  /\ \A x \in S : \E n \in DOMAIN q : q[n] = x

LEMMA SortedIs ==
  ASSUME NEW S, NEW key, Keyed(S, key)
  PROVE  InOrderOf(Sorted(S, key), S, key)
<1> DEFINE below(x) == {y \in S : key[y] <= key[x]}
           N == Cardinality(S)
           r == [x \in S |-> Cardinality(below(x))]
           q == Sorted(S, key)
<1>1. /\ N \in Nat /\ IsFiniteSet(S)
      /\ \A x \in S : key[x] \in Int
      /\ \A x, y \in S : key[x] = key[y] => x = y
  BY FS_CardinalityType DEF Keyed
<1>2. ASSUME NEW x \in S
      PROVE  IsFiniteSet(below(x)) /\ r[x] \in 1 .. N
  <2>1. below(x) \in SUBSET S /\ x \in below(x)
    BY <1>1
  <2>2. IsFiniteSet(below(x)) /\ Cardinality(below(x)) <= N
    BY <2>1, <1>1, FS_Subset
  <2>3. Cardinality(below(x)) \in Nat /\ Cardinality(below(x)) # 0
    BY <2>1, <2>2, FS_CardinalityType, FS_EmptySet
  <2>4. QED
    BY <2>2, <2>3, <1>1
<1>3. ASSUME NEW x \in S, NEW y \in S, key[x] < key[y]
      PROVE  r[x] < r[y]
  <2>1. below(x) \in SUBSET below(y) /\ y \in below(y) /\ y \notin below(x)
    BY <1>1, <1>3
  <2>2. /\ Cardinality(below(x)) <= Cardinality(below(y))
        /\ Cardinality(below(x)) # Cardinality(below(y))
    BY <2>1, <1>2, FS_Subset
  <2>3. r[x] \in Int /\ r[y] \in Int /\ r[x] <= r[y] /\ r[x] # r[y]
    BY <1>2, <2>2
  <2>4. QED
    BY <2>3
<1>4. r \in [S -> 1 .. N] /\ DOMAIN r = S
  BY <1>2
<1> HIDE DEF below, r
<1>5. \A x, y \in S : r[x] = r[y] => x = y
  <2>1. ASSUME NEW x \in S, NEW y \in S, r[x] = r[y] PROVE x = y
    <3>1. ~ (key[x] < key[y]) /\ ~ (key[y] < key[x])
      BY <2>1, <1>3, <1>2
    <3>2. QED
      BY <3>1, <1>1
  <2>2. QED
    BY <2>1
<1>6. \A n \in 1 .. N : \E x \in S : r[x] = n
  <2>1. r \in Injection(S, 1 .. N)
    BY <1>4, <1>5 DEF Injection, IsInjective
  <2>2. IsFiniteSet(1 .. N) /\ Cardinality(1 .. N) = N
    BY <1>1, FS_Interval
  <2>3. r \in Surjection(S, 1 .. N)
    BY <2>1, <2>2, FS_Injection
  <2>4. QED
    BY <2>3 DEF Surjection
<1>7. /\ DOMAIN q = 1 .. N /\ \A n \in 1 .. N : q[n] \in S /\ r[q[n]] = n
      /\ q = [n \in 1 .. N |-> q[n]]
  <2>1. \A n \in 1 .. N : q[n] = CHOOSE x \in S : Cardinality(below(x)) = n
    BY DEF Sorted, below
  <2>2. \A x \in S : Cardinality(below(x)) = r[x]
    BY DEF r
  <2>3. DOMAIN q = 1 .. N
    BY DEF Sorted
  <2>4. ASSUME NEW n \in 1 .. N PROVE q[n] \in S /\ r[q[n]] = n
    <3>1. \E x \in S : Cardinality(below(x)) = n
      BY <1>6, <2>2
    <3>2. q[n] \in S /\ Cardinality(below(q[n])) = n
      BY <3>1, <2>1
    <3>3. QED
      BY <3>2, <2>2
  <2>5. q = [n \in 1 .. N |-> q[n]]
    <3> DEFINE c(n) == CHOOSE x \in S : Cardinality(below(x)) = n
    <3>1. q = [n \in 1 .. N |-> c(n)]
      BY DEF Sorted, below
    <3> HIDE DEF c, q
    <3>2. QED
      BY <3>1
  <2>6. QED
    BY <2>3, <2>4, <2>5
<1> HIDE DEF q
<1>8. q \in Seq(S) /\ Len(q) = N
  BY <1>7, <1>1
<1>9. ASSUME NEW m \in 1 .. N, NEW n \in 1 .. N, m < n
      PROVE  key[q[m]] < key[q[n]]
  <2>1. q[m] \in S /\ q[n] \in S /\ r[q[m]] = m /\ r[q[n]] = n
    BY <1>7
  <2>2. key[q[m]] # key[q[n]]
    BY <2>1, <1>1, <1>9
  <2>3. ~ (key[q[n]] < key[q[m]])
    BY <2>1, <1>3, <1>9
  <2>4. QED
    BY <2>1, <2>2, <2>3, <1>1
<1>10. ASSUME NEW x \in S PROVE \E n \in 1 .. N : q[n] = x
  <2>1. r[x] \in 1 .. N /\ q[r[x]] \in S /\ r[q[r[x]]] = r[x]
    BY <1>2, <1>7
  <2>2. QED
    BY <2>1, <1>5
<1>11. InOrderOf(q, S, key)
  BY <1>7, <1>8, <1>9, <1>10 DEF InOrderOf
<1>12. QED
  BY <1>11 DEF q

(* The chosen places, in their order.                                      *)
ChosenAt(c, f, q, S) ==
  /\ f \in [DOMAIN c -> S]
  /\ \A n \in DOMAIN c : c[n] = q[f[n]]
  /\ \A m, n \in DOMAIN c : m < n => f[m] < f[n]
  /\ \A i \in S : \E n \in DOMAIN c : f[n] = i

LEMMA ChosenPlaces ==
  ASSUME NEW X, NEW q \in Seq(X), NEW S \in SUBSET DOMAIN q
  PROVE  /\ Chosen(q, S) \in Seq(X)
         /\ \E f : ChosenAt(Chosen(q, S), f, q, S)
<1> DEFINE id == [i \in S |-> i]
           f == Sorted(S, id)
           c == Chosen(q, S)
           N == Cardinality(S)
<1>1. IsFiniteSet(S) /\ N \in Nat
  <2>1. IsFiniteSet(1 .. Len(q)) /\ S \in SUBSET (1 .. Len(q))
    BY FS_Interval
  <2>2. QED
    BY <2>1, FS_Subset, FS_CardinalityType
<1>2. Keyed(S, id)
  BY <1>1 DEF Keyed
<1>3. InOrderOf(f, S, id)
  BY <1>2, SortedIs
<1>4. c = [n \in DOMAIN f |-> q[f[n]]]
  BY DEF Chosen
<1> HIDE DEF f, c
<1>5. /\ f \in [1 .. N -> S] /\ DOMAIN c = 1 .. N
      /\ \A n \in 1 .. N : f[n] \in S /\ c[n] = q[f[n]]
  BY <1>3, <1>4 DEF InOrderOf
<1>6. c \in Seq(X)
  <2>1. \A n \in 1 .. N : q[f[n]] \in X
    BY <1>5
  <2>2. QED
    BY <2>1, <1>4, <1>5, <1>1
<1>7. ChosenAt(c, f, q, S)
  BY <1>3, <1>5 DEF InOrderOf, ChosenAt
<1>8. QED
  BY <1>6, <1>7 DEF c

LEMMA ChosenIs ==
  ASSUME NEW X, NEW q \in Seq(X), NEW S \in SUBSET DOMAIN q
  PROVE  /\ Chosen(q, S) \in Seq(X)
         /\ \A n \in DOMAIN Chosen(q, S) : \E i \in S : Chosen(q, S)[n] = q[i]
         /\ \A i \in S : \E n \in DOMAIN Chosen(q, S) : Chosen(q, S)[n] = q[i]
         /\ (\A i, j \in S : q[i][1] = q[j][1] => i = j)
              => DistinctVars(Chosen(q, S))
<1> DEFINE c == Chosen(q, S)
<1>1. c \in Seq(X)
  BY ChosenPlaces
<1>2. PICK f : ChosenAt(c, f, q, S)
  BY ChosenPlaces
<1> HIDE DEF c
<1>3. /\ DOMAIN c = 1 .. Len(c) /\ Len(c) \in Nat
      /\ \A n \in DOMAIN c : f[n] \in S /\ c[n] = q[f[n]]
      /\ \A i \in S : \E n \in DOMAIN c : f[n] = i
  BY <1>1, <1>2 DEF ChosenAt
<1>4. ASSUME \A i, j \in S : q[i][1] = q[j][1] => i = j,
             NEW m \in DOMAIN c, NEW n \in DOMAIN c, c[m][1] = c[n][1]
      PROVE  m = n
  <2>1. f[m] = f[n] /\ f[m] \in Int
    BY <1>4, <1>3
  <2>2. ~ (m < n) /\ ~ (n < m)
    BY <1>2, <2>1 DEF ChosenAt
  <2>3. QED
    BY <2>2, <1>3
<1>5. QED
  BY <1>1, <1>3, <1>4 DEF c, DistinctVars

LEMMA ChosenNone ==
  ASSUME NEW X, NEW q \in Seq(X), NEW S \in SUBSET DOMAIN q
  PROVE  S = {} <=> Chosen(q, S) = << >>
<1>1. Chosen(q, S) \in Seq(X)
  BY ChosenIs
<1>2. ASSUME S = {} PROVE DOMAIN Chosen(q, S) = {}
  BY <1>2, ChosenIs
<1>3. ASSUME Chosen(q, S) = << >> PROVE S = {}
  BY <1>3, ChosenIs
<1>4. QED
  BY <1>1, <1>2, <1>3

---------------------------------------------------------------------------
(* The number of a literal orders literals by their variable.              *)
NatLits == Nat \X BOOLEAN

LEMMA OfTheTwo ==
  ASSUME NEW v \in Nat
  PROVE  /\ Neg(<<v, TRUE>>) = <<v, FALSE>> /\ Neg(<<v, FALSE>>) = <<v, TRUE>>
         /\ ToInt(<<v, TRUE>>) = 2 * v /\ ToInt(<<v, FALSE>>) = 2 * v + 1
         /\ <<v, TRUE>> # <<v, FALSE>>
         /\ <<v, TRUE>> \in NatLits /\ <<v, FALSE>> \in NatLits
<1>1. Neg(<<v, TRUE>>) = <<v, FALSE>>
  BY DEF Neg
<1>2. Neg(<<v, FALSE>>) = <<v, TRUE>>
  BY DEF Neg
<1>3. ToInt(<<v, TRUE>>) = 2 * v
  BY DEF ToInt
<1>4. ToInt(<<v, FALSE>>) = 2 * v + 1
  BY DEF ToInt
<1>5. /\ <<v, TRUE>> # <<v, FALSE>>
      /\ <<v, TRUE>> \in NatLits /\ <<v, FALSE>> \in NatLits
  BY DEF NatLits
<1>6. QED
  BY <1>1, <1>2, <1>3, <1>4, <1>5

LEMMA EachIsOne ==
  ASSUME NEW l \in NatLits
  PROVE  \E v \in Nat : v = l[1] /\ (l = <<v, TRUE>> \/ l = <<v, FALSE>>)
<1>1. l[1] \in Nat /\ l[2] \in BOOLEAN /\ l = <<l[1], l[2]>>
  BY DEF NatLits
<1>2. \A b \in BOOLEAN : b = TRUE \/ b = FALSE
  OBVIOUS
<1>3. l[2] = TRUE \/ l[2] = FALSE
  BY <1>1, <1>2
<1>4. ASSUME l[2] = TRUE PROVE l = <<l[1], TRUE>>
  BY <1>1, <1>4, Zenon
<1>5. ASSUME l[2] = FALSE PROVE l = <<l[1], FALSE>>
  BY <1>1, <1>5, Zenon
<1>6. QED
  BY <1>1, <1>3, <1>4, <1>5

(* What the numbers say, for the two literals of a variable. *)
LEMMA NumberedOne ==
  ASSUME NEW l \in NatLits
  PROVE  /\ l[1] \in Nat /\ Neg(l) \in NatLits /\ Neg(l)[1] = l[1] /\ Neg(l) # l
         /\ Neg(Neg(l)) = l
         /\ ToInt(l) = 2 * l[1] \/ ToInt(l) = 2 * l[1] + 1
<1>1. PICK v \in Nat : v = l[1] /\ (l = <<v, TRUE>> \/ l = <<v, FALSE>>)
  BY EachIsOne
<1> DEFINE a == <<v, TRUE>>
           b == <<v, FALSE>>
<1>2. /\ Neg(a) = b /\ Neg(b) = a /\ ToInt(a) = 2 * v /\ ToInt(b) = 2 * v + 1
      /\ a # b /\ a \in NatLits /\ b \in NatLits
  BY OfTheTwo
<1>3. a[1] = v /\ b[1] = v
  OBVIOUS
<1>4. l = a \/ l = b
  BY <1>1
<1> HIDE DEF a, b
<1>5. /\ l[1] = v /\ Neg(l) \in NatLits /\ Neg(l)[1] = v /\ Neg(l) # l
      /\ Neg(Neg(l)) = l
  BY <1>2, <1>3, <1>4
<1>6. ToInt(l) = 2 * v \/ ToInt(l) = 2 * v + 1
  BY <1>2, <1>4
<1>7. QED
  BY <1>1, <1>5, <1>6

LEMMA NumberTells ==
  ASSUME NEW l \in NatLits
  PROVE  /\ ToInt(l) = 2 * l[1] => l = <<l[1], TRUE>>
         /\ ToInt(l) = 2 * l[1] + 1 => l = <<l[1], FALSE>>
<1>1. PICK v \in Nat : v = l[1] /\ (l = <<v, TRUE>> \/ l = <<v, FALSE>>)
  BY EachIsOne
<1> DEFINE a == <<v, TRUE>>
           b == <<v, FALSE>>
<1>2. ToInt(a) = 2 * v /\ ToInt(b) = 2 * v + 1
  BY OfTheTwo
<1>3. l = a \/ l = b
  BY <1>1
<1> HIDE DEF a, b
<1>4. (ToInt(l) = 2 * v => l = a) /\ (ToInt(l) = 2 * v + 1 => l = b)
  BY <1>2, <1>3
<1>5. QED
  BY <1>1, <1>4 DEF a, b

LEMMA Numbered ==
  /\ \A l \in NatLits : /\ ToInt(l) \in Nat /\ l[1] \in Nat
                         /\ Neg(l) \in NatLits /\ Neg(l)[1] = l[1] /\ Neg(l) # l
                         /\ Neg(Neg(l)) = l
  /\ \A l, m \in NatLits : l[1] = m[1] => l = m \/ l = Neg(m)
  /\ \A l, m \in NatLits : ToInt(l) = ToInt(m) => l = m
  /\ \A l, m \in NatLits : ToInt(l) < ToInt(m) => l[1] <= m[1]
<1>1. ASSUME NEW l \in NatLits
      PROVE  /\ ToInt(l) \in Nat /\ l[1] \in Nat
             /\ Neg(l) \in NatLits /\ Neg(l)[1] = l[1] /\ Neg(l) # l
             /\ Neg(Neg(l)) = l
  BY NumberedOne
<1>2. ASSUME NEW l \in NatLits, NEW m \in NatLits, ToInt(l) = ToInt(m)
      PROVE  l = m
  <2>1. l[1] = m[1]
    BY <1>2, NumberedOne
  <2>2. ToInt(l) = 2 * l[1] \/ ToInt(l) = 2 * l[1] + 1
    BY NumberedOne
  <2>3. ASSUME ToInt(l) = 2 * l[1] PROVE l = <<l[1], TRUE>> /\ m = <<l[1], TRUE>>
    <3>1. ToInt(m) = 2 * m[1]
      BY <2>1, <2>3, <1>2
    <3>2. l = <<l[1], TRUE>> /\ m = <<m[1], TRUE>>
      BY <2>3, <3>1, NumberTells
    <3>3. QED
      BY <3>2, <2>1
  <2>4. ASSUME ToInt(l) = 2 * l[1] + 1 PROVE l = <<l[1], FALSE>> /\ m = <<l[1], FALSE>>
    <3>1. ToInt(m) = 2 * m[1] + 1
      BY <2>1, <2>4, <1>2
    <3>2. l = <<l[1], FALSE>> /\ m = <<m[1], FALSE>>
      BY <2>4, <3>1, NumberTells
    <3>3. QED
      BY <3>2, <2>1
  <2>5. QED
    BY <2>2, <2>3, <2>4
<1>3. ASSUME NEW l \in NatLits, NEW m \in NatLits, l[1] = m[1]
      PROVE  l = m \/ l = Neg(m)
  <2>1. ToInt(l) = ToInt(m) \/ ToInt(l) = ToInt(Neg(m))
    <3>1. /\ ToInt(l) \in {2 * l[1], 2 * l[1] + 1} /\ ToInt(m) \in {2 * l[1], 2 * l[1] + 1}
          /\ Neg(m) \in NatLits /\ Neg(m) # m
          /\ ToInt(Neg(m)) \in {2 * l[1], 2 * l[1] + 1}
      <4>1. Neg(m) \in NatLits /\ Neg(m)[1] = m[1] /\ Neg(m) # m
        BY NumberedOne
      <4>2. QED
        BY <4>1, NumberedOne, <1>3
    <3>2. ToInt(Neg(m)) # ToInt(m)
      BY <3>1, <1>2
    <3>3. QED
      BY <3>1, <3>2
  <2>2. QED
    BY <2>1, <1>2, NumberedOne
<1>4. ASSUME NEW l \in NatLits, NEW m \in NatLits, ToInt(l) < ToInt(m)
      PROVE  l[1] <= m[1]
  BY <1>4, NumberedOne
<1>5. QED
  BY <1>1, <1>2, <1>3, <1>4

LEMMA LitsSorted ==
  ASSUME NEW S \in SUBSET NatLits, IsFiniteSet(S)
  PROVE  /\ LitsInOrder(S) \in Seq(S)
         /\ Elements(LitsInOrder(S)) = S
         /\ (\A l \in S : Neg(l) \notin S) => DistinctVars(LitsInOrder(S))
<1> DEFINE key == [l \in S |-> ToInt(l)]
           q == LitsInOrder(S)
<1>1. Keyed(S, key)
  BY Numbered DEF Keyed
<1>2. InOrderOf(q, S, key)
  BY <1>1, SortedIs DEF LitsInOrder
<1>3. \A l \in S : key[l] \in Nat
  BY Numbered
<1> HIDE DEF q, key
<1>4. /\ q \in Seq(S) /\ DOMAIN q = 1 .. Len(q) /\ Len(q) \in Nat
      /\ \A n \in DOMAIN q : q[n] \in S
      /\ \A x \in S : \E n \in DOMAIN q : q[n] = x
      /\ \A m, n \in DOMAIN q : m < n => key[q[m]] < key[q[n]]
  BY <1>2 DEF InOrderOf
<1>5. Elements(q) = S
  BY <1>4 DEF Elements
<1>6. ASSUME \A l \in S : Neg(l) \notin S,
             NEW j \in DOMAIN q, NEW k \in DOMAIN q, q[j][1] = q[k][1]
      PROVE  j = k
  <2>1. q[j] = q[k]
    BY <1>4, <1>6, Numbered
  <2>2. key[q[j]] \in Nat /\ ~ (j < k) /\ ~ (k < j)
    BY <2>1, <1>4, <1>3
  <2>3. QED
    BY <2>2, <1>4
<1>7. QED
  BY <1>4, <1>5, <1>6 DEF q, DistinctVars

(* A number and a place within n make a key.                               *)
LEMMA Digits ==
  ASSUME NEW n \in Nat, NEW a \in Nat, NEW b \in Nat,
         NEW i \in 1 .. n, NEW j \in 1 .. n
  PROVE  /\ a * n + i \in Nat
         /\ a < b => a * n + i < b * n + j
         /\ a * n + i = b * n + j => a = b /\ i = j
<1>1. a * n \in Nat /\ b * n \in Nat
  OBVIOUS
<1>2. ASSUME NEW x \in Nat, NEW y \in Nat, x < y
      PROVE  x * n + n <= y * n
  <2>1. PICK d \in Nat : y = x + 1 + d
    <3>1. y - x - 1 \in Nat /\ y = x + 1 + (y - x - 1)
      BY <1>2
    <3>2. QED
      BY <3>1
  <2>2. y * n = x * n + n + d * n
    BY <2>1
  <2>3. d * n \in Nat /\ x * n \in Nat
    OBVIOUS
  <2>4. QED
    BY <2>2, <2>3
<1>3. a < b => a * n + i < b * n + j
  BY <1>1, <1>2
<1>4. b < a => b * n + j < a * n + i
  BY <1>1, <1>2
<1>5. QED
  BY <1>1, <1>3, <1>4

LEMMA InOrderIs ==
  ASSUME NEW q \in Seq(NatLits)
  PROVE  /\ InOrder(q) \in Seq(NatLits)
         /\ DOMAIN InOrder(q) = DOMAIN q
         /\ \A n \in DOMAIN q : \E i \in DOMAIN q : InOrder(q)[n] = q[i]
         /\ \A m, n \in DOMAIN q :
              m < n => ToInt(InOrder(q)[m]) <= ToInt(InOrder(q)[n])
         /\ \A m, n \in DOMAIN q : m # n =>
              \E i, j \in DOMAIN q : i # j /\ InOrder(q)[m] = q[i] /\ InOrder(q)[n] = q[j]
         /\ \A i, j \in DOMAIN q : i # j =>
              \E m, n \in DOMAIN q : m # n /\ InOrder(q)[m] = q[i] /\ InOrder(q)[n] = q[j]
<1> DEFINE D == DOMAIN q
           key == [i \in D |-> ToInt(q[i]) * Len(q) + i]
           p == Sorted(D, key)
           c == InOrder(q)
<1>1. D = 1 .. Len(q) /\ Len(q) \in Nat /\ IsFiniteSet(D) /\ Cardinality(D) = Len(q)
  <2>1. D = 1 .. Len(q) /\ Len(q) \in Nat
    OBVIOUS
  <2>2. IsFiniteSet(1 .. Len(q)) /\ Cardinality(1 .. Len(q)) = Len(q)
    BY <2>1, FS_Interval
  <2>3. QED
    BY <2>1, <2>2
<1>2. \A i \in D : q[i] \in NatLits /\ ToInt(q[i]) \in Nat
  BY Numbered
<1>3. /\ \A i \in D : key[i] \in Int
      /\ \A i, j \in D : key[i] = key[j] => i = j
      /\ \A i, j \in D : key[i] < key[j] => ToInt(q[i]) <= ToInt(q[j])
  <2>1. ASSUME NEW i \in D, NEW j \in D
        PROVE  /\ key[i] \in Int
               /\ key[i] = key[j] => i = j
               /\ key[i] < key[j] => ToInt(q[i]) <= ToInt(q[j])
    <3> DEFINE a == ToInt(q[i])
               b == ToInt(q[j])
    <3>1. a \in Nat /\ b \in Nat /\ i \in 1 .. Len(q) /\ j \in 1 .. Len(q)
      BY <1>1, <1>2
    <3>2. key[i] = a * Len(q) + i /\ key[j] = b * Len(q) + j
      OBVIOUS
    <3> HIDE DEF key, a, b
    <3>3. /\ a * Len(q) + i \in Nat /\ b * Len(q) + j \in Nat
          /\ b < a => b * Len(q) + j < a * Len(q) + i
          /\ a * Len(q) + i = b * Len(q) + j => i = j
      BY <3>1, <1>1, Digits
    <3>4. key[i] \in Int /\ (key[i] = key[j] => i = j)
      BY <3>2, <3>3
    <3>5. key[i] < key[j] => a <= b
      <4>1. ASSUME key[i] < key[j], b < a PROVE FALSE
        <5>1. key[j] < key[i] /\ key[i] \in Nat /\ key[j] \in Nat
          BY <4>1, <3>2, <3>3
        <5>2. QED
          BY <5>1, <4>1
      <4>2. QED
        BY <4>1, <3>1
    <3>6. QED
      BY <3>4, <3>5 DEF a, b
  <2>2. QED
    BY <2>1
<1>4. InOrderOf(p, D, key)
  BY <1>1, <1>3, SortedIs DEF Keyed
<1>5. c = [n \in D |-> q[p[n]]]
  BY DEF InOrder
<1> HIDE DEF c, p, key
<1>6. /\ \A n \in D : p[n] \in D
      /\ \A m, n \in D : m < n => key[p[m]] < key[p[n]]
  <2>1. p \in Seq(D) /\ DOMAIN p = D
    BY <1>4, <1>1 DEF InOrderOf
  <2>2. \A m, n \in DOMAIN p : m < n => key[p[m]] < key[p[n]]
    BY <1>4 DEF InOrderOf
  <2> HIDE DEF D
  <2>3. \A n \in D : p[n] \in D
    BY <2>1
  <2>4. QED
    BY <2>1, <2>2, <2>3
<1>7. /\ DOMAIN c = D
      /\ \A n \in D : c[n] = q[p[n]] /\ c[n] \in NatLits
  BY <1>5, <1>6, <1>2
<1>8. c \in Seq(NatLits)
  BY <1>1, <1>5, <1>7
<1>9. \A m, n \in D : m < n => ToInt(c[m]) <= ToInt(c[n])
  <2>1. ASSUME NEW m \in D, NEW n \in D, m < n
        PROVE  ToInt(c[m]) <= ToInt(c[n])
    <3>1. p[m] \in D /\ p[n] \in D /\ key[p[m]] < key[p[n]]
      BY <1>6, <2>1
    <3>2. ToInt(q[p[m]]) <= ToInt(q[p[n]])
      BY <3>1, <1>3
    <3>3. QED
      BY <3>2, <1>7
  <2>2. QED
    BY <2>1
<1>10. \A m, n \in D : m # n => p[m] # p[n]
  <2>1. ASSUME NEW m \in D, NEW n \in D, m # n
        PROVE  p[m] # p[n]
    <3>1. m < n \/ n < m
      BY <1>1, <2>1
    <3>2. key[p[m]] \in Int /\ key[p[n]] \in Int
      BY <1>3, <1>6
    <3>3. key[p[m]] # key[p[n]]
      BY <1>6, <3>1, <3>2
    <3>4. QED
      BY <3>3
  <2>2. QED
    BY <2>1
<1>11. \A m, n \in D : m # n =>
         \E i, j \in D : i # j /\ c[m] = q[i] /\ c[n] = q[j]
  BY <1>6, <1>7, <1>10
<1>12. \A i, j \in D : i # j =>
         \E m, n \in D : m # n /\ c[m] = q[i] /\ c[n] = q[j]
  <2>1. \A i \in D : \E n \in D : p[n] = i
    BY <1>1, <1>4 DEF InOrderOf
  <2> HIDE DEF D
  <2> QED
    BY <1>7, <2>1
<1>13. QED
  BY <1>6, <1>7, <1>8, <1>9, <1>11, <1>12 DEF c

---------------------------------------------------------------------------
(* The pieces of the state.                                                *)
LEMMA Joined ==
  ASSUME NEW X, NEW a \in Seq(X), NEW b \in Seq(X)
  PROVE  /\ a \o b \in Seq(X) /\ Len(a \o b) = Len(a) + Len(b)
         /\ DOMAIN (a \o b) = 1 .. Len(a) + Len(b)
         /\ \A i \in DOMAIN a : (a \o b)[i] = a[i]
         /\ \A m \in 1 .. Len(b) : (a \o b)[Len(a) + m] = b[m]
OBVIOUS

LEMMA Retyped ==
  ASSUME NEW X, NEW Y, NEW q \in Seq(X), \A k \in DOMAIN q : q[k] \in Y
  PROVE  q \in Seq(Y)
<1>1. q = [k \in 1 .. Len(q) |-> q[k]] /\ Len(q) \in Nat /\ DOMAIN q = 1 .. Len(q)
  OBVIOUS
<1> QED
  BY <1>1

LEMMA JoinedKeeps ==
  ASSUME NEW X, NEW a \in Seq(X), NEW b \in Seq(X), DistinctVars(a), DistinctVars(b),
         \A i \in DOMAIN a : \A j \in DOMAIN b : a[i][1] # b[j][1]
  PROVE  DistinctVars(a \o b)
<1> DEFINE c == a \o b
<1>1. /\ DOMAIN c = 1 .. Len(a) + Len(b) /\ Len(a) \in Nat /\ Len(b) \in Nat
      /\ DOMAIN a = 1 .. Len(a) /\ DOMAIN b = 1 .. Len(b)
  BY Joined
<1>2. /\ \A i \in DOMAIN a : c[i] = a[i]
      /\ \A m \in 1 .. Len(b) : c[Len(a) + m] = b[m]
  BY Joined
<1> HIDE DEF c
<1>3. ASSUME NEW i \in DOMAIN c
      PROVE  \/ i \in DOMAIN a /\ c[i] = a[i]
             \/ \E m \in DOMAIN b : i = Len(a) + m /\ c[i] = b[m]
  <2>1. CASE i \in DOMAIN a
    BY <1>2, <2>1
  <2>2. CASE i \notin DOMAIN a
    <3>1. i - Len(a) \in DOMAIN b /\ i = Len(a) + (i - Len(a))
      BY <1>1, <2>2
    <3> QED
      BY <1>1, <1>2, <3>1
  <2> QED
    BY <2>1, <2>2
<1> SUFFICES ASSUME NEW i \in DOMAIN c, NEW j \in DOMAIN c, c[i][1] = c[j][1]
             PROVE  i = j
  BY DEF DistinctVars, c
<1>4. CASE i \in DOMAIN a /\ c[i] = a[i]
  BY <1>3, <1>4 DEF DistinctVars
<1>5. CASE \E m \in DOMAIN b : i = Len(a) + m /\ c[i] = b[m]
  BY <1>3, <1>5 DEF DistinctVars
<1> QED
  BY <1>3, <1>4, <1>5

---------------------------------------------------------------------------
(* A trail t whose levels were opened at the lengths L: a variable at most *)
(* once, the literals of each level together, its guess the first of them. *)
EntryTypes(U, n) == [lit : U \X BOOLEAN, why : 0 .. n - 1, level : Nat]
OneEach(t) == \A i, j \in DOMAIN t : t[i].lit[1] = t[j].lit[1] => i = j
Levelled(t, L) ==
  /\ \A i \in DOMAIN t : t[i].level <= Len(L)
  /\ \A i \in DOMAIN t : \A k \in DOMAIN L : L[k] < i <=> k <= t[i].level
  /\ \A j, k \in DOMAIN L : j <= k => L[j] <= L[k]
GuessFirst(t, L) ==
  \A i \in DOMAIN t : t[i].level > 0 /\ t[i].why = 0 => i = L[t[i].level] + 1
Sound(t, L, U, n) ==
  /\ t \in Seq(EntryTypes(U, n)) /\ L \in Seq(0 .. Len(t))
  /\ OneEach(t) /\ Levelled(t, L) /\ GuessFirst(t, L)

TrueIn(t, l) == \E i \in DOMAIN t : t[i].lit = l
OpenIn(t, l) == ~ TrueIn(t, l) /\ ~ TrueIn(t, Neg(l))

LEMMA EntryIs ==
  ASSUME NEW t, NEW U, NEW n \in Nat, t \in Seq(EntryTypes(U, n))
  PROVE  /\ Len(t) \in Nat /\ DOMAIN t = 1 .. Len(t)
         /\ \A i \in DOMAIN t : /\ t[i] \in EntryTypes(U, n)
                                /\ t[i].lit \in U \X BOOLEAN
                                /\ t[i].why \in 0 .. n - 1 /\ t[i].level \in Nat
<1>1. /\ Len(t) \in Nat /\ DOMAIN t = 1 .. Len(t)
      /\ \A i \in DOMAIN t : t[i] \in EntryTypes(U, n)
  OBVIOUS
<1>2. ASSUME NEW e \in EntryTypes(U, n)
      PROVE  e.lit \in U \X BOOLEAN /\ e.why \in 0 .. n - 1 /\ e.level \in Nat
  BY DEF EntryTypes
<1> QED
  BY <1>1, <1>2

LEMMA EntryMade ==
  ASSUME NEW U, NEW n \in Nat, NEW l \in U \X BOOLEAN, NEW why \in 0 .. n - 1,
         NEW level \in Nat
  PROVE  /\ Entry(l, why, level) \in EntryTypes(U, n)
         /\ Entry(l, why, level).lit = l /\ Entry(l, why, level).why = why
         /\ Entry(l, why, level).level = level
BY DEF Entry, EntryTypes

(* More clauses: their ids are reasons too. *)
LEMMA SoundWithMore ==
  ASSUME NEW t, NEW L, NEW U, NEW n \in Nat, NEW m \in Nat, n <= m,
         Sound(t, L, U, n)
  PROVE  Sound(t, L, U, m)
<1>1. EntryTypes(U, n) \subseteq EntryTypes(U, m)
  BY DEF EntryTypes
<1>2. t \in Seq(EntryTypes(U, m))
  BY <1>1 DEF Sound
<1> QED
  BY <1>2 DEF Sound

(* Taking back all levels above k. *)
LEMMA SoundCut ==
  ASSUME NEW t, NEW L, NEW U, NEW n \in Nat, Sound(t, L, U, n),
         NEW k \in 0 .. Len(L) - 1
  PROVE  /\ Sound(SubSeq(t, 1, L[k + 1]), SubSeq(L, 1, k), U, n)
         /\ L[k + 1] \in 0 .. Len(t)
         /\ Len(SubSeq(t, 1, L[k + 1])) = L[k + 1]
         /\ Len(SubSeq(L, 1, k)) = k
         /\ \A i \in 1 .. L[k + 1] : SubSeq(t, 1, L[k + 1])[i] = t[i]
         /\ \A i \in DOMAIN t : i <= L[k + 1] <=> t[i].level <= k
<1> DEFINE h == L[k + 1]
           c == SubSeq(t, 1, h)
           M == SubSeq(L, 1, k)
<1>1. /\ t \in Seq(EntryTypes(U, n)) /\ L \in Seq(0 .. Len(t))
      /\ OneEach(t) /\ Levelled(t, L) /\ GuessFirst(t, L)
  BY DEF Sound
<1>2. h \in 0 .. Len(t) /\ k + 1 \in DOMAIN L
  BY <1>1
<1>3. /\ c \in Seq(EntryTypes(U, n)) /\ Len(c) = h /\ DOMAIN c = 1 .. h
      /\ \A i \in 1 .. h : c[i] = t[i] /\ i \in DOMAIN t
  BY <1>1, <1>2
<1>4. /\ Len(M) = k /\ DOMAIN M = 1 .. k
      /\ \A j \in 1 .. k : M[j] = L[j] /\ j \in DOMAIN L
  BY <1>1
<1>5. \A i \in DOMAIN t : i \in Nat /\ t[i].level \in Nat
  BY <1>1, EntryIs
<1>6. \A i \in DOMAIN t : i <= h <=> t[i].level <= k
  BY <1>1, <1>2, <1>5 DEF Levelled
<1>7. M \in Seq(0 .. Len(c))
  <2>1. \A j \in 1 .. k : L[j] \in 0 .. h
    BY <1>1, <1>2, <1>4 DEF Levelled
  <2>2. M = [j \in 1 .. k |-> L[j]]
    BY <1>1, <1>4
  <2> QED
    BY <2>1, <2>2, <1>3
<1> HIDE DEF c, M, h
<1>8. OneEach(c)
  <2>1. \A i \in DOMAIN c : c[i] = t[i] /\ i \in DOMAIN t
    BY <1>3
  <2>2. OneEach(t)
    BY <1>1
  <2> QED
    BY <2>1, <2>2 DEF OneEach
<1>9. Levelled(c, M)
  BY <1>1, <1>3, <1>4, <1>5, <1>6 DEF Levelled
<1>10. GuessFirst(c, M)
  BY <1>1, <1>3, <1>4, <1>5, <1>6 DEF GuessFirst
<1> QED
  BY <1>2, <1>3, <1>4, <1>6, <1>7, <1>8, <1>9, <1>10 DEF Sound, c, M, h

(* Literals q, open and of distinct variables, are put on the trail. *)
Put(q, why, level) == [m \in DOMAIN q |-> Entry(q[m], why, level)]
Grown(t, q, why, level) == t \o Put(q, why, level)
HasPut(c, t, q, why, level) ==
  /\ \A i \in DOMAIN c \ DOMAIN t : /\ c[i].why = why /\ c[i].level = level
                                    /\ \E m \in DOMAIN q : c[i].lit = q[m]
  /\ \A m \in DOMAIN q : \E i \in DOMAIN c \ DOMAIN t : c[i].lit = q[m]

LEMMA SoundGrown ==
  ASSUME NEW t, NEW L, NEW U \in SUBSET Nat, NEW n \in Nat, Sound(t, L, U, n),
         NEW q \in Seq(U \X BOOLEAN), NEW why \in 0 .. n - 1,
         DistinctVars(q), \A m \in DOMAIN q : OpenIn(t, q[m]),
         Len(L) = 0 \/ why # 0
  PROVE  LET c == Grown(t, q, why, Len(L))
         IN  /\ Sound(c, L, U, n)
             /\ Len(c) = Len(t) + Len(q)
             /\ \A i \in DOMAIN t : c[i] = t[i]
             /\ HasPut(c, t, q, why, Len(L))
<1> DEFINE p == Put(q, why, Len(L))
           c == t \o p
<1>1. /\ t \in Seq(EntryTypes(U, n)) /\ L \in Seq(0 .. Len(t))
      /\ OneEach(t) /\ Levelled(t, L) /\ GuessFirst(t, L)
  BY DEF Sound
<1>2. /\ p \in Seq(EntryTypes(U, n)) /\ Len(p) = Len(q)
      /\ \A m \in DOMAIN q : p[m] = Entry(q[m], why, Len(L))
  <2>1. \A m \in DOMAIN q : q[m] \in U \X BOOLEAN
    OBVIOUS
  <2>2. Len(L) \in Nat
    BY <1>1
  <2>3. \A m \in DOMAIN q : Entry(q[m], why, Len(L)) \in EntryTypes(U, n)
    BY <2>1, <2>2, EntryMade
  <2> QED
    BY <2>3 DEF Put
<1>3. /\ c \in Seq(EntryTypes(U, n)) /\ Len(c) = Len(t) + Len(q)
      /\ DOMAIN c = 1 .. Len(t) + Len(q)
      /\ \A i \in DOMAIN t : c[i] = t[i]
      /\ \A m \in DOMAIN q : c[Len(t) + m] = Entry(q[m], why, Len(L))
  <2> HIDE DEF p
  <2>1. DOMAIN q = 1 .. Len(p) /\ Len(p) \in Nat
    BY <1>2
  <2>2. /\ c \in Seq(EntryTypes(U, n)) /\ Len(c) = Len(t) + Len(p)
        /\ DOMAIN c = 1 .. Len(t) + Len(p)
        /\ \A i \in DOMAIN t : c[i] = t[i]
        /\ \A m \in 1 .. Len(p) : c[Len(t) + m] = p[m]
    <3> DEFINE X == EntryTypes(U, n)
    <3>4. t \in Seq(X) /\ p \in Seq(X)
      BY <1>1, <1>2
    <3> HIDE DEF X
    <3>5. c \in Seq(X) /\ Len(c) = Len(t) + Len(p)
      BY <3>4
    <3>6. DOMAIN c = 1 .. Len(c)
      BY <3>5
    <3>1. /\ c \in Seq(EntryTypes(U, n)) /\ Len(c) = Len(t) + Len(p)
          /\ DOMAIN c = 1 .. Len(t) + Len(p)
      BY <3>5, <3>6 DEF X
    <3>2. \A i \in DOMAIN t : c[i] = t[i]
      BY <1>1, <1>2
    <3>3. \A m \in 1 .. Len(p) : c[Len(t) + m] = p[m]
      BY <1>1, <1>2, Joined
    <3> QED
      BY <3>1, <3>2, <3>3
  <2> HIDE DEF c
  <2> QED
    BY <1>2, <2>1, <2>2
<1>4. \A i \in DOMAIN c : \/ i \in DOMAIN t
                          \/ i - Len(t) \in DOMAIN q /\ i = Len(t) + (i - Len(t))
  BY <1>1, <1>3
<1>5. /\ \A i \in DOMAIN t : t[i].lit \in U \X BOOLEAN /\ t[i].level \in Nat
      /\ \A m \in DOMAIN q : q[m] \in U \X BOOLEAN
      /\ U \X BOOLEAN \subseteq NatLits
  <2>1. \A i \in DOMAIN t : t[i].lit \in U \X BOOLEAN /\ t[i].level \in Nat
    BY <1>1, EntryIs
  <2>2. \A m \in DOMAIN q : q[m] \in U \X BOOLEAN
    OBVIOUS
  <2>3. U \X BOOLEAN \subseteq NatLits
    BY DEF NatLits
  <2> QED
    BY <2>1, <2>2, <2>3
<1>6. \A i \in DOMAIN t : \A m \in DOMAIN q : t[i].lit[1] # q[m][1]
  <2> SUFFICES ASSUME NEW i \in DOMAIN t, NEW m \in DOMAIN q, t[i].lit[1] = q[m][1]
               PROVE  FALSE
    OBVIOUS
  <2>1. t[i].lit = q[m] \/ t[i].lit = Neg(q[m])
    BY <1>5, Numbered
  <2> QED
    BY <2>1 DEF OpenIn, TrueIn
<1>7. \A m \in DOMAIN q : LET e == Entry(q[m], why, Len(L))
                          IN  e.lit = q[m] /\ e.why = why /\ e.level = Len(L)
  BY DEF Entry
<1>12. /\ Len(L) \in Nat /\ Len(t) \in Nat /\ DOMAIN t = 1 .. Len(t)
       /\ DOMAIN q \subseteq Nat \ {0}
       /\ DOMAIN L = 1 .. Len(L) /\ \A k \in DOMAIN L : L[k] \in 0 .. Len(t)
  BY <1>1
<1> HIDE DEF c, p
<1>8. OneEach(c)
  <2> SUFFICES ASSUME NEW i \in DOMAIN c, NEW j \in DOMAIN c,
                      c[i].lit[1] = c[j].lit[1]
               PROVE  i = j
    BY DEF OneEach
  <2>1. CASE i \in DOMAIN t /\ j \in DOMAIN t
    BY <1>1, <1>3, <2>1 DEF OneEach
  <2>2. CASE i \in DOMAIN t /\ j \notin DOMAIN t
    BY <1>3, <1>4, <1>6, <1>7, <2>2
  <2>3. CASE i \notin DOMAIN t /\ j \in DOMAIN t
    BY <1>3, <1>4, <1>6, <1>7, <2>3
  <2>4. CASE i \notin DOMAIN t /\ j \notin DOMAIN t
    <3> DEFINE a == i - Len(t)
               b == j - Len(t)
    <3>1. a \in DOMAIN q /\ b \in DOMAIN q /\ i = Len(t) + a /\ j = Len(t) + b
      BY <1>4, <2>4
    <3> HIDE DEF a, b
    <3>2. q[a][1] = q[b][1]
      BY <1>3, <1>7, <3>1
    <3>3. a = b
      BY <3>1, <3>2 DEF DistinctVars
    <3> QED
      BY <3>1, <3>3
  <2> QED
    BY <2>1, <2>2, <2>3, <2>4
<1>14. \A i \in DOMAIN c : \/ i \in DOMAIN t /\ c[i] = t[i]
                           \/ i \notin DOMAIN t /\ c[i].why = why /\ c[i].level = Len(L)
  BY <1>3, <1>4, <1>7
<1>9. Levelled(c, L)
  <2>1. \A i \in DOMAIN c : c[i].level <= Len(L)
    <3>1. \A i \in DOMAIN t : t[i].level <= Len(L)
      BY <1>1 DEF Levelled
    <3> QED
      BY <1>12, <1>14, <3>1
  <2>2. ASSUME NEW i \in DOMAIN c, NEW k \in DOMAIN L
        PROVE  L[k] < i <=> k <= c[i].level
    <3>1. CASE i \in DOMAIN t
      BY <1>1, <1>3, <3>1 DEF Levelled
    <3>2. CASE i - Len(t) \in DOMAIN q /\ i = Len(t) + (i - Len(t))
      <4>1. c[i].level = Len(L)
        BY <1>3, <1>7, <3>2
      <4>2. i - Len(t) > 0
        BY <1>12, <3>2
      <4>3. i \in Nat
        BY <1>3, <1>12
      <4>4. L[k] < i /\ k <= Len(L)
        BY <1>12, <4>2, <4>3
      <4> QED
        BY <4>1, <4>4
    <3> QED
      BY <1>4, <3>1, <3>2
  <2> QED
    BY <1>1, <2>1, <2>2 DEF Levelled
<1>10. GuessFirst(c, L)
  <2>1. \A i \in DOMAIN t : t[i].level > 0 /\ t[i].why = 0 => i = L[t[i].level] + 1
    BY <1>1 DEF GuessFirst
  <2>2. ~ (Len(L) > 0 /\ why = 0)
    BY <1>12
  <2> QED
    BY <1>14, <2>1, <2>2 DEF GuessFirst
<1>11. L \in Seq(0 .. Len(c))
  <2>1. \A k \in DOMAIN L : L[k] \in 0 .. Len(c)
    BY <1>3, <1>12
  <2> QED
    BY <1>1, <2>1, Retyped
<1>13. HasPut(c, t, q, why, Len(L))
  <2>1. ASSUME NEW i \in DOMAIN c \ DOMAIN t
        PROVE  /\ c[i].why = why /\ c[i].level = Len(L)
               /\ \E m \in DOMAIN q : c[i].lit = q[m]
    <3> DEFINE m == i - Len(t)
    <3>1. m \in DOMAIN q /\ i = Len(t) + m
      BY <1>4
    <3> HIDE DEF m
    <3>2. c[i] = Entry(q[m], why, Len(L))
      BY <1>3, <3>1
    <3> QED
      BY <1>7, <3>1, <3>2
  <2>2. ASSUME NEW m \in DOMAIN q
        PROVE  \E i \in DOMAIN c \ DOMAIN t : c[i].lit = q[m]
    <3>1. Len(t) + m \in DOMAIN c \ DOMAIN t
      BY <1>3, <1>12
    <3> QED
      BY <1>3, <1>7, <3>1
  <2> QED
    BY <2>1, <2>2 DEF HasPut
<1> QED
  BY <1>3, <1>8, <1>9, <1>10, <1>11, <1>13 DEF Sound, Grown, c, p

(* A level is opened, with no literal of its own yet. *)
LEMMA SoundOpened ==
  ASSUME NEW t, NEW L, NEW U, NEW n \in Nat, Sound(t, L, U, n)
  PROVE  /\ Sound(t, Append(L, Len(t)), U, n)
         /\ Len(Append(L, Len(t))) = Len(L) + 1
         /\ Append(L, Len(t))[Len(L) + 1] = Len(t)
         /\ \A k \in DOMAIN L : Append(L, Len(t))[k] = L[k]
<1> DEFINE M == Append(L, Len(t))
<1>1. /\ t \in Seq(EntryTypes(U, n)) /\ L \in Seq(0 .. Len(t))
      /\ OneEach(t) /\ Levelled(t, L) /\ GuessFirst(t, L)
  BY DEF Sound
<1>2. /\ M \in Seq(0 .. Len(t)) /\ Len(M) = Len(L) + 1
      /\ DOMAIN M = 1 .. Len(L) + 1 /\ DOMAIN L = 1 .. Len(L)
      /\ M[Len(L) + 1] = Len(t) /\ \A k \in DOMAIN L : M[k] = L[k]
  BY <1>1
<1>3. /\ \A i \in DOMAIN t : i \in 1 .. Len(t) /\ t[i].level \in Nat
      /\ \A k \in DOMAIN L : L[k] \in 0 .. Len(t)
      /\ Len(L) \in Nat /\ Len(t) \in Nat
  BY <1>1, EntryIs
<1> HIDE DEF M
<1>4. Levelled(t, M)
  <2>1. ASSUME NEW i \in DOMAIN t, NEW k \in DOMAIN M
        PROVE  M[k] < i <=> k <= t[i].level
    <3>1. CASE k \in DOMAIN L
      BY <1>1, <1>2, <3>1 DEF Levelled
    <3>2. CASE k = Len(L) + 1
      BY <1>1, <1>2, <1>3, <3>2 DEF Levelled
    <3> QED
      BY <1>2, <3>1, <3>2
  <2>2. ASSUME NEW j \in DOMAIN M, NEW k \in DOMAIN M, j <= k
        PROVE  M[j] <= M[k]
    <3>1. CASE k \in DOMAIN L
      <4>1. j \in DOMAIN L
        BY <1>2, <1>3, <2>2, <3>1
      <4> QED
        BY <1>1, <1>2, <2>2, <3>1, <4>1 DEF Levelled
    <3>2. CASE k = Len(L) + 1
      BY <1>2, <1>3, <2>2, <3>2
    <3> QED
      BY <1>2, <3>1, <3>2
  <2> QED
    BY <1>1, <1>2, <1>3, <2>1, <2>2 DEF Levelled
<1>5. GuessFirst(t, M)
  BY <1>1, <1>2, <1>3 DEF GuessFirst, Levelled
<1> QED
  BY <1>1, <1>2, <1>4, <1>5 DEF Sound, M

(* A level is opened with a guess. *)
LEMMA SoundGuess ==
  ASSUME NEW t, NEW L, NEW U \in SUBSET Nat, NEW n \in Nat \ {0},
         Sound(t, L, U, n), NEW l \in U \X BOOLEAN, OpenIn(t, l)
  PROVE  /\ Sound(Append(t, Entry(l, 0, Len(L) + 1)), Append(L, Len(t)), U, n)
         /\ Len(Append(t, Entry(l, 0, Len(L) + 1))) = Len(t) + 1
         /\ \A i \in DOMAIN t : Append(t, Entry(l, 0, Len(L) + 1))[i] = t[i]
         /\ Append(t, Entry(l, 0, Len(L) + 1))[Len(t) + 1]
              = Entry(l, 0, Len(L) + 1)
         /\ Len(Append(L, Len(t))) = Len(L) + 1
<1> DEFINE M == Append(L, Len(t))
           e == Entry(l, 0, Len(L) + 1)
           c == Append(t, e)
<1>1. /\ Sound(t, M, U, n) /\ Len(M) = Len(L) + 1 /\ M[Len(L) + 1] = Len(t)
      /\ \A k \in DOMAIN L : M[k] = L[k]
  <2>1. n \in Nat
    OBVIOUS
  <2>2. Sound(t, Append(L, Len(t)), U, n)
    BY <2>1, SoundOpened
  <2>3. L \in Seq(0 .. Len(t)) /\ Len(t) \in Nat
    BY DEF Sound
  <2>4. /\ Len(Append(L, Len(t))) = Len(L) + 1
        /\ Append(L, Len(t))[Len(L) + 1] = Len(t)
        /\ \A k \in DOMAIN L : Append(L, Len(t))[k] = L[k]
    BY <2>3
  <2> QED
    BY <2>2, <2>4
<1>2. /\ t \in Seq(EntryTypes(U, n)) /\ M \in Seq(0 .. Len(t))
      /\ OneEach(t) /\ Levelled(t, M) /\ GuessFirst(t, M)
      /\ L \in Seq(0 .. Len(t))
  BY <1>1 DEF Sound
<1>3. /\ e \in EntryTypes(U, n) /\ e.lit = l /\ e.why = 0 /\ e.level = Len(L) + 1
  <2>1. n \in Nat /\ 0 \in 0 .. n - 1 /\ l \in U \X BOOLEAN
    OBVIOUS
  <2>2. Len(L) + 1 \in Nat
    BY <1>2
  <2> QED
    BY <2>1, <2>2, EntryMade
<1>4. /\ c \in Seq(EntryTypes(U, n)) /\ Len(c) = Len(t) + 1
      /\ DOMAIN c = 1 .. Len(t) + 1
      /\ \A i \in DOMAIN t : c[i] = t[i]
      /\ c[Len(t) + 1] = e
  BY <1>2, <1>3
<1>5. /\ \A i \in DOMAIN t : t[i].lit \in U \X BOOLEAN /\ t[i].level \in Nat
      /\ U \X BOOLEAN \subseteq NatLits
      /\ \A i \in DOMAIN t : i \in 1 .. Len(t)
      /\ Len(L) \in Nat /\ Len(t) \in Nat
  <2>1. \A i \in DOMAIN t : t[i].lit \in U \X BOOLEAN /\ t[i].level \in Nat
    BY <1>2, EntryIs
  <2>2. U \X BOOLEAN \subseteq NatLits
    BY DEF NatLits
  <2> QED
    BY <1>2, <2>1, <2>2
<1>6. \A i \in DOMAIN t : t[i].lit[1] # l[1]
  <2> SUFFICES ASSUME NEW i \in DOMAIN t, t[i].lit[1] = l[1]
               PROVE  FALSE
    OBVIOUS
  <2>1. t[i].lit = l \/ t[i].lit = Neg(l)
    BY <1>5, Numbered
  <2> QED
    BY <2>1 DEF OpenIn, TrueIn
<1>7. \A i \in DOMAIN c : i \in DOMAIN t \/ i = Len(t) + 1
  BY <1>2, <1>4
<1>8. DOMAIN M = 1 .. Len(L) + 1 /\ \A k \in DOMAIN M : M[k] \in 0 .. Len(t)
  BY <1>1, <1>2
<1> HIDE DEF c, e, M
<1>9. OneEach(c)
  BY <1>2, <1>3, <1>4, <1>6, <1>7 DEF OneEach
<1>10. Levelled(c, M)
  <2>1. ASSUME NEW i \in DOMAIN c, NEW k \in DOMAIN M
        PROVE  M[k] < i <=> k <= c[i].level
    <3>1. CASE i \in DOMAIN t
      BY <1>2, <1>4, <3>1 DEF Levelled
    <3>2. CASE i = Len(t) + 1
      BY <1>3, <1>4, <1>5, <1>8, <3>2
    <3> QED
      BY <1>7, <3>1, <3>2
  <2>2. \A i \in DOMAIN c : c[i].level <= Len(M)
    <3>1. \A i \in DOMAIN t : t[i].level <= Len(M)
      BY <1>2 DEF Levelled
    <3>2. Len(M) = Len(L) + 1 /\ Len(L) + 1 <= Len(M)
      BY <1>1, <1>5
    <3>3. \A i \in DOMAIN c : (c[i] = t[i] /\ i \in DOMAIN t) \/ c[i] = e
      BY <1>4, <1>7
    <3> QED
      BY <1>3, <3>1, <3>2, <3>3
  <2> QED
    BY <1>2, <2>1, <2>2 DEF Levelled
<1>11. GuessFirst(c, M)
  <2> SUFFICES ASSUME NEW i \in DOMAIN c, c[i].level > 0, c[i].why = 0
               PROVE  i = M[c[i].level] + 1
    BY DEF GuessFirst
  <2>1. CASE i \in DOMAIN t
    BY <1>2, <1>4, <2>1 DEF GuessFirst
  <2>2. CASE i = Len(t) + 1
    BY <1>1, <1>3, <1>4, <2>2
  <2> QED
    BY <1>7, <2>1, <2>2
<1>12. M \in Seq(0 .. Len(c))
  <2>1. \A k \in DOMAIN M : M[k] \in 0 .. Len(c)
    BY <1>4, <1>5, <1>8
  <2> QED
    BY <1>2, <2>1, Retyped
<1> QED
  BY <1>1, <1>4, <1>9, <1>10, <1>11, <1>12 DEF Sound, c, e, M

(* All literals become facts. *)
LEMMA SoundFacts ==
  ASSUME NEW t, NEW L, NEW U, NEW n \in Nat, Sound(t, L, U, n)
  PROVE  LET c == [i \in DOMAIN t |-> [t[i] EXCEPT !.level = 0]]
         IN  /\ Sound(c, << >>, U, n) /\ Len(c) = Len(t)
             /\ \A i \in DOMAIN t : /\ c[i].lit = t[i].lit /\ c[i].why = t[i].why
                                    /\ c[i].level = 0
<1> DEFINE c == [i \in DOMAIN t |-> [t[i] EXCEPT !.level = 0]]
<1>1. t \in Seq(EntryTypes(U, n)) /\ OneEach(t)
  BY DEF Sound
<1>2. \A i \in DOMAIN t : /\ c[i] \in EntryTypes(U, n)
                          /\ c[i].lit = t[i].lit /\ c[i].why = t[i].why
                          /\ c[i].level = 0
  <2>1. ASSUME NEW e \in EntryTypes(U, n)
        PROVE  LET f == [e EXCEPT !.level = 0]
               IN  /\ f \in EntryTypes(U, n)
                   /\ f.lit = e.lit /\ f.why = e.why /\ f.level = 0
    BY DEF EntryTypes
  <2> QED
    BY <1>1, <2>1, EntryIs
<1>3. c \in Seq(EntryTypes(U, n)) /\ Len(c) = Len(t) /\ DOMAIN c = DOMAIN t
  <2>1. c = [i \in 1 .. Len(t) |-> c[i]]
    BY <1>1
  <2> QED
    BY <1>1, <1>2, <2>1
<1> HIDE DEF c
<1>4. OneEach(c)
  BY <1>1, <1>2, <1>3 DEF OneEach
<1>5. Levelled(c, << >>) /\ GuessFirst(c, << >>)
  BY <1>2, <1>3 DEF Levelled, GuessFirst
<1>6. << >> \in Seq(0 .. Len(c))
  OBVIOUS
<1> QED
  BY <1>2, <1>3, <1>4, <1>5, <1>6 DEF Sound, c

---------------------------------------------------------------------------
(* Clauses cl with the watch lists w.                                      *)
Clauses(U) == [lits : Seq(U \X BOOLEAN), kind : {"clause", "single", "learnt"}]
Clean(c, U) == c \in Clauses(U) /\ LongEnough(c) /\ DistinctVars(c.lits)
ClausesOf(cl, U, n) == /\ DOMAIN cl \subseteq 1 .. n - 1
                       /\ \A i \in DOMAIN cl : Clean(cl[i], U)
(* No list has a clause twice, or one that does not watch its literal.     *)
NoneTwice(q) == \A m, n \in DOMAIN q : q[m] = q[n] => m = n
Exact(w, cl) ==
  \A l \in Lits : /\ NoneTwice(w[l])
                  /\ \A i \in Range(w[l]) : i \in DOMAIN cl /\ Neg(l) \in Watched(cl[i])
ListsOf(w, cl, n) == w \in [Lits -> Seq(1 .. n - 1)] /\ Exact(w, cl)
(* A clause is in the lists of all literals that it watches. *)
Listed(w, cl) ==
  \A i \in DOMAIN cl : \A l \in Watched(cl[i]) : i \in Range(w[Neg(l)])

LEMMA Appended ==
  ASSUME NEW X, NEW q \in Seq(X), NEW e \in X
  PROVE  /\ Append(q, e) \in Seq(X) /\ Len(Append(q, e)) = Len(q) + 1
         /\ \A m \in DOMAIN q : Append(q, e)[m] = q[m]
         /\ Append(q, e)[Len(q) + 1] = e
         /\ Range(Append(q, e)) = Range(q) \cup {e}
         /\ NoneTwice(q) /\ e \notin Range(q) => NoneTwice(Append(q, e))
<1> DEFINE r == Append(q, e)
<1>1. /\ r \in Seq(X) /\ DOMAIN r = 1 .. Len(q) + 1 /\ Len(r) = Len(q) + 1
      /\ \A m \in DOMAIN q : r[m] = q[m]
      /\ r[Len(q) + 1] = e
  OBVIOUS
<1>2. Len(q) \in Nat /\ DOMAIN q = 1 .. Len(q)
  OBVIOUS
<1> HIDE DEF r
<1>3. \A m : m \in DOMAIN r <=> m \in DOMAIN q \/ m = Len(q) + 1
  BY <1>1, <1>2
<1>4. Range(r) = Range(q) \cup {e}
  BY <1>1, <1>3 DEF Range
<1>5. ASSUME NoneTwice(q), e \notin Range(q)
      PROVE  NoneTwice(r)
  BY <1>1, <1>3, <1>5 DEF NoneTwice, Range
<1> QED
  BY <1>1, <1>4, <1>5 DEF r

LEMMA LitFacts ==
  /\ Lits \subseteq NatLits
  /\ \A l \in Lits : Neg(l) \in Lits /\ Neg(Neg(l)) = l /\ Neg(l) # l
  /\ \A l, m \in Lits : Neg(l) = Neg(m) => l = m
<1>1. Lits \subseteq NatLits
  BY VarsAssumption DEF Lits, NatLits
<1>2. \A l \in Lits : l[1] \in Vars /\ l[2] \in BOOLEAN
  BY DEF Lits
<1>3. ASSUME NEW l \in Lits PROVE Neg(l) \in Lits
  BY <1>2 DEF Neg, Lits
<1>4. \A l \in Lits : Neg(Neg(l)) = l /\ Neg(l) # l
  BY <1>1, Numbered
<1> QED
  BY <1>1, <1>3, <1>4

(* What a clause watches are literals of it. *)
LEMMA WatchedIs ==
  ASSUME NEW U \in SUBSET Vars, NEW c, Clean(c, U)
  PROVE  /\ c.lits \in Seq(U \X BOOLEAN) /\ Len(c.lits) \in Nat \ {0, 1}
         /\ DOMAIN c.lits = 1 .. Len(c.lits)
         /\ c.kind = "single" => Len(c.lits) > 2
         /\ DistinctVars(c.lits)
         /\ \A k \in DOMAIN c.lits : c.lits[k] \in Lits
         /\ \A l \in Watched(c) : l \in Lits
         /\ \A l : l \in Watched(c) <=>
              \E k \in DOMAIN c.lits : /\ c.lits[k] = l
                                       /\ c.kind = "single" => k < Len(c.lits)
                                       /\ c.kind # "single" => k <= 2
<1>1. c.lits \in Seq(U \X BOOLEAN) /\ c.kind \in {"clause", "single", "learnt"}
  BY DEF Clean, Clauses
<1>2. /\ Len(c.lits) \in Nat /\ DOMAIN c.lits = 1 .. Len(c.lits)
      /\ \A k \in DOMAIN c.lits : c.lits[k] \in U \X BOOLEAN
  BY <1>1
<1>3. U \X BOOLEAN \subseteq Lits
  BY DEF Lits
<1>4. Len(c.lits) > (IF c.kind = "single" THEN 2 ELSE 1)
  BY DEF Clean, LongEnough
<1>5. DistinctVars(c.lits)
  BY DEF Clean
<1>6. \A l : l \in Watched(c) <=>
              \E k \in DOMAIN c.lits : /\ c.lits[k] = l
                                       /\ c.kind = "single" => k < Len(c.lits)
                                       /\ c.kind # "single" => k <= 2
  BY <1>2, <1>4 DEF Watched
<1> QED
  BY <1>1, <1>2, <1>3, <1>4, <1>5, <1>6

(* A clause is added, and put in the lists of the literals that it watches. *)
WithMore(cl, n, c) == [i \in DOMAIN cl \cup {n} |-> IF i = n THEN c ELSE cl[i]]

LEMMA ListsWithMore ==
  ASSUME NEW cl, NEW w, NEW U \in SUBSET Vars, NEW n \in Nat \ {0},
         ClausesOf(cl, U, n), ListsOf(w, cl, n), NEW c, Clean(c, U)
  PROVE  LET all == WithMore(cl, n, c)
             lists == Attached(w, n, c)
         IN  /\ ClausesOf(all, U, n + 1) /\ ListsOf(lists, all, n + 1)
             /\ Listed(w, cl) => Listed(lists, all)
<1> DEFINE all == WithMore(cl, n, c)
           lists == Attached(w, n, c)
<1>1. /\ DOMAIN cl \subseteq 1 .. n - 1 /\ n \notin DOMAIN cl
      /\ \A i \in DOMAIN cl : Clean(cl[i], U)
  BY DEF ClausesOf
<1>2. /\ DOMAIN all = DOMAIN cl \cup {n} /\ all[n] = c
      /\ \A i \in DOMAIN cl : all[i] = cl[i]
  BY <1>1 DEF WithMore
<1>3. w \in [Lits -> Seq(1 .. n - 1)] /\ Exact(w, cl)
  BY DEF ListsOf
<1>4. ClausesOf(all, U, n + 1)
  BY <1>1, <1>2 DEF ClausesOf
<1>5. ASSUME NEW l \in Lits
      PROVE  /\ lists[l] \in Seq(1 .. n)
             /\ Neg(l) \in Watched(c) =>
                  /\ Range(lists[l]) = Range(w[l]) \cup {n}
                  /\ NoneTwice(w[l]) => NoneTwice(lists[l])
             /\ Neg(l) \notin Watched(c) => lists[l] = w[l]
  <2>1. w[l] \in Seq(1 .. n - 1)
    BY <1>3
  <2>2. \A k \in DOMAIN w[l] : w[l][k] \in 1 .. n /\ w[l][k] # n
    BY <2>1
  <2>3. w[l] \in Seq(1 .. n) /\ n \notin Range(w[l])
    BY <2>1, <2>2, Retyped DEF Range
  <2>4. lists[l] = IF Neg(l) \in Watched(c) THEN Append(w[l], n) ELSE w[l]
    BY DEF Attached
  <2>5. n \in 1 .. n
    OBVIOUS
  <2> HIDE DEF lists
  <2>6. CASE Neg(l) \in Watched(c)
    BY <2>3, <2>4, <2>5, <2>6, Appended
  <2>7. CASE Neg(l) \notin Watched(c)
    BY <2>3, <2>4, <2>7
  <2> QED
    BY <2>6, <2>7
<1>6. lists \in [Lits -> Seq(1 .. n + 1 - 1)]
  <2>1. lists = [l \in Lits |-> lists[l]]
    BY DEF Attached
  <2>2. n + 1 - 1 = n
    OBVIOUS
  <2> HIDE DEF lists
  <2> QED
    BY <1>5, <2>1, <2>2
<1> HIDE DEF lists, all
<1>8. Exact(lists, all)
  <2> SUFFICES ASSUME NEW l \in Lits
               PROVE  /\ NoneTwice(lists[l])
                      /\ \A i \in Range(lists[l]) :
                           i \in DOMAIN all /\ Neg(l) \in Watched(all[i])
    BY DEF Exact
  <2>1. /\ NoneTwice(w[l])
        /\ \A i \in Range(w[l]) : i \in DOMAIN cl /\ Neg(l) \in Watched(cl[i])
    BY <1>3 DEF Exact
  <2> QED
    BY <1>2, <1>5, <2>1
<1>9. ASSUME Listed(w, cl) PROVE Listed(lists, all)
  <2> SUFFICES ASSUME NEW i \in DOMAIN all, NEW l \in Watched(all[i])
               PROVE  i \in Range(lists[Neg(l)])
    BY DEF Listed
  <2>1. l \in Lits /\ Neg(l) \in Lits /\ Neg(Neg(l)) = l
    BY <1>1, <1>2, WatchedIs, LitFacts
  <2>2. CASE i = n
    BY <1>2, <1>5, <2>1, <2>2
  <2>3. CASE i \in DOMAIN cl
    <3>1. i \in Range(w[Neg(l)])
      BY <1>2, <1>9, <2>3 DEF Listed
    <3> QED
      BY <1>5, <2>1, <3>1
  <2> QED
    BY <1>2, <2>2, <2>3
<1> QED
  BY <1>4, <1>6, <1>8, <1>9 DEF ListsOf, lists, all

(* The literals of a clause are put in another order, but those watched    *)
(* stay the same ones.                                                     *)
LEMMA ListsReordered ==
  ASSUME NEW cl, NEW w, NEW U \in SUBSET Vars, NEW n \in Nat \ {0},
         ClausesOf(cl, U, n), ListsOf(w, cl, n), NEW id \in DOMAIN cl,
         NEW q, Clean([cl[id] EXCEPT !.lits = q], U),
         Watched([cl[id] EXCEPT !.lits = q]) = Watched(cl[id])
  PROVE  LET all == [cl EXCEPT ![id].lits = q]
         IN  /\ ClausesOf(all, U, n) /\ ListsOf(w, all, n)
             /\ Listed(w, cl) => Listed(w, all)
<1> DEFINE all == [cl EXCEPT ![id].lits = q]
           c == [cl[id] EXCEPT !.lits = q]
<1>1. /\ DOMAIN cl \subseteq 1 .. n - 1
      /\ \A i \in DOMAIN cl : Clean(cl[i], U)
  BY DEF ClausesOf
<1>2. /\ DOMAIN all = DOMAIN cl /\ all[id] = c
      /\ \A i \in DOMAIN cl : i # id => all[i] = cl[i]
  OBVIOUS
<1>3. Clean(c, U) /\ Watched(c) = Watched(cl[id])
  OBVIOUS
<1>4. w \in [Lits -> Seq(1 .. n - 1)] /\ Exact(w, cl)
  BY DEF ListsOf
<1> HIDE DEF all, c
<1>5. \A i \in DOMAIN cl : Clean(all[i], U) /\ Watched(all[i]) = Watched(cl[i])
  BY <1>1, <1>2, <1>3
<1>6. ClausesOf(all, U, n)
  BY <1>1, <1>2, <1>5 DEF ClausesOf
<1>7. Exact(w, all)
  BY <1>2, <1>4, <1>5 DEF Exact
<1>8. Listed(w, cl) => Listed(w, all)
  BY <1>2, <1>5 DEF Listed
<1> QED
  BY <1>4, <1>6, <1>7, <1>8 DEF ListsOf, all

(* A clause is taken from a list. *)
LEMMA ListsShortened ==
  ASSUME NEW cl, NEW w, NEW n \in Nat \ {0}, ListsOf(w, cl, n),
         NEW p \in Lits, NEW k \in DOMAIN w[p]
  PROVE  LET lists == [w EXCEPT ![p] = Without(@, k)]
         IN  /\ ListsOf(lists, cl, n)
             /\ \A l \in Lits : l # p => lists[l] = w[l]
             /\ Range(lists[p]) = Range(w[p]) \ {w[p][k]}
<1> DEFINE lists == [w EXCEPT ![p] = Without(@, k)]
           r == Without(w[p], k)
<1>1. w \in [Lits -> Seq(1 .. n - 1)] /\ Exact(w, cl)
  BY DEF ListsOf
<1>2. w[p] \in Seq(1 .. n - 1) /\ NoneTwice(w[p])
  BY <1>1 DEF Exact
<1>3. r \in Seq(1 .. n - 1)
  BY <1>2, LeftOut
<1>4. /\ NoneTwice(r)
      /\ \A i \in DOMAIN r : /\ r[i] # w[p][k]
                             /\ \E m \in DOMAIN w[p] : r[i] = w[p][m]
      /\ \A m \in DOMAIN w[p] : m # k => \E i \in DOMAIN r : r[i] = w[p][m]
  <2>1. \A m, i \in DOMAIN w[p] : w[p][m] = w[p][i] => m = i
    BY <1>2 DEF NoneTwice
  <2> QED
    BY <1>2, <2>1, LeftOutKeeps DEF NoneTwice
<1> HIDE DEF r
<1>5. /\ lists \in [Lits -> Seq(1 .. n - 1)] /\ lists[p] = r
      /\ \A l \in Lits : l # p => lists[l] = w[l]
  BY <1>1, <1>3 DEF r
<1> HIDE DEF lists
<1>7. Range(r) = Range(w[p]) \ {w[p][k]}
  BY <1>4 DEF Range
<1>6. Exact(lists, cl)
  <2> SUFFICES ASSUME NEW l \in Lits
               PROVE  /\ NoneTwice(lists[l])
                      /\ \A i \in Range(lists[l]) :
                           i \in DOMAIN cl /\ Neg(l) \in Watched(cl[i])
    BY DEF Exact
  <2>1. /\ NoneTwice(w[l])
        /\ \A i \in Range(w[l]) : i \in DOMAIN cl /\ Neg(l) \in Watched(cl[i])
    BY <1>1 DEF Exact
  <2> QED
    BY <1>4, <1>5, <1>7, <2>1
<1> QED
  BY <1>5, <1>6, <1>7 DEF ListsOf, lists, r

(* A clause goes from the list of one literal that it watches to that of   *)
(* another, which it watches from now on.                                  *)
LEMMA ListsMoved ==
  ASSUME NEW cl, NEW w, NEW U \in SUBSET Vars, NEW n \in Nat \ {0},
         ClausesOf(cl, U, n), ListsOf(w, cl, n),
         NEW p \in Lits, NEW k \in DOMAIN w[p],
         NEW q, Clean([cl[w[p][k]] EXCEPT !.lits = q], U),
         NEW l \in Lits, l \notin Watched(cl[w[p][k]]),
         Watched([cl[w[p][k]] EXCEPT !.lits = q])
           = (Watched(cl[w[p][k]]) \ {Neg(p)}) \cup {l}
  PROVE  LET id == w[p][k]
             all == [cl EXCEPT ![id].lits = q]
             lists == [w EXCEPT ![p] = Without(@, k), ![Neg(l)] = Append(@, id)]
         IN  /\ id \in DOMAIN cl /\ ClausesOf(all, U, n) /\ ListsOf(lists, all, n)
             /\ Listed(w, cl) => Listed(lists, all)
<1> DEFINE id == w[p][k]
           all == [cl EXCEPT ![id].lits = q]
           c == [cl[id] EXCEPT !.lits = q]
           r == [w EXCEPT ![p] = Without(@, k)]
           lists == [w EXCEPT ![p] = Without(@, k), ![Neg(l)] = Append(@, id)]
<1>1. /\ ListsOf(r, cl, n)
      /\ \A m \in Lits : m # p => r[m] = w[m]
      /\ Range(r[p]) = Range(w[p]) \ {id}
  BY ListsShortened
<1>2. /\ w \in [Lits -> Seq(1 .. n - 1)] /\ Exact(w, cl)
      /\ r \in [Lits -> Seq(1 .. n - 1)] /\ Exact(r, cl)
  BY <1>1 DEF ListsOf
<1>3. id \in Range(w[p])
  BY DEF Range
<1>4. id \in DOMAIN cl /\ Neg(p) \in Watched(cl[id]) /\ id \in 1 .. n - 1
  BY <1>2, <1>3 DEF Exact, ClausesOf
<1>5. Neg(l) \in Lits /\ Neg(l) # p /\ Neg(Neg(l)) = l /\ Neg(Neg(p)) = p
  BY <1>4, LitFacts
<1>6. lists = [r EXCEPT ![Neg(l)] = Append(@, id)]
  BY <1>2, <1>5
<1>7. /\ DOMAIN cl \subseteq 1 .. n - 1
      /\ \A i \in DOMAIN cl : Clean(cl[i], U)
  BY DEF ClausesOf
<1>8. /\ DOMAIN all = DOMAIN cl /\ all[id] = c
      /\ \A i \in DOMAIN cl : i # id => all[i] = cl[i]
  BY <1>4
<1>9. Clean(c, U) /\ Watched(c) = (Watched(cl[id]) \ {Neg(p)}) \cup {l}
  OBVIOUS
<1>10. l \notin Watched(cl[id])
  OBVIOUS
<1> HIDE DEF id, all, c, r
<1>11. ClausesOf(all, U, n)
  BY <1>7, <1>8, <1>9 DEF ClausesOf
<1>12. id \notin Range(r[Neg(l)])
  BY <1>2, <1>5, <1>10 DEF Exact
<1>13. \A m \in Lits : NoneTwice(r[m]) /\ r[m] \in Seq(1 .. n - 1)
  BY <1>2 DEF Exact
<1>14. LET e == Append(r[Neg(l)], id)
       IN  e \in Seq(1 .. n - 1) /\ Range(e) = Range(r[Neg(l)]) \cup {id} /\ NoneTwice(e)
  BY <1>4, <1>5, <1>12, <1>13, Appended
<1>15. /\ lists \in [Lits -> Seq(1 .. n - 1)]
       /\ lists[Neg(l)] = Append(r[Neg(l)], id)
       /\ \A m \in Lits : m # Neg(l) => lists[m] = r[m]
  <2> HIDE DEF lists
  <2> QED
    BY <1>2, <1>5, <1>6, <1>14
<1> HIDE DEF lists
<1>16. Exact(lists, all)
  <2> SUFFICES ASSUME NEW m \in Lits
               PROVE  /\ NoneTwice(lists[m])
                      /\ \A i \in Range(lists[m]) :
                           i \in DOMAIN all /\ Neg(m) \in Watched(all[i])
    BY DEF Exact
  <2>1. NoneTwice(lists[m])
    BY <1>13, <1>14, <1>15
  <2> SUFFICES ASSUME NEW i \in Range(lists[m])
               PROVE  i \in DOMAIN all /\ Neg(m) \in Watched(all[i])
    BY <2>1
  <2>2. CASE m = Neg(l) /\ i = id
    BY <1>4, <1>5, <1>8, <1>9, <2>2
  <2>3. CASE i \in Range(r[m])
    <3>1. i \in DOMAIN cl /\ Neg(m) \in Watched(cl[i])
      BY <1>2, <2>3 DEF Exact
    <3>2. CASE i # id
      BY <1>8, <3>1, <3>2
    <3>3. CASE i = id
      <4>1. m # p
        BY <1>1, <2>3, <3>3
      <4>2. Neg(m) # Neg(p)
        BY <4>1, LitFacts
      <4> QED
        BY <1>8, <1>9, <3>1, <3>3, <4>2
    <3> QED
      BY <3>2, <3>3
  <2> QED
    BY <1>14, <1>15, <2>2, <2>3
<1>17. ASSUME Listed(w, cl) PROVE Listed(lists, all)
  <2> SUFFICES ASSUME NEW i \in DOMAIN all, NEW m \in Watched(all[i])
               PROVE  i \in Range(lists[Neg(m)])
    BY DEF Listed
  <2>1. m \in Lits /\ Neg(m) \in Lits /\ Neg(Neg(m)) = m
    <3>1. Clean(all[i], U)
      BY <1>7, <1>8, <1>9
    <3> QED
      BY <3>1, WatchedIs, LitFacts
  <2>2. Range(r[Neg(m)]) \subseteq Range(lists[Neg(m)])
    BY <1>14, <1>15, <2>1
  <2>3. CASE i # id
    <3>1. i \in Range(w[Neg(m)])
      BY <1>8, <1>17, <2>3 DEF Listed
    <3>2. i \in Range(r[Neg(m)])
      BY <1>1, <2>1, <2>3, <3>1
    <3> QED
      BY <2>2, <3>2
  <2>4. CASE i = id /\ m = l
    BY <1>14, <1>15, <2>4
  <2>5. CASE i = id /\ m # l
    <3>1. m \in Watched(cl[id]) /\ m # Neg(p)
      BY <1>8, <1>9, <2>5
    <3>2. i \in Range(w[Neg(m)])
      BY <1>4, <1>17, <2>5, <3>1 DEF Listed
    <3>3. Neg(m) # p
      BY <2>1, <3>1
    <3> QED
      BY <1>1, <2>1, <2>2, <3>2, <3>3
  <2> QED
    BY <2>3, <2>4, <2>5
<1> QED
  BY <1>4, <1>11, <1>15, <1>16, <1>17 DEF ListsOf, lists, all, id

(* Clauses are deleted, and taken from all lists. *)
Those(cl, S) == [i \in S |-> cl[i]]
ListsLess(w, S) ==
  [l \in Lits |-> Chosen(w[l], {k \in DOMAIN w[l] : w[l][k] \notin S})]

LEMMA ListsWithout ==
  ASSUME NEW cl, NEW w, NEW U, NEW n \in Nat \ {0},
         ClausesOf(cl, U, n), ListsOf(w, cl, n), NEW S
  PROVE  LET all == Those(cl, DOMAIN cl \ S)
             lists == ListsLess(w, S)
         IN  /\ ClausesOf(all, U, n) /\ ListsOf(lists, all, n)
             /\ Listed(w, cl) /\ (U \subseteq Vars) => Listed(lists, all)
<1> DEFINE all == Those(cl, DOMAIN cl \ S)
           stay(l) == {k \in DOMAIN w[l] : w[l][k] \notin S}
           lists == ListsLess(w, S)
<1>1. w \in [Lits -> Seq(1 .. n - 1)] /\ Exact(w, cl)
  BY DEF ListsOf
<1>2. DOMAIN all = DOMAIN cl \ S /\ \A i \in DOMAIN all : all[i] = cl[i]
  BY DEF Those
<1>3. ASSUME NEW l \in Lits
      PROVE  /\ lists[l] \in Seq(1 .. n - 1)
             /\ NoneTwice(lists[l])
             /\ Range(lists[l]) = Range(w[l]) \ S
  <2> DEFINE c == Chosen(w[l], stay(l))
  <2>1. lists[l] = c /\ w[l] \in Seq(1 .. n - 1) /\ stay(l) \in SUBSET DOMAIN w[l]
    BY <1>1 DEF ListsLess
  <2>2. \A k : k \in stay(l) <=> k \in DOMAIN w[l] /\ w[l][k] \notin S
    OBVIOUS
  <2> HIDE DEF stay, lists
  <2>3. c \in Seq(1 .. n - 1) /\ \E f : ChosenAt(c, f, w[l], stay(l))
    BY <2>1, ChosenPlaces
  <2>4. PICK f : ChosenAt(c, f, w[l], stay(l))
    BY <2>3
  <2> HIDE DEF c
  <2>5. /\ \A k \in DOMAIN c : f[k] \in stay(l) /\ c[k] = w[l][f[k]]
        /\ \A j, k \in DOMAIN c : j < k => f[j] < f[k]
        /\ \A i \in stay(l) : \E k \in DOMAIN c : f[k] = i
    BY <2>4 DEF ChosenAt
  <2>6. Range(c) = Range(w[l]) \ S
    BY <2>2, <2>5 DEF Range
  <2>7. NoneTwice(c)
    <3> SUFFICES ASSUME NEW j \in DOMAIN c, NEW k \in DOMAIN c, c[j] = c[k]
                 PROVE  j = k
      BY DEF NoneTwice
    <3>1. f[j] = f[k]
      BY <1>1, <2>2, <2>5 DEF Exact, NoneTwice
    <3>2. j \in Nat /\ k \in Nat /\ f[j] \in Nat
      <4>1. \A i \in DOMAIN w[l] : i \in Nat
        BY <2>1
      <4>2. \A i \in DOMAIN c : i \in Nat
        BY <2>3
      <4>3. f[j] \in DOMAIN w[l]
        BY <2>2, <2>5
      <4> QED
        BY <4>1, <4>2, <4>3
    <3> QED
      BY <2>5, <3>1, <3>2
  <2> QED
    BY <2>1, <2>3, <2>6, <2>7
<1>4. lists \in [Lits -> Seq(1 .. n - 1)]
  <2>1. lists = [l \in Lits |-> lists[l]]
    BY DEF ListsLess
  <2> HIDE DEF lists
  <2> QED
    BY <1>3, <2>1
<1> HIDE DEF lists, all
<1>5. ClausesOf(all, U, n)
  BY <1>2 DEF ClausesOf
<1>6. Exact(lists, all)
  BY <1>1, <1>2, <1>3 DEF Exact
<1>7. ASSUME Listed(w, cl), U \subseteq Vars PROVE Listed(lists, all)
  <2> SUFFICES ASSUME NEW i \in DOMAIN all, NEW l \in Watched(all[i])
               PROVE  i \in Range(lists[Neg(l)])
    BY DEF Listed
  <2>1. i \in DOMAIN cl /\ i \notin S /\ l \in Watched(cl[i]) /\ Clean(cl[i], U)
    BY <1>2 DEF ClausesOf
  <2>2. Neg(l) \in Lits
    BY <1>7, <2>1, WatchedIs, LitFacts
  <2> QED
    BY <1>3, <1>7, <2>1, <2>2 DEF Listed
<1> QED
  BY <1>4, <1>5, <1>6, <1>7 DEF ListsOf, lists, all

(* Lists made anew. *)
ListsOver(cl, S, key) ==
  [l \in Lits |-> Sorted({i \in S : Neg(l) \in Watched(cl[i])}, key)]

LEMMA ListsAnew ==
  ASSUME NEW cl, NEW U \in SUBSET Vars, NEW n \in Nat \ {0}, ClausesOf(cl, U, n),
         NEW S \in SUBSET DOMAIN cl, NEW key,
         \A i \in S : key[i] \in Int,
         \A i, j \in S : key[i] = key[j] => i = j
  PROVE  LET all == Those(cl, S)
             lists == ListsOver(cl, S, key)
         IN  ClausesOf(all, U, n) /\ ListsOf(lists, all, n) /\ Listed(lists, all)
<1> DEFINE all == Those(cl, S)
           K(l) == {i \in S : Neg(l) \in Watched(cl[i])}
           lists == ListsOver(cl, S, key)
<1>1. DOMAIN all = S /\ \A i \in S : all[i] = cl[i] /\ i \in DOMAIN cl
  BY DEF Those
<1>2. S \subseteq 1 .. n - 1 /\ IsFiniteSet(1 .. n - 1)
  BY FS_Interval DEF ClausesOf
<1>3. ASSUME NEW l \in Lits
      PROVE  /\ lists[l] \in Seq(1 .. n - 1)
             /\ NoneTwice(lists[l])
             /\ Range(lists[l]) = K(l)
  <2> DEFINE q == Sorted(K(l), key)
  <2>1. lists[l] = q /\ K(l) \subseteq S
    BY DEF ListsOver
  <2> HIDE DEF K, lists
  <2>2. Keyed(K(l), key)
    <3>1. IsFiniteSet(K(l))
      BY <1>2, <2>1, FS_Subset
    <3> QED
      BY <2>1, <3>1 DEF Keyed
  <2>3. InOrderOf(q, K(l), key)
    BY <2>2, SortedIs
  <2> HIDE DEF q
  <2>4. /\ q \in Seq(K(l))
        /\ \A i, j \in DOMAIN q : i < j => key[q[i]] < key[q[j]]
        /\ \A x \in K(l) : \E k \in DOMAIN q : q[k] = x
    BY <2>3 DEF InOrderOf
  <2>5. \A k \in DOMAIN q : q[k] \in K(l) /\ q[k] \in 1 .. n - 1 /\ k \in Nat
    BY <1>2, <2>1, <2>4
  <2>6. q \in Seq(1 .. n - 1)
    BY <2>4, <2>5, Retyped
  <2>7. Range(q) = K(l)
    BY <2>4, <2>5 DEF Range
  <2>8. NoneTwice(q)
    <3> SUFFICES ASSUME NEW i \in DOMAIN q, NEW j \in DOMAIN q, q[i] = q[j]
                 PROVE  i = j
      BY DEF NoneTwice
    <3>1. key[q[i]] \in Int /\ key[q[i]] = key[q[j]]
      BY <2>1, <2>5
    <3>2. ~ (i < j) /\ ~ (j < i)
      BY <2>4, <3>1
    <3> QED
      BY <2>5, <3>2
  <2> QED
    BY <2>1, <2>6, <2>7, <2>8
<1>4. lists \in [Lits -> Seq(1 .. n - 1)]
  <2>1. lists = [l \in Lits |-> lists[l]]
    BY DEF ListsOver
  <2> HIDE DEF lists
  <2> QED
    BY <1>3, <2>1
<1>5. \A l, i : i \in K(l) <=> i \in S /\ Neg(l) \in Watched(cl[i])
  OBVIOUS
<1> HIDE DEF lists, all, K
<1>6. ClausesOf(all, U, n)
  BY <1>1, <1>2 DEF ClausesOf
<1>7. Exact(lists, all)
  BY <1>1, <1>3, <1>5 DEF Exact
<1>8. Listed(lists, all)
  <2> SUFFICES ASSUME NEW i \in S, NEW l \in Watched(cl[i])
               PROVE  i \in Range(lists[Neg(l)])
    BY <1>1 DEF Listed
  <2>1. Clean(cl[i], U)
    BY <1>1 DEF ClausesOf
  <2>2. Neg(l) \in Lits /\ Neg(Neg(l)) = l
    BY <2>1, WatchedIs, LitFacts
  <2> QED
    BY <1>3, <1>5, <2>2
<1> QED
  BY <1>4, <1>6, <1>7, <1>8 DEF ListsOf, lists, all, K

---------------------------------------------------------------------------
(* The reasons of the literals on a trail t: above level zero, a literal   *)
(* that was forced is the first of a clause whose other literals were      *)
(* false before it.                                                        *)
FalseBefore(t, l, i) == \E j \in DOMAIN t : j < i /\ t[j].lit = Neg(l)
Forced(t, i, c) ==
  /\ c.kind # "single" /\ c.lits[1] = t[i].lit
  /\ \A k \in 2 .. Len(c.lits) : FalseBefore(t, c.lits[k], i)
HasReason(t, i) == t[i].level > 0 /\ t[i].why # 0
Reasoned(t, cl) ==
  \A i \in DOMAIN t : HasReason(t, i) =>
    t[i].why \in DOMAIN cl /\ Forced(t, i, cl[t[i].why])

Prefix(s, t) == DOMAIN s \subseteq DOMAIN t /\ \A i \in DOMAIN s : s[i] = t[i]

LEMMA ForcedInBoth ==
  ASSUME NEW s, NEW t, NEW m \in Nat, NEW n \in Nat,
         DOMAIN s = 1 .. m, DOMAIN t = 1 .. n, Prefix(s, t),
         NEW i \in DOMAIN s, NEW c
  PROVE  Forced(s, i, c) <=> Forced(t, i, c)
<1>1. /\ i \in DOMAIN t /\ s[i] = t[i] /\ i \in Nat
      /\ \A j : j \in DOMAIN s /\ j < i <=> j \in DOMAIN t /\ j < i
  BY DEF Prefix
<1>2. \A l : FalseBefore(s, l, i) <=> FalseBefore(t, l, i)
  <2> TAKE l
  <2>1. ASSUME NEW j, j < i PROVE j \in DOMAIN s /\ s[j].lit = Neg(l)
                                    <=> j \in DOMAIN t /\ t[j].lit = Neg(l)
    BY <1>1, <2>1 DEF Prefix
  <2> QED
    BY <2>1 DEF FalseBefore
<1> QED
  BY <1>1, <1>2 DEF Forced

LEMMA ReasonsCut ==
  ASSUME NEW s, NEW t, NEW m \in Nat, NEW n \in Nat, NEW cl,
         DOMAIN s = 1 .. m, DOMAIN t = 1 .. n, Prefix(s, t), Reasoned(t, cl)
  PROVE  Reasoned(s, cl)
<1> SUFFICES ASSUME NEW i \in DOMAIN s, HasReason(s, i)
             PROVE  s[i].why \in DOMAIN cl /\ Forced(s, i, cl[s[i].why])
  BY DEF Reasoned
<1>1. i \in DOMAIN t /\ s[i] = t[i] /\ HasReason(t, i)
  BY DEF Prefix, HasReason
<1>2. t[i].why \in DOMAIN cl /\ Forced(t, i, cl[t[i].why])
  BY <1>1 DEF Reasoned
<1> QED
  BY <1>1, <1>2, ForcedInBoth

LEMMA ReasonsGrown ==
  ASSUME NEW s, NEW t, NEW m \in Nat, NEW n \in Nat, NEW cl,
         DOMAIN s = 1 .. m, DOMAIN t = 1 .. n, Prefix(s, t), Reasoned(s, cl),
         \A i \in DOMAIN t \ DOMAIN s : HasReason(t, i) =>
           t[i].why \in DOMAIN cl /\ Forced(t, i, cl[t[i].why])
  PROVE  Reasoned(t, cl)
<1> SUFFICES ASSUME NEW i \in DOMAIN t, HasReason(t, i)
             PROVE  t[i].why \in DOMAIN cl /\ Forced(t, i, cl[t[i].why])
  BY DEF Reasoned
<1>1. CASE i \in DOMAIN s
  <2>1. s[i] = t[i] /\ HasReason(s, i)
    BY <1>1 DEF Prefix, HasReason
  <2>2. s[i].why \in DOMAIN cl /\ Forced(s, i, cl[s[i].why])
    BY <1>1, <2>1 DEF Reasoned
  <2> QED
    BY <1>1, <2>1, <2>2, ForcedInBoth
<1> QED
  BY <1>1

(* The clauses change, but no reason loses its first literal or gains      *)
(* another one.                                                            *)
Serves(c, d) == /\ d.kind = c.kind /\ d.lits[1] = c.lits[1]
                /\ \A k \in 2 .. Len(d.lits) : \E j \in 2 .. Len(c.lits) :
                     d.lits[k] = c.lits[j]
LEMMA ReasonsServe ==
  ASSUME NEW t, NEW cl, NEW all, Reasoned(t, cl),
         \A i \in DOMAIN t : HasReason(t, i) /\ t[i].why \in DOMAIN cl
                             /\ Forced(t, i, cl[t[i].why]) =>
           t[i].why \in DOMAIN all /\ Serves(cl[t[i].why], all[t[i].why])
  PROVE  Reasoned(t, all)
<1> SUFFICES ASSUME NEW i \in DOMAIN t, HasReason(t, i)
             PROVE  t[i].why \in DOMAIN all /\ Forced(t, i, all[t[i].why])
  BY DEF Reasoned
<1> DEFINE c == cl[t[i].why]
           d == all[t[i].why]
<1>1. t[i].why \in DOMAIN cl /\ Forced(t, i, c)
  BY DEF Reasoned
<1>2. t[i].why \in DOMAIN all /\ Serves(c, d)
  BY <1>1
<1> HIDE DEF c, d
<1>3. Forced(t, i, d)
  BY <1>1, <1>2 DEF Forced, Serves
<1> QED
  BY <1>2, <1>3 DEF d

LEMMA ServesItself ==
  ASSUME NEW c PROVE Serves(c, c)
BY DEF Serves
-------------------------------------------------------------------------------
(***************************************************************************)
(* The inductive invariant of Solver, and what its actions do to the trail *)
(* and to the clauses: what calls add, visits move and conflicts teach.    *)
(*                                                                         *)
(* Watch lists are exact because a clause leaves the list being read for   *)
(* that of a literal it did not watch before.  That needs the literals of  *)
(* a clause to be of different variables, which a learnt clause owes to    *)
(* the levels of its literals, these to the way in which the trail is cut  *)
(* and grown, and the resolutions that lead to it to the reasons on the    *)
(* trail being what they are whatever moves literals or deletes clauses.   *)
(* The invariant says all of that.                                         *)
(***************************************************************************)

(* The inductive invariant.                                                *)
UsedLits == used \X BOOLEAN
TrailInv == Sound(trail, lim, used, next)
ListsInv == ClausesOf(clauses, used, next) /\ ListsOf(watches, clauses, next)
EachListed == ~ Broken => Listed(watches, clauses)
ReasonsInv == Reasoned(trail, clauses)

PlainTypes ==
  /\ used \subseteq Vars /\ ok \in BOOLEAN /\ next \in Nat \ {0}
  /\ qhead \in 0 .. Len(trail) /\ at \in Nat \ {0}
  /\ simplified \in Nat \cup {-1}
  /\ phase \in [Vars -> BOOLEAN] /\ model \in [Vars -> BOOLEAN]
  /\ pc \in Places
  /\ marks \in Seq(Nat)
  /\ answer \in {"none", "sat", "unsat", "undef"}
  /\ slips \subseteq Slips

Phases == Ops \cup {"fact", "tidy", "denied", "none"}
CallTypes == [op : Phases, lits : Seq(UsedLits), good : BOOLEAN]
WorkTypes == [clause : Seq(UsedLits), id : Nat, index : Nat, seen : SUBSET used,
              out : Seq(UsedLits)]
CallsTyped ==
  /\ calls \in Seq([op : Ops, lits : Seq(UsedLits)])
  /\ \A i \in DOMAIN calls : WellFormed(calls[i])
  /\ call \in CallTypes /\ work \in WorkTypes

(* Where the present call stands.  While a literal is tried to be asserted *)
(* it is the guess of the only level; while it is checked the level before *)
(* it is marked.                                                           *)
CallInv ==
  /\ pc = "call" => call.op = "none"
  /\ pc \in {"decide", "pick"} => call.op = "solve"
  /\ pc = "refused" => call.op = "tidy"
  /\ call.op = "assert" => /\ Len(lim) = 1 /\ lim[1] + 1 \in DOMAIN trail
                           /\ Len(call.lits) = 1 /\ trail[lim[1] + 1].lit = Lit
  /\ call.op = "check" => marks # << >> /\ Len(lim) = marks[Len(marks)] + 1

(* What analyze works on are false literals, each once.  *)
FalseIn(t, l) == TrueIn(t, Neg(l))
LevelIn(t, v, d) == \E i \in DOMAIN t : t[i].lit[1] = v /\ t[i].level = d
Analyzed(w, t, n) ==
  /\ w.index <= Len(t)
  /\ \A k \in DOMAIN w.clause : FalseIn(t, w.clause[k])
  /\ DistinctVars(w.clause)
  /\ \A k \in DOMAIN w.out :
       /\ FalseIn(t, w.out[k]) /\ w.out[k][1] \in w.seen
       /\ \E d \in 1 .. n - 1 : LevelIn(t, w.out[k][1], d)
  /\ DistinctVars(w.out)
WorkInv == pc = "conflict" /\ Len(lim) > 0 => Analyzed(work, trail, Len(lim))

IInv == /\ PlainTypes /\ CallsTyped /\ TrailInv /\ ListsInv /\ EachListed
        /\ ReasonsInv /\ CallInv /\ WorkInv

---------------------------------------------------------------------------
(* The state between steps.                                                *)
LEMMA StateIs ==
  ASSUME PlainTypes, TrailInv
  PROVE  /\ used \in SUBSET Nat /\ used \in SUBSET Vars /\ next \in Nat \ {0}
         /\ trail \in Seq(EntryTypes(used, next))
         /\ Len(trail) \in Nat /\ DOMAIN trail = 1 .. Len(trail)
         /\ \A i \in DOMAIN trail : /\ trail[i].lit \in UsedLits
                                    /\ trail[i].why \in 0 .. next - 1
                                    /\ trail[i].level \in 0 .. Len(lim)
         /\ lim \in Seq(0 .. Len(trail)) /\ Len(lim) \in Nat
         /\ DOMAIN lim = 1 .. Len(lim)
         /\ \A k \in DOMAIN lim : lim[k] \in 0 .. Len(trail)
         /\ qhead \in 0 .. Len(trail) /\ at \in Nat \ {0}
         /\ UsedLits \subseteq Lits /\ UsedLits \subseteq NatLits
         /\ OneEach(trail) /\ Levelled(trail, lim) /\ GuessFirst(trail, lim)
<1>1. used \in SUBSET Nat /\ used \in SUBSET Vars /\ next \in Nat \ {0}
  BY VarsAssumption DEF PlainTypes
<1>2. /\ trail \in Seq(EntryTypes(used, next)) /\ lim \in Seq(0 .. Len(trail))
      /\ OneEach(trail) /\ Levelled(trail, lim) /\ GuessFirst(trail, lim)
  BY DEF TrailInv, Sound
<1>3. /\ Len(trail) \in Nat /\ DOMAIN trail = 1 .. Len(trail)
      /\ \A i \in DOMAIN trail : /\ trail[i].lit \in used \X BOOLEAN
                                 /\ trail[i].why \in 0 .. next - 1
                                 /\ trail[i].level \in Nat
  <2>1. next \in Nat
    BY <1>1
  <2> QED
    BY <1>2, <2>1, EntryIs
<1>4. /\ Len(lim) \in Nat /\ DOMAIN lim = 1 .. Len(lim)
      /\ \A k \in DOMAIN lim : lim[k] \in 0 .. Len(trail)
  BY <1>2
<1>5. \A i \in DOMAIN trail : trail[i].level \in 0 .. Len(lim)
  BY <1>2, <1>3, <1>4 DEF Levelled
<1>6. UsedLits \subseteq Lits /\ UsedLits \subseteq NatLits
  BY <1>1 DEF UsedLits, Lits, NatLits
<1>7. qhead \in 0 .. Len(trail) /\ at \in Nat \ {0}
  BY DEF PlainTypes
<1> QED
  BY <1>1, <1>2, <1>3, <1>4, <1>5, <1>6, <1>7 DEF UsedLits

LEMMA TrueIs ==
  ASSUME NEW l
  PROVE  /\ IsTrue(l) <=> TrueIn(trail, l) 
         /\ IsFalse(l) <=> FalseIn(trail, l)
         /\ IsOpen(l) <=> OpenIn(trail, l)
BY DEF IsTrue, IsFalse, IsOpen, TrueIn, FalseIn, OpenIn

(* The place, the level and the reason of a variable on the trail. *)
LEMMA PlaceIs ==
  ASSUME OneEach(trail), NEW i \in DOMAIN trail, NEW v, trail[i].lit[1] = v
  PROVE  /\ Place(v) = i /\ Level(v) = trail[i].level /\ Why(v) = trail[i].why
<1>1. Place(v) = i
  BY DEF Place, OneEach
<1> QED
  BY <1>1 DEF Level, Why

LEMMA FalseHasPlace ==
  ASSUME PlainTypes, TrailInv, NEW l \in UsedLits, IsFalse(l)
  PROVE  \E i \in DOMAIN trail : /\ trail[i].lit = Neg(l) /\ trail[i].lit[1] = l[1]
                                 /\ Place(l[1]) = i /\ Level(l[1]) = trail[i].level
                                 /\ Why(l[1]) = trail[i].why
<1>1. PICK i \in DOMAIN trail : trail[i].lit = Neg(l)
  BY DEF IsFalse, IsTrue
<1>2. Neg(l)[1] = l[1]
  BY StateIs, Numbered
<1>3. trail[i].lit[1] = l[1] /\ OneEach(trail)
  BY <1>1, <1>2, StateIs
<1>4. /\ Place(l[1]) = i /\ Level(l[1]) = trail[i].level
      /\ Why(l[1]) = trail[i].why
  BY <1>3, PlaceIs
<1> QED
  BY <1>1, <1>3, <1>4

(* Going back to level n. *)
LEMMA BackIs ==
  ASSUME PlainTypes, TrailInv, NEW n \in Nat, NEW m \in Nat, next <= m
  PROVE  /\ Sound(TrailUpTo(n), LimUpTo(n), used, m)
         /\ Len(LimUpTo(n)) = IF Len(lim) <= n THEN Len(lim) ELSE n
         /\ Len(TrailUpTo(n)) \in 0 .. Len(trail)
         /\ DOMAIN TrailUpTo(n) = 1 .. Len(TrailUpTo(n))
         /\ Prefix(TrailUpTo(n), trail)
         /\ \A i \in DOMAIN trail : i \in DOMAIN TrailUpTo(n) <=> trail[i].level <= n
         /\ QheadUpTo(n) \in 0 .. Len(TrailUpTo(n))
<1> DEFINE t == TrailUpTo(n)
           L == LimUpTo(n)
<1>1. CASE Len(lim) <= n
  <2>1. t = trail /\ L = lim /\ QheadUpTo(n) = qhead
    BY <1>1 DEF TrailUpTo, LimUpTo, QheadUpTo, CurrentLevel
  <2>2. Sound(t, L, used, m)
    <3>1. next \in Nat /\ Sound(trail, lim, used, next)
      BY StateIs DEF TrailInv
    <3>2. Sound(trail, lim, used, m)
      BY <3>1, SoundWithMore
    <3> QED
      BY <2>1, <3>2
  <2>3. \A i \in DOMAIN trail : trail[i].level <= n
    <3>1. Len(lim) \in Nat /\ \A i \in DOMAIN trail : trail[i].level \in 0 .. Len(lim)
      BY StateIs
    <3> QED
      BY <1>1, <3>1
  <2> HIDE DEF t, L
  <2> QED
    BY <1>1, <2>1, <2>2, <2>3, StateIs DEF t, L, Prefix
<1>2. CASE ~ (Len(lim) <= n)
  <2> DEFINE h == lim[n + 1]
  <2>1. t = SubSeq(trail, 1, h) /\ L = SubSeq(lim, 1, n) /\ QheadUpTo(n) = h
    BY <1>2 DEF TrailUpTo, LimUpTo, QheadUpTo, CurrentLevel
  <2>2. n \in 0 .. Len(lim) - 1 /\ next \in Nat /\ Sound(trail, lim, used, next)
    BY <1>2, StateIs DEF TrailInv
  <2>3. /\ Sound(t, L, used, next)
        /\ h \in 0 .. Len(trail) /\ Len(t) = h /\ Len(L) = n
        /\ \A i \in 1 .. h : t[i] = trail[i]
        /\ \A i \in DOMAIN trail : i <= h <=> trail[i].level <= n
    BY <2>1, <2>2, SoundCut
  <2>4. Sound(t, L, used, m)
    BY <2>2, <2>3, SoundWithMore
  <2>5. DOMAIN t = 1 .. h
    <3>1. t \in Seq(EntryTypes(used, next))
      BY <2>3 DEF Sound
    <3> QED
      BY <2>3, <3>1
  <2>6. Len(trail) \in Nat /\ DOMAIN trail = 1 .. Len(trail)
    BY StateIs
  <2> HIDE DEF t, L, h
  <2>7. /\ Prefix(t, trail)
        /\ \A i \in DOMAIN trail : i \in DOMAIN t <=> trail[i].level <= n
    BY <2>3, <2>5, <2>6 DEF Prefix
  <2> QED
    BY <1>2, <2>1, <2>3, <2>4, <2>5, <2>7 DEF t, L
<1> QED
  BY <1>1, <1>2, StateIs

---------------------------------------------------------------------------
(* Open literals q, of different variables, are put on the trail.          *)
Grows(q, why) ==
  /\ q \in Seq(UsedLits) /\ DistinctVars(q) /\ \A m \in DOMAIN q : IsOpen(q[m])
  /\ trail' = Grown(trail, q, why, Len(lim))

LEMMA GrownIs ==
  ASSUME PlainTypes, TrailInv, NEW q, NEW why \in 0 .. next - 1, Grows(q, why),
         Len(lim) = 0 \/ why # 0, next' \in Nat, next <= next',
         lim' = lim, used' = used
  PROVE  /\ TrailInv'
         /\ Len(trail') \in Nat /\ Len(trail) <= Len(trail')
         /\ DOMAIN trail' = 1 .. Len(trail')
         /\ Prefix(trail, trail')
         /\ HasPut(trail', trail, q, why, Len(lim))
<1>1. /\ used \in SUBSET Nat /\ next \in Nat /\ Sound(trail, lim, used, next)
      /\ Len(trail) \in Nat /\ DOMAIN trail = 1 .. Len(trail)
  BY StateIs DEF TrailInv
<1>2. /\ q \in Seq(used \X BOOLEAN) /\ DistinctVars(q)
      /\ \A m \in DOMAIN q : OpenIn(trail, q[m])
      /\ trail' = Grown(trail, q, why, Len(lim))
  BY TrueIs DEF Grows, UsedLits
<1>3. /\ Sound(trail', lim, used, next)
      /\ Len(trail') = Len(trail) + Len(q)
      /\ \A i \in DOMAIN trail : trail'[i] = trail[i]
      /\ HasPut(trail', trail, q, why, Len(lim))
  <2>1. why \in 0 .. next - 1
    OBVIOUS
  <2> HIDE DEF Grows
  <2> QED
    BY <1>1, <1>2, <2>1, SoundGrown
<1>4. Len(q) \in Nat /\ DOMAIN q = 1 .. Len(q)
  BY <1>2
<1>5. DOMAIN trail' = 1 .. Len(trail')
  <2>1. trail' \in Seq(EntryTypes(used, next))
    BY <1>3 DEF Sound
  <2> QED
    BY <2>1
<1>6. Sound(trail', lim, used, next')
  BY <1>1, <1>3, SoundWithMore
<1>7. Prefix(trail, trail')
  BY <1>1, <1>3, <1>4, <1>5 DEF Prefix
<1> QED
  BY <1>1, <1>3, <1>4, <1>5, <1>6, <1>7 DEF TrailInv

LEMMA GrowsByNone ==
  ASSUME PlainTypes, TrailInv, trail' = trail
  PROVE  \E q : Grows(q, 0)
<1> DEFINE none == << >>
<1>1. none \in Seq(UsedLits) /\ DOMAIN none = {}
  OBVIOUS
<1>2. Grown(trail, none, 0, Len(lim)) = trail
  <2>1. Put(none, 0, Len(lim)) = << >>
    BY <1>1 DEF Put
  <2>2. trail \in Seq(EntryTypes(used, next))
    BY StateIs
  <2> QED
    BY <2>1, <2>2 DEF Grown
<1> HIDE DEF none
<1>3. Grows(none, 0)
  BY <1>1, <1>2 DEF Grows, DistinctVars
<1> QED
  BY <1>3

LEMMA GrowsByOne ==
  ASSUME PlainTypes, TrailInv, NEW l \in UsedLits, IsOpen(l), NEW why,
         Enqueue(l, why)
  PROVE  Grows(<<l>>, why)
<1> DEFINE q == <<l>>
           e == Entry(l, why, Len(lim))
<1>1. q \in Seq(UsedLits) /\ DOMAIN q = {1} /\ q[1] = l
  OBVIOUS
<1>2. trail' = Append(trail, e)
  BY DEF Enqueue, CurrentLevel
<1>3. Put(q, why, Len(lim)) = <<e>>
  BY <1>1 DEF Put
<1>4. trail \in Seq(EntryTypes(used, next))
  BY StateIs
<1> HIDE DEF q, e
<1>5. trail' = Grown(trail, q, why, Len(lim))
  BY <1>2, <1>3, <1>4 DEF Grown
<1> QED
  BY <1>1, <1>5 DEF Grows, DistinctVars, q

---------------------------------------------------------------------------
(* What the calls that add do to the trail and the clauses.                *)
LEMMA CallIs ==
  ASSUME CallsTyped, NEW op, NextCall(op)
  PROVE  /\ Args \in Seq(UsedLits) /\ Head(calls).op = op /\ op \in Ops
         /\ WellFormed(Head(calls))
         /\ calls' \in Seq([op : Ops, lits : Seq(UsedLits)])
         /\ \A i \in DOMAIN calls' : WellFormed(calls'[i])
         /\ pc = "call"
<1> DEFINE X == [op : Ops, lits : Seq(UsedLits)]
<1>1. /\ calls \in Seq(X) /\ calls # << >> /\ calls' = Tail(calls)
      /\ Head(calls).op = op /\ pc = "call"
      /\ \A i \in DOMAIN calls : WellFormed(calls[i])
  BY DEF CallsTyped, NextCall
<1>2. \A x \in X : x.lits \in Seq(UsedLits) /\ x.op \in Ops
  OBVIOUS
<1> HIDE DEF X
<1>3. /\ Head(calls) \in X /\ calls' \in Seq(X)
      /\ Head(calls) = calls[1] /\ 1 \in DOMAIN calls
      /\ \A i \in DOMAIN calls' : i + 1 \in DOMAIN calls /\ calls'[i] = calls[i + 1]
  BY <1>1
<1> QED
  BY <1>1, <1>2, <1>3 DEF Args, X

Addition ==
  \/ UNCHANGED database
  \/ \E c : /\ Clean(c, used)
            /\ clauses' = [i \in DOMAIN clauses \cup {next} |->
                             IF i = next THEN c ELSE clauses[i]]
            /\ next' = next + 1
            /\ watches' = Attached(watches, next, c)
(* A clause that a call adds has no literal that is known already. *)
NewOnesOpen ==
  \A i \in DOMAIN clauses' \ DOMAIN clauses :
    \A k \in DOMAIN clauses'[i].lits : IsOpen(clauses'[i].lits[k])
Adding ==
  /\ \E q : Grows(q, 0)
  /\ Addition /\ NewOnesOpen
  /\ ok' \in BOOLEAN /\ (ok' => ok)
  /\ \/ UNCHANGED <<pc, call>>
     \/ /\ pc' = "propagate"
        /\ \E lits \in Seq(UsedLits) : call' = Begin("fact", lits)

LEMMA NewClauseIs ==
  ASSUME NEW lits \in Seq(UsedLits), NEW kind \in {"clause", "single", "learnt"},
         DistinctVars(lits), Len(lits) > (IF kind = "single" THEN 2 ELSE 1),
         NewClause(lits, kind)
  PROVE  Addition
<1> DEFINE c == [lits |-> lits, kind |-> kind]
<1>1. c.lits = lits /\ c.kind = kind /\ c \in Clauses(used)
  BY DEF Clauses, UsedLits
<1>2. /\ clauses' = [i \in DOMAIN clauses \cup {next} |->
                       IF i = next THEN c ELSE clauses[i]]
      /\ next' = next + 1
      /\ watches' = Attached(watches, next, c)
  BY DEF NewClause
<1> HIDE DEF c
<1>3. Clean(c, used)
  BY <1>1 DEF Clean, LongEnough
<1> QED
  BY <1>2, <1>3 DEF Addition

LEMMA NoClauseAdded ==
  ASSUME UNCHANGED database
  PROVE  Addition /\ NewOnesOpen
<1>1. clauses' = clauses
  BY DEF database
<1> QED
  BY <1>1 DEF Addition, NewOnesOpen

LEMMA OpenClauseAdded ==
  ASSUME NEW lits, NEW kind, NewClause(lits, kind),
         \A k \in DOMAIN lits : IsOpen(lits[k])
  PROVE  NewOnesOpen
<1> DEFINE c == [lits |-> lits, kind |-> kind]
<1>1. c.lits = lits
  OBVIOUS
<1>2. clauses' = [i \in DOMAIN clauses \cup {next} |->
                    IF i = next THEN c ELSE clauses[i]]
  BY DEF NewClause
<1> HIDE DEF c
<1>3. \A i \in DOMAIN clauses' \ DOMAIN clauses : clauses'[i].lits = lits
  BY <1>1, <1>2
<1> QED
  BY <1>3 DEF NewOnesOpen

LEMMA SettleAdds ==
  ASSUME PlainTypes, TrailInv,
         NEW lits \in Seq(UsedLits), DistinctVars(lits),
         \A m \in DOMAIN lits : IsOpen(lits[m]),
         NEW twice \in Seq(UsedLits), DistinctVars(twice),
         \A m \in DOMAIN twice : IsOpen(twice[m]),
         NEW kind \in {"clause", "single"}, Settle(lits, kind, twice)
  PROVE  Adding
<1>1. ok \in BOOLEAN
  BY DEF PlainTypes
<1>2. CASE /\ ok' = FALSE /\ UNCHANGED <<database, trail>> /\ UnchangedCall
  BY <1>1, <1>2, GrowsByNone, NoClauseAdded DEF Adding, UnchangedCall
<1>3. CASE /\ Len(lits) = 1 /\ Enqueue(lits[1], 0)
           /\ call' = Begin("fact", lits) /\ pc' = "propagate"
           /\ UNCHANGED <<ok, database>>
  <2>1. 1 \in DOMAIN lits /\ lits[1] \in UsedLits
    <3>1. DOMAIN lits = 1 .. Len(lits) /\ \A i \in DOMAIN lits : lits[i] \in UsedLits
      OBVIOUS
    <3> QED
      BY <1>3, <3>1
  <2>2. \E q : Grows(q, 0)
    BY <1>3, <2>1, GrowsByOne
  <2> QED
    BY <1>1, <1>3, <2>2, NoClauseAdded DEF Adding
<1>4. CASE /\ Len(lits) > 1 /\ EnqueueAll(twice, 0)
           /\ NewClause(lits, IF kind = "single" /\ Len(lits) > 2 THEN "single"
                              ELSE "clause")
           /\ UNCHANGED ok /\ UnchangedCall
  <2>1. trail' = Grown(trail, twice, 0, Len(lim))
    BY <1>4 DEF EnqueueAll, Entries, Put, Grown, CurrentLevel
  <2>2. Grows(twice, 0)
    BY <2>1 DEF Grows
  <2>3. Addition /\ NewOnesOpen
    <3>1. CASE kind = "single" /\ Len(lits) > 2
      BY <1>4, <3>1, NewClauseIs, OpenClauseAdded
    <3>2. CASE ~ (kind = "single" /\ Len(lits) > 2)
      BY <1>4, <3>2, NewClauseIs, OpenClauseAdded
    <3> QED
      BY <3>1, <3>2
  <2> QED
    BY <1>1, <1>4, <2>2, <2>3 DEF Adding, UnchangedCall
<1> QED
  BY <1>2, <1>3, <1>4 DEF Settle

LEMMA RangeFinite ==
  ASSUME NEW X, NEW q \in Seq(X)
  PROVE  IsFiniteSet(Range(q))
<1> DEFINE D == 1 .. Len(q)
           f == [i \in D |-> q[i]]
           T == {q[i] : i \in D}
<1>1. Range(q) = T /\ Len(q) \in Nat
  BY DEF Range
<1>2. f \in Surjection(D, T)
  BY DEF Surjection, Range
<1> HIDE DEF T, f
<1>3. IsFiniteSet(D)
  BY <1>1, FS_Interval
<1> HIDE DEF D
<1>4. IsFiniteSet(T)
  BY <1>2, <1>3, FS_Surjection
<1> QED
  BY <1>1, <1>4

LEMMA ClauseAdds ==
  ASSUME PlainTypes, CallsTyped, TrailInv, AddAClause
  PROVE  Adding
<1> DEFINE L == Range(Args)
           S == {l \in L : ~ IsFalse(l)}
<1>1. NextCall("clause") /\ Args \in Seq(UsedLits)
  BY CallIs DEF AddAClause, Adds
<1>2. L \subseteq UsedLits /\ IsFiniteSet(L)
  <2>1. IsFiniteSet(L)
    BY <1>1, RangeFinite
  <2> QED
    BY <1>1, <2>1 DEF Range
<1>3. ok \in BOOLEAN
  BY DEF PlainTypes
<1> HIDE DEF L
<1>4. CASE AddsNothing
  BY <1>3, <1>4, GrowsByNone, NoClauseAdded DEF Adding, AddsNothing
<1>5. CASE /\ ~ \E l \in L : IsTrue(l) \/ Neg(l) \in L
           /\ Settle(LitsInOrder(S), "clause", << >>)
  <2> DEFINE q == LitsInOrder(S)
             none == << >>
  <2>1. S \in SUBSET NatLits /\ IsFiniteSet(S) /\ S \subseteq UsedLits
    <3>1. UsedLits \subseteq NatLits
      BY StateIs
    <3> QED
      BY <1>2, <3>1, FS_Subset
  <2>2. \A l \in S : Neg(l) \notin S /\ IsOpen(l)
    BY <1>5 DEF IsOpen
  <2> HIDE DEF S
  <2>3. q \in Seq(S) /\ DistinctVars(q)
    BY <2>1, <2>2, LitsSorted
  <2>4. Settle(q, "clause", none)
    BY <1>5
  <2>5. none \in Seq(UsedLits) /\ DOMAIN none = {}
    OBVIOUS
  <2> HIDE DEF q, none
  <2>6. \A m \in DOMAIN q : IsOpen(q[m]) /\ q[m] \in UsedLits
    BY <2>1, <2>2, <2>3
  <2>7. q \in Seq(UsedLits)
    BY <2>3, <2>6, Retyped
  <2>8. DistinctVars(none)
    BY <2>5 DEF DistinctVars
  <2> QED
    BY <2>3, <2>4, <2>5, <2>6, <2>7, <2>8, SettleAdds
<1> QED
  BY <1>4, <1>5 DEF AddAClause, L, S

(* In a sorted sequence the literals of a variable stand together. *)
LEMMA SameBetween ==
  ASSUME NEW q \in Seq(NatLits),
         \A m, n \in DOMAIN q : m < n => ToInt(q[m]) <= ToInt(q[n]),
         NEW i \in DOMAIN q, NEW j \in DOMAIN q, i < j, q[i][1] = q[j][1],
         NEW k \in i .. j
  PROVE  k \in DOMAIN q /\ (q[k] = q[j] \/ q[k] = Neg(q[j]))
<1>1. k \in DOMAIN q /\ i \in Nat /\ j \in Nat /\ k \in Nat
  <2>1. DOMAIN q = 1 .. Len(q) /\ Len(q) \in Nat
    OBVIOUS
  <2> QED
    BY <2>1
<1>2. q[i] \in NatLits /\ q[j] \in NatLits /\ q[k] \in NatLits
  BY <1>1
<1>3. /\ ToInt(q[i]) \in Nat /\ ToInt(q[j]) \in Nat /\ ToInt(q[k]) \in Nat
      /\ q[i][1] \in Nat /\ q[j][1] \in Nat /\ q[k][1] \in Nat
  BY <1>2, Numbered
<1>4. q[i][1] <= q[k][1]
  <2>1. CASE k = i
    BY <1>3, <2>1
  <2>2. CASE i < k
    <3>1. ToInt(q[i]) <= ToInt(q[k])
      BY <1>1, <2>2
    <3>2. CASE ToInt(q[i]) = ToInt(q[k])
      BY <1>2, <1>3, <3>2, Numbered
    <3>3. CASE ToInt(q[i]) < ToInt(q[k])
      BY <1>2, <3>3, Numbered
    <3> QED
      BY <1>3, <3>1, <3>2, <3>3
  <2> QED
    BY <1>1, <2>1, <2>2
<1>5. q[k][1] <= q[j][1]
  <2>1. CASE k = j
    BY <1>3, <2>1
  <2>2. CASE k < j
    <3>1. ToInt(q[k]) <= ToInt(q[j])
      BY <1>1, <2>2
    <3>2. CASE ToInt(q[k]) = ToInt(q[j])
      BY <1>2, <1>3, <3>2, Numbered
    <3>3. CASE ToInt(q[k]) < ToInt(q[j])
      BY <1>2, <3>3, Numbered
    <3> QED
      BY <1>3, <3>1, <3>2, <3>3
  <2> QED
    BY <1>1, <2>1, <2>2
<1>6. q[k][1] = q[j][1]
  BY <1>3, <1>4, <1>5
<1> QED
  BY <1>1, <1>2, <1>6, Numbered

LEMMA ForceAllAdds ==
  ASSUME PlainTypes, TrailInv,
         NEW twice \in Seq(UsedLits), DistinctVars(twice),
         \A m \in DOMAIN twice : IsOpen(twice[m]),
         NEW q \in Seq(UsedLits), ok, ForceAll(twice, q)
  PROVE  Adding
<1> DEFINE bad == {k \in DOMAIN q : \/ IsFalse(q[k])
                                    \/ Neg(q[k]) \in Range(twice)
                                    \/ \E i \in 1 .. k - 1 : q[i] = Neg(q[k])}
           fresh == {k \in DOMAIN q : /\ \A i \in bad : k < i
                                      /\ IsOpen(q[k]) /\ q[k] \notin Range(twice)
                                      /\ \A i \in 1 .. k - 1 : q[i] # q[k]}
           more == Chosen(q, fresh)
           all == twice \o more
<1>1. /\ EnqueueAll(all, 0) /\ ok' = (bad = {})
      /\ UNCHANGED database /\ UnchangedCall
  BY DEF ForceAll
<1>2. DOMAIN q \subseteq Nat /\ \A k \in DOMAIN q : q[k] \in UsedLits
  BY DEF NatLits
<1>3. UsedLits \subseteq NatLits
  BY StateIs
<1>4. ASSUME NEW i \in fresh, NEW k \in fresh, i < k
      PROVE  q[i][1] # q[k][1]
  <2>1. /\ i \in DOMAIN q /\ k \in DOMAIN q /\ i \in 1 .. k - 1
        /\ q[i] # q[k] /\ k \notin bad
    <3>1. i \in DOMAIN q /\ k \in DOMAIN q
      OBVIOUS
    <3>2. i \in 1 .. k - 1
      <4>1. DOMAIN q = 1 .. Len(q) /\ Len(q) \in Nat
        OBVIOUS
      <4> QED
        BY <1>4, <3>1, <4>1
    <3>3. k \notin bad
      <4>1. ~ (k < k)
        BY <1>2
      <4> QED
        BY <4>1
    <3> QED
      BY <3>1, <3>2, <3>3
  <2>2. q[i] # Neg(q[k])
    BY <2>1
  <2> QED
    BY <1>2, <1>3, <2>1, <2>2, Numbered
<1>5. \A i, k \in fresh : q[i][1] = q[k][1] => i = k
  <2>1. \A i, k \in fresh : i < k \/ k < i \/ i = k
    BY <1>2
  <2> HIDE DEF fresh
  <2> QED
    BY <1>4, <2>1
<1>6. \A k \in fresh : /\ k \in DOMAIN q /\ IsOpen(q[k]) /\ q[k] \notin Range(twice)
                       /\ Neg(q[k]) \notin Range(twice)
  <2> SUFFICES ASSUME NEW k \in fresh
               PROVE  Neg(q[k]) \notin Range(twice)
    OBVIOUS
  <2>1. k \in DOMAIN q /\ k \notin bad
    <3>1. ~ (k < k)
      BY <1>2
    <3> QED
      BY <3>1
  <2> QED
    BY <2>1
<1> HIDE DEF bad, fresh
<1>7. fresh \in SUBSET DOMAIN q
  BY <1>6
<1>8. /\ more \in Seq(UsedLits) /\ DistinctVars(more)
      /\ \A n \in DOMAIN more : \E i \in fresh : more[n] = q[i]
  BY <1>5, <1>7, ChosenIs
<1> HIDE DEF more
<1>9. \A i \in DOMAIN twice : \A n \in DOMAIN more : twice[i][1] # more[n][1]
  <2> SUFFICES ASSUME NEW i \in DOMAIN twice, NEW n \in DOMAIN more,
                      twice[i][1] = more[n][1]
               PROVE  FALSE
    OBVIOUS
  <2>1. PICK k \in fresh : more[n] = q[k]
    BY <1>8
  <2>2. q[k] \in NatLits /\ twice[i] \in NatLits
    BY <1>2, <1>3, <1>6
  <2>3. twice[i] = q[k] \/ twice[i] = Neg(q[k])
    BY <2>1, <2>2, Numbered
  <2> QED
    BY <1>6, <2>3 DEF Range
<1>10. all \in Seq(UsedLits) /\ DistinctVars(all)
  BY <1>8, <1>9, Joined, JoinedKeeps
<1>11. \A m \in DOMAIN all : IsOpen(all[m])
  <2> SUFFICES ASSUME NEW m \in DOMAIN all PROVE IsOpen(all[m])
    OBVIOUS
  <2>1. /\ DOMAIN all = 1 .. Len(twice) + Len(more)
        /\ \A i \in DOMAIN twice : all[i] = twice[i]
        /\ \A i \in 1 .. Len(more) : all[Len(twice) + i] = more[i]
    BY <1>8, Joined
  <2>2. /\ Len(twice) \in Nat /\ Len(more) \in Nat /\ DOMAIN twice = 1 .. Len(twice)
        /\ DOMAIN more = 1 .. Len(more)
    BY <1>8
  <2> HIDE DEF all
  <2>3. CASE m \in DOMAIN twice
    BY <2>1, <2>3
  <2>4. CASE m \notin DOMAIN twice
    <3> DEFINE i == m - Len(twice)
    <3>1. i \in 1 .. Len(more) /\ m = Len(twice) + i
      BY <2>1, <2>2, <2>4
    <3> HIDE DEF i
    <3>2. all[m] = more[i] /\ i \in DOMAIN more
      BY <2>1, <2>2, <3>1
    <3> QED
      BY <1>6, <1>8, <3>2
  <2> QED
    BY <2>3, <2>4
<1> HIDE DEF all
<1>12. trail' = Grown(trail, all, 0, Len(lim))
  BY <1>1 DEF EnqueueAll, Entries, Put, Grown, CurrentLevel
<1>13. Grows(all, 0)
  BY <1>10, <1>11, <1>12 DEF Grows
<1>14. ok' \in BOOLEAN /\ (ok' => ok)
  BY <1>1
<1> QED
  BY <1>1, <1>13, <1>14, NoClauseAdded DEF Adding, UnchangedCall

LEMMA SingleAdds ==
  ASSUME PlainTypes, CallsTyped, TrailInv, AddASingle
  PROVE  Adding
<1> DEFINE q == InOrder(Args)
           Again(k) == k > 1 /\ q[k - 1] = q[k]
           false == {k \in DOMAIN q :
                       \/ IsFalse(q[k])
                       \/ k > 1 /\ q[k - 1] = Neg(q[k]) /\ IsOpen(q[k])}
           before == {k \in DOMAIN q : IsOpen(q[k]) /\ \A i \in false : k < i}
           kept == {k \in before : ~ Again(k)}
           T == {k \in before : Again(k) /\ ~ Again(k - 1)}
           twice == Chosen(q, T)
           others == {k \in kept : \E i \in kept : k < i}
                     \cup {k \in DOMAIN q : \E i \in false : i < k}
<1>1. NextCall("single") /\ Args \in Seq(UsedLits)
  BY CallIs DEF AddASingle, Adds
<1>2. \/ AddsNothing
      \/ ok /\ Settle(Chosen(q, kept), "single", twice)
      \/ ok /\ ForceAll(twice, Chosen(q, others))
  BY DEF AddASingle
<1>3. UsedLits \subseteq NatLits
  BY StateIs
<1>4. /\ q \in Seq(UsedLits) /\ q \in Seq(NatLits)
      /\ \A m, n \in DOMAIN q : m < n => ToInt(q[m]) <= ToInt(q[n])
  <2> DEFINE a == Args
  <2>1. a \in Seq(NatLits)
    <3>1. \A i \in DOMAIN a : a[i] \in NatLits
      BY <1>1, <1>3
    <3> QED
      BY <1>1, <3>1, Retyped
  <2> HIDE DEF a
  <2>2. /\ InOrder(a) \in Seq(NatLits)
        /\ DOMAIN InOrder(a) = DOMAIN a
        /\ \A n \in DOMAIN a : \E i \in DOMAIN a : InOrder(a)[n] = a[i]
        /\ \A m, n \in DOMAIN a : m < n => ToInt(InOrder(a)[m]) <= ToInt(InOrder(a)[n])
    BY <2>1, InOrderIs
  <2>3. \A i \in DOMAIN a : a[i] \in UsedLits
    BY <1>1 DEF a
  <2>4. \A i \in DOMAIN InOrder(a) : InOrder(a)[i] \in UsedLits
    BY <2>2, <2>3
  <2>5. InOrder(a) \in Seq(UsedLits)
    BY <2>2, <2>4, Retyped
  <2> QED
    BY <2>2, <2>5 DEF a
<1> HIDE DEF q
<1>5. /\ DOMAIN q = 1 .. Len(q) /\ Len(q) \in Nat
      /\ \A k \in DOMAIN q : q[k] \in UsedLits /\ k \in Nat
  BY <1>4
<1>6. \A k \in before : k \in DOMAIN q /\ IsOpen(q[k]) /\ k \notin false
  <2> SUFFICES ASSUME NEW k \in before PROVE k \notin false
    OBVIOUS
  <2>1. k \in DOMAIN q /\ ~ (k < k)
    BY <1>5
  <2> QED
    BY <2>1
<1>7. ASSUME NEW i \in kept, NEW j \in kept, i < j
      PROVE  q[i][1] # q[j][1]
  <2> SUFFICES ASSUME q[i][1] = q[j][1] PROVE FALSE
    OBVIOUS
  <2>1. i \in DOMAIN q /\ j \in DOMAIN q /\ j - 1 \in i .. j /\ j > 1
    BY <1>5, <1>7
  <2>2. q[j - 1] = q[j] \/ q[j - 1] = Neg(q[j])
    BY <1>4, <1>7, <2>1, SameBetween
  <2>3. q[j - 1] # q[j]
    BY <2>1
  <2>4. j \in false
    BY <1>6, <2>1, <2>2, <2>3
  <2> QED
    BY <1>6, <2>4
<1>8. ASSUME NEW i \in T, NEW j \in T, i < j
      PROVE  q[i][1] # q[j][1]
  <2> SUFFICES ASSUME q[i][1] = q[j][1] PROVE FALSE
    OBVIOUS
  <2>1. /\ i \in DOMAIN q /\ j \in DOMAIN q /\ j \in before /\ i \in before
        /\ q[j - 1] = q[j] /\ ~ Again(j - 1) /\ j > 1
        /\ Again(i)
    BY <1>6
  <2>2. i # j - 1
    BY <2>1
  <2> HIDE DEF T
  <2>3. j - 2 \in i .. j /\ j - 1 > 1 /\ j - 1 \in DOMAIN q /\ j - 1 - 1 = j - 2
    BY <1>5, <1>8, <2>1, <2>2
  <2>4. q[j - 2] = q[j] \/ q[j - 2] = Neg(q[j])
    BY <1>4, <1>8, <2>1, <2>3, SameBetween
  <2>5. q[j - 2] # q[j - 1]
    BY <2>1, <2>3
  <2>6. IsOpen(q[j - 1])
    BY <1>6, <2>1
  <2>7. j - 1 \in false
    BY <2>1, <2>3, <2>4, <2>5, <2>6
  <2>8. j < j - 1
    BY <2>1, <2>7
  <2> QED
    BY <1>5, <2>1, <2>8
<1>9. \A i \in kept \cup T : i \in DOMAIN q /\ IsOpen(q[i])
  BY <1>6
<1> HIDE DEF Again, false, before, kept, T, others
<1>10. /\ \A i, j \in kept : q[i][1] = q[j][1] => i = j
       /\ \A i, j \in T : q[i][1] = q[j][1] => i = j
  <2>1. \A i, j \in kept \cup T : i < j \/ j < i \/ i = j
    BY <1>5, <1>9
  <2> QED
    BY <1>7, <1>8, <2>1
<1>11. others \in SUBSET DOMAIN q
  BY <1>9 DEF others
<1>12. /\ Chosen(q, kept) \in Seq(UsedLits) /\ DistinctVars(Chosen(q, kept))
       /\ \A n \in DOMAIN Chosen(q, kept) : IsOpen(Chosen(q, kept)[n])
  <2>1. kept \in SUBSET DOMAIN q
    BY <1>9
  <2> QED
    BY <1>4, <1>9, <1>10, <2>1, ChosenIs
<1>13. /\ twice \in Seq(UsedLits) /\ DistinctVars(twice)
       /\ \A n \in DOMAIN twice : IsOpen(twice[n])
  <2>1. T \in SUBSET DOMAIN q
    BY <1>9
  <2> QED
    BY <1>4, <1>9, <1>10, <2>1, ChosenIs
<1>14. Chosen(q, others) \in Seq(UsedLits)
  BY <1>4, <1>11, ChosenIs
<1> HIDE DEF twice
<1>15. CASE AddsNothing
  <2>1. ok \in BOOLEAN
    BY DEF PlainTypes
  <2> QED
    BY <1>15, <2>1, GrowsByNone, NoClauseAdded DEF Adding, AddsNothing
<1>16. CASE Settle(Chosen(q, kept), "single", twice)
  BY <1>12, <1>13, <1>16, SettleAdds
<1>17. CASE ok /\ ForceAll(twice, Chosen(q, others))
  BY <1>13, <1>14, <1>17, ForceAllAdds
<1> QED
  BY <1>2, <1>15, <1>16, <1>17

LEMMA PairAdds ==
  ASSUME PlainTypes, CallsTyped, TrailInv, AddAPair
  PROVE  Adding
<1> DEFINE j == Args[1]
           i == Args[2]
           q == <<i, j>>
<1>1. NextCall("pair") /\ Args \in Seq(UsedLits) /\ Len(Args) = 2 /\ j # i
  BY CallIs DEF AddAPair, Adds, WellFormed, Args
<1>2. j \in UsedLits /\ i \in UsedLits /\ j \in NatLits /\ i \in NatLits
  <2>1. 1 \in DOMAIN Args /\ 2 \in DOMAIN Args
    <3>1. DOMAIN Args = 1 .. 2
      BY <1>1
    <3> QED
      BY <3>1
  <2>2. j \in UsedLits /\ i \in UsedLits
    BY <1>1, <2>1
  <2>3. UsedLits \subseteq NatLits
    BY StateIs
  <2> QED
    BY <2>2, <2>3
<1>3. \/ AddsNothing
      \/ ok' = FALSE /\ UNCHANGED <<database, trail>> /\ UnchangedCall
      \/ Forces(j) /\ IsOpen(j)
      \/ Forces(i) /\ IsOpen(i)
      \/ /\ i # Neg(j) /\ IsOpen(i) /\ IsOpen(j) /\ NewClause(q, "clause")
         /\ UNCHANGED <<ok, trail>> /\ UnchangedCall
  BY DEF AddAPair, IsOpen
<1> HIDE DEF j, i
<1>4. ok \in BOOLEAN
  BY DEF PlainTypes
<1>5. CASE AddsNothing
  BY <1>4, <1>5, GrowsByNone, NoClauseAdded DEF Adding, AddsNothing
<1>6. CASE ok' = FALSE /\ UNCHANGED <<database, trail>> /\ UnchangedCall
  BY <1>4, <1>6, GrowsByNone, NoClauseAdded DEF Adding, UnchangedCall
<1>7. ASSUME NEW l \in UsedLits, Forces(l), IsOpen(l) PROVE Adding
  <2>1. \E p : Grows(p, 0)
    BY <1>7, GrowsByOne DEF Forces
  <2> QED
    BY <1>4, <1>7, <2>1, NoClauseAdded DEF Adding, Forces, UnchangedCall
<1>8. CASE /\ i # Neg(j) /\ IsOpen(i) /\ IsOpen(j)
           /\ NewClause(q, "clause") /\ UNCHANGED <<ok, trail>>
           /\ UnchangedCall
  <2>1. q \in Seq(UsedLits) /\ Len(q) = 2 /\ DOMAIN q = {1, 2} /\ q[1] = i /\ q[2] = j
    BY <1>2
  <2> HIDE DEF q
  <2>2. i[1] # j[1]
    BY <1>1, <1>2, <1>8, Numbered
  <2>3. DistinctVars(q)
    BY <2>1, <2>2 DEF DistinctVars
  <2>4. \A k \in DOMAIN q : IsOpen(q[k])
    BY <1>8, <2>1
  <2>5. Addition /\ NewOnesOpen
    BY <1>8, <2>1, <2>3, <2>4, NewClauseIs, OpenClauseAdded
  <2> QED
    BY <1>4, <1>8, <2>5, GrowsByNone DEF Adding, UnchangedCall
<1> QED
  BY <1>2, <1>3, <1>5, <1>6, <1>7, <1>8

---------------------------------------------------------------------------
(* The clause being visited.                                               *)
LEMMA ReadingIs ==
  ASSUME PlainTypes, TrailInv, ListsInv, Pending, at <= Len(watches[P])
  PROVE  /\ P \in UsedLits /\ P \in Lits /\ qhead + 1 \in DOMAIN trail
         /\ Neg(P) \in Lits /\ IsFalse(Neg(P)) /\ ~ IsOpen(Neg(P))
         /\ at \in DOMAIN watches[P] /\ Id \in DOMAIN clauses /\ Id \in Nat
         /\ Id \in 1 .. next - 1
         /\ Clean(C, used) /\ Neg(P) \in Watched(C)
         /\ used \in SUBSET Vars
<1>1. /\ qhead + 1 \in DOMAIN trail /\ P \in UsedLits /\ UsedLits \subseteq Lits
      /\ used \in SUBSET Vars
  <2>1. /\ qhead \in 0 .. Len(trail) /\ Len(trail) \in Nat
        /\ DOMAIN trail = 1 .. Len(trail) /\ qhead < Len(trail)
    BY StateIs DEF Pending
  <2>2. qhead + 1 \in DOMAIN trail
    BY <2>1
  <2> QED
    BY <2>2, StateIs DEF P
<1>2. P \in Lits /\ Neg(P) \in Lits /\ Neg(Neg(P)) = P
  BY <1>1, LitFacts
<1>3. IsFalse(Neg(P))
  BY <1>1, <1>2 DEF IsFalse, IsTrue, P
<1>4. watches \in [Lits -> Seq(1 .. next - 1)] /\ Exact(watches, clauses)
  BY DEF ListsInv, ListsOf
<1>5. at \in DOMAIN watches[P] /\ Id \in Range(watches[P]) /\ Id \in 1 .. next - 1
  <2>1. watches[P] \in Seq(1 .. next - 1) /\ at \in Nat \ {0}
    BY <1>2, <1>4, StateIs
  <2> DEFINE q == watches[P]
  <2>2. q \in Seq(1 .. next - 1) /\ at \in Nat \ {0} /\ at <= Len(q)
    BY <2>1
  <2> HIDE DEF q
  <2>3. at \in DOMAIN q
    <3>1. DOMAIN q = 1 .. Len(q) /\ Len(q) \in Nat
      BY <2>2
    <3> QED
      BY <2>2, <3>1
  <2>4. q[at] \in 1 .. next - 1
    <3> DEFINE X == 1 .. next - 1
    <3>1. q \in Seq(X)
      BY <2>2
    <3> HIDE DEF X
    <3>2. q[at] \in X
      BY <2>3, <3>1
    <3> QED
      BY <3>2 DEF X
  <2> QED
    BY <2>3, <2>4 DEF Range, Id, q
<1>6. Id \in DOMAIN clauses /\ Neg(P) \in Watched(C)
  BY <1>2, <1>4, <1>5 DEF Exact, C
<1>7. Clean(C, used)
  BY <1>6 DEF ListsInv, ClausesOf, C
<1> QED
  BY <1>1, <1>2, <1>3, <1>5, <1>6, <1>7 DEF IsOpen

With(c, q) == [c EXCEPT !.lits = q]
LEMMA CleanWith ==
  ASSUME NEW c, Clean(c, used), NEW q \in Seq(UsedLits), DistinctVars(q),
         Len(q) = Len(c.lits)
  PROVE  /\ Clean(With(c, q), used)
         /\ With(c, q).lits = q /\ With(c, q).kind = c.kind
<1>1. c \in Clauses(used) /\ Len(c.lits) > (IF c.kind = "single" THEN 2 ELSE 1)
  BY DEF Clean, LongEnough
<1>2. /\ With(c, q) \in Clauses(used)
      /\ With(c, q).lits = q /\ With(c, q).kind = c.kind
  BY <1>1 DEF Clauses, With, UsedLits
<1> HIDE DEF With
<1>3. LongEnough(With(c, q))
  BY <1>1, <1>2 DEF LongEnough
<1> QED
  BY <1>2, <1>3 DEF Clean

(* Reordering a clause, with the false literal second. *)
LEMMA TurnedIs ==
  ASSUME PlainTypes, TrailInv, ListsInv, Reading(FALSE)
  PROVE  /\ Turned \in Seq(UsedLits) /\ Len(Turned) = Len(C.lits)
         /\ DOMAIN Turned = DOMAIN C.lits /\ 1 \in DOMAIN C.lits /\ 2 \in DOMAIN C.lits
         /\ DistinctVars(Turned)
         /\ Turned[2] = Neg(P)
         /\ \A k \in 3 .. Len(C.lits) : Turned[k] = C.lits[k]
         /\ Watched(C) = {C.lits[1], C.lits[2]}
         /\ Watched(C) = {Turned[1], Turned[2]}
         /\ Clean(With(C, Turned), used) /\ Watched(With(C, Turned)) = Watched(C)
         /\ Turned = C.lits \/ (C.lits[1] = Neg(P) /\ Turned[1] = C.lits[2])
         /\ C.kind # "single"
<1> DEFINE q == C.lits
           t == Turned
<1>1. /\ Clean(C, used) /\ Neg(P) \in Watched(C) /\ used \in SUBSET Vars
      /\ C.kind # "single"
  BY ReadingIs DEF Reading
<1>2. /\ q \in Seq(UsedLits) /\ Len(q) \in Nat \ {0, 1} /\ DOMAIN q = 1 .. Len(q)
      /\ DistinctVars(q)
      /\ \A l : l \in Watched(C) <=> \E k \in DOMAIN q : q[k] = l /\ k <= 2
  BY <1>1, WatchedIs DEF UsedLits
<1>3. t = IF q[1] = Neg(P) THEN Swap(q, 1, 2) ELSE q
  BY DEF Turned
<1> HIDE DEF q, t
<1>4. 1 \in DOMAIN q /\ 2 \in DOMAIN q /\ \A k \in DOMAIN q : k <= 2 <=> k = 1 \/ k = 2
  BY <1>2
<1>5. Watched(C) = {q[1], q[2]}
  BY <1>2, <1>4
<1>6. /\ t \in Seq(UsedLits) /\ Len(t) = Len(q) /\ DOMAIN t = DOMAIN q
      /\ DistinctVars(t) /\ t[2] = Neg(P) /\ {t[1], t[2]} = {q[1], q[2]}
      /\ \A k \in 3 .. Len(q) : t[k] = q[k]
      /\ t = q \/ (q[1] = Neg(P) /\ t[1] = q[2])
  <2>1. CASE q[1] = Neg(P)
    <3> DEFINE s == Swap(q, 1, 2)
    <3>1. t = s
      BY <1>3, <2>1
    <3>2. /\ s \in Seq(UsedLits) /\ Len(s) = Len(q) /\ DOMAIN s = DOMAIN q
          /\ s[1] = q[2] /\ s[2] = q[1]
          /\ \A k \in DOMAIN q : k # 1 /\ k # 2 => s[k] = q[k]
      BY <1>2, <1>4, Swapped
    <3>3. DistinctVars(s)
      BY <1>2, <1>4, SwapKeeps
    <3>4. \A k \in 3 .. Len(q) : k \in DOMAIN q /\ k # 1 /\ k # 2
      BY <1>2
    <3> HIDE DEF s
    <3> QED
      BY <2>1, <3>1, <3>2, <3>3, <3>4
  <2>2. CASE q[1] # Neg(P)
    <3>1. q[2] = Neg(P)
      BY <1>1, <1>5, <2>2
    <3> QED
      BY <1>2, <1>3, <2>2, <3>1
  <2> QED
    BY <2>1, <2>2
<1>7. /\ Clean(With(C, t), used) /\ With(C, t).lits = t /\ With(C, t).kind # "single"
  BY <1>1, <1>2, <1>6, CleanWith DEF q
<1>8. \A l : l \in Watched(With(C, t)) <=> \E k \in DOMAIN t : t[k] = l /\ k <= 2
  <2> DEFINE d == With(C, t)
  <2>1. Clean(d, used) /\ d.lits = t /\ d.kind # "single"
    BY <1>7
  <2> HIDE DEF d
  <2>2. \A l : l \in Watched(d) <=> \E k \in DOMAIN t : t[k] = l /\ k <= 2
    BY <1>1, <2>1, WatchedIs
  <2> QED
    BY <2>2 DEF d
<1>9. Watched(With(C, t)) = {t[1], t[2]}
  BY <1>4, <1>6, <1>8
<1> QED
  BY <1>1, <1>4, <1>5, <1>6, <1>7, <1>9 DEF q, t

(* The new clause of VisitMoves watches another literal than before. *)
LEMMA MoveIs ==
  ASSUME PlainTypes, TrailInv, ListsInv, Reading(FALSE), Spare # {}
  PROVE  LET k == Least(Spare)
             q == Swap(Turned, 2, k)
         IN  /\ k \in 3 .. Len(C.lits) /\ ~ IsFalse(C.lits[k])
             /\ C.lits[k] \in Lits /\ C.lits[k] \notin Watched(C)
             /\ Clean(With(C, q), used)
             /\ Watched(With(C, q)) = (Watched(C) \ {Neg(P)}) \cup {C.lits[k]}
             /\ q[1] = Turned[1]
<1> DEFINE k == Least(Spare)
           q == Swap(Turned, 2, k)
           l == C.lits[k]
           t == Turned
           o == C.lits
<1>1. /\ t \in Seq(UsedLits) /\ Len(t) = Len(o)
      /\ DOMAIN t = DOMAIN o /\ 1 \in DOMAIN o /\ 2 \in DOMAIN o
      /\ DistinctVars(t) /\ t[2] = Neg(P)
      /\ \A i \in 3 .. Len(o) : t[i] = o[i]
      /\ Watched(C) = {t[1], t[2]} /\ C.kind # "single"
  BY TurnedIs
<1>2. Clean(C, used) /\ used \in SUBSET Vars
  BY ReadingIs DEF Reading
<1>3. /\ Len(o) \in Nat /\ DOMAIN o = 1 .. Len(o) /\ \A i \in DOMAIN o : o[i] \in Lits
  BY <1>2, WatchedIs
<1>4. k \in Spare
  <2>1. Spare \in SUBSET Nat
    BY DEF Spare
  <2> QED
    BY <2>1, LeastOf
<1>5. k \in 3 .. Len(o) /\ ~ IsFalse(l) /\ k \in DOMAIN o /\ k # 1 /\ k # 2 /\ l = t[k]
  <2>1. k \in 3 .. Len(o) /\ ~ IsFalse(l)
    BY <1>4 DEF Spare
  <2> HIDE DEF k, l, t, o
  <2>2. k \in DOMAIN o /\ k # 1 /\ k # 2
    BY <1>3, <2>1
  <2> QED
    BY <1>1, <2>1, <2>2 DEF l, t, o
<1>6. l \in Lits
  BY <1>3, <1>5
<1> HIDE DEF k, l, t, o
<1>7. /\ Swap(t, 2, k) \in Seq(UsedLits) /\ Len(Swap(t, 2, k)) = Len(t)
      /\ DOMAIN Swap(t, 2, k) = DOMAIN t
      /\ Swap(t, 2, k)[2] = l
      /\ \A i \in DOMAIN t : i # 2 /\ i # k => Swap(t, 2, k)[i] = t[i]
  <2>1. t \in Seq(UsedLits) /\ 2 \in DOMAIN t /\ k \in DOMAIN t /\ l = t[k]
    BY <1>1, <1>5
  <2> QED
    BY <2>1, Swapped
<1>8. DistinctVars(Swap(t, 2, k))
  BY <1>1, <1>5, SwapKeeps
<1>9. l # t[1] /\ l # t[2]
  BY <1>1, <1>5 DEF DistinctVars
<1>10. q = Swap(t, 2, k)
  BY DEF t
<1> HIDE DEF q
<1>11. /\ q \in Seq(UsedLits) /\ Len(q) = Len(o) /\ DOMAIN q = DOMAIN o
       /\ q[2] = l /\ q[1] = t[1] /\ DistinctVars(q)
  BY <1>1, <1>5, <1>7, <1>8, <1>10
<1>12. Clean(With(C, q), used) /\ With(C, q).lits = q /\ With(C, q).kind # "single"
  BY <1>1, <1>2, <1>11, CleanWith DEF o
<1>13. Watched(With(C, q)) = {q[1], q[2]}
  <2> DEFINE d == With(C, q)
  <2>1. Clean(d, used) /\ d.lits = q /\ d.kind # "single"
    BY <1>12
  <2> HIDE DEF d
  <2>2. \A m : m \in Watched(d) <=> \E i \in DOMAIN q : q[i] = m /\ i <= 2
    BY <1>2, <2>1, WatchedIs
  <2>3. \A i \in DOMAIN q : i <= 2 <=> i = 1 \/ i = 2
    BY <1>3, <1>11
  <2>4. Watched(d) = {q[1], q[2]}
    BY <1>1, <1>11, <2>2, <2>3
  <2> QED
    BY <2>4 DEF d
<1>14. Watched(With(C, q)) = (Watched(C) \ {Neg(P)}) \cup {l}
  <2>1. t[1] # t[2]
    BY <1>1 DEF DistinctVars
  <2> QED
    BY <1>1, <1>11, <1>13, <2>1
<1>15. l \notin Watched(C)
  BY <1>1, <1>9
<1> QED
  BY <1>5, <1>6, <1>11, <1>12, <1>14, <1>15 DEF k, l, t, o, q

(* A single set watches all its literals but the last. *)
LEMMA SingleIs ==
  ASSUME NEW c, Clean(c, used), c.kind = "single", used \in SUBSET Vars
  PROVE  /\ c.lits \in Seq(UsedLits) /\ Len(c.lits) \in Nat /\ Len(c.lits) > 2
         /\ DOMAIN c.lits = 1 .. Len(c.lits) /\ DistinctVars(c.lits)
         /\ Watched(c) = Elements(c.lits) \ {c.lits[Len(c.lits)]}
         /\ \A k \in DOMAIN c.lits : c.lits[k] \in Lits
<1> DEFINE q == c.lits
<1>1. /\ q \in Seq(UsedLits) /\ Len(q) \in Nat /\ Len(q) > 2
      /\ DOMAIN q = 1 .. Len(q) /\ DistinctVars(q)
      /\ \A k \in DOMAIN q : q[k] \in Lits
      /\ \A l : l \in Watched(c) <=> \E k \in DOMAIN q : q[k] = l /\ k < Len(q)
  BY WatchedIs DEF UsedLits
<1> HIDE DEF q
<1>2. Len(q) \in DOMAIN q
  BY <1>1
<1>3. \A k \in DOMAIN q : k < Len(q) <=> q[k] # q[Len(q)]
  <2>1. \A k \in DOMAIN q : q[k] = q[Len(q)] => k = Len(q)
    BY <1>1, <1>2 DEF DistinctVars
  <2> QED
    BY <1>1, <2>1
<1>4. Watched(c) = Elements(q) \ {q[Len(q)]}
  BY <1>1, <1>3 DEF Elements
<1> QED
  BY <1>1, <1>4 DEF q

(* The single set being visited is given another last literal, the one     *)
(* that has just become false. *)
LEMMA SingleTurned ==
  ASSUME PlainTypes, TrailInv, ListsInv, Reading(TRUE),
         NEW q \in Seq(UsedLits), DistinctVars(q), Len(q) = Len(C.lits),
         Elements(q) = Elements(C.lits), q[Len(q)] = Neg(P)
  PROVE  LET l == C.lits[Len(C.lits)]
         IN  /\ l \in Lits /\ l \notin Watched(C)
             /\ Clean(With(C, q), used)
             /\ Watched(With(C, q)) = (Watched(C) \ {Neg(P)}) \cup {l}
<1> DEFINE o == C.lits
           l == o[Len(o)]
<1>1. /\ Clean(C, used) /\ used \in SUBSET Vars /\ C.kind = "single"
      /\ Neg(P) \in Watched(C)
  BY ReadingIs DEF Reading
<1>2. /\ Len(o) \in Nat /\ Len(o) > 2 /\ DOMAIN o = 1 .. Len(o)
      /\ Watched(C) = Elements(o) \ {l}
      /\ \A k \in DOMAIN o : o[k] \in Lits
  BY <1>1, SingleIs
<1>3. Clean(With(C, q), used) /\ With(C, q).lits = q /\ With(C, q).kind = "single"
  BY <1>1, CleanWith
<1>4. Watched(With(C, q)) = Elements(q) \ {q[Len(q)]}
  BY <1>1, <1>3, SingleIs
<1>5. Len(o) \in DOMAIN o
  BY <1>2
<1>6. l \in Lits /\ l \in Elements(o) /\ Elements(q) = Elements(o)
  BY <1>2, <1>5 DEF Elements
<1> HIDE DEF o, l
<1> QED
  BY <1>1, <1>2, <1>3, <1>4, <1>6 DEF o, l

LEMMA HereIs ==
  ASSUME PlainTypes, TrailInv, ListsInv, Reading(TRUE)
  PROVE  /\ Here \in DOMAIN C.lits /\ C.lits[Here] = Neg(P) /\ Here < Len(C.lits)
         /\ \A k \in DOMAIN C.lits : C.lits[k] = Neg(P) => k = Here
         /\ C.lits \in Seq(UsedLits) /\ Len(C.lits) \in Nat /\ Len(C.lits) > 2
         /\ DOMAIN C.lits = 1 .. Len(C.lits) /\ DistinctVars(C.lits)
<1> DEFINE q == C.lits
<1>1. /\ Clean(C, used) /\ used \in SUBSET Vars /\ C.kind = "single"
      /\ Neg(P) \in Watched(C)
  BY ReadingIs DEF Reading
<1>2. /\ q \in Seq(UsedLits) /\ Len(q) \in Nat /\ Len(q) > 2
      /\ DOMAIN q = 1 .. Len(q) /\ DistinctVars(q)
      /\ Watched(C) = Elements(q) \ {q[Len(q)]}
  BY <1>1, SingleIs
<1>3. Here = CHOOSE i \in DOMAIN q : q[i] = Neg(P)
  BY DEF Here, IndexOf
<1> HIDE DEF q
<1>4. Here \in DOMAIN q /\ q[Here] = Neg(P)
  BY <1>1, <1>2, <1>3 DEF Elements
<1>5. Here # Len(q)
  BY <1>1, <1>2, <1>4
<1>6. \A k \in DOMAIN q : q[k] = Neg(P) => k = Here
  BY <1>2, <1>4 DEF DistinctVars
<1> QED
  BY <1>2, <1>4, <1>5, <1>6 DEF q

(* VisitSwaps: the literals change places twice. *)
LEMMA SwapsIs ==
  ASSUME PlainTypes, TrailInv, ListsInv, Reading(TRUE)
  PROVE  LET q == Swap(Swap(C.lits, Here, 1), 1, Len(C.lits))
         IN  /\ q \in Seq(UsedLits) /\ DistinctVars(q) /\ Len(q) = Len(C.lits)
             /\ Elements(q) = Elements(C.lits) /\ q[Len(q)] = Neg(P)
<1> DEFINE o == C.lits
           h == Here
           s == Swap(o, h, 1)
           q == Swap(s, 1, Len(o))
<1>1. /\ h \in DOMAIN o /\ o[h] = Neg(P) /\ h < Len(o)
      /\ o \in Seq(UsedLits) /\ Len(o) \in Nat /\ Len(o) > 2
      /\ DOMAIN o = 1 .. Len(o) /\ DistinctVars(o)
  BY HereIs
<1> HIDE DEF o, h
<1>2. 1 \in DOMAIN o /\ Len(o) \in DOMAIN o
  BY <1>1
<1>3. /\ s \in Seq(UsedLits) /\ Len(s) = Len(o) /\ DOMAIN s = DOMAIN o
      /\ s[1] = Neg(P)
  BY <1>1, <1>2, Swapped
<1>4. DistinctVars(s) /\ Elements(s) = Elements(o)
  BY <1>1, <1>2, SwapKeeps
<1> HIDE DEF s
<1>5. /\ q \in Seq(UsedLits) /\ Len(q) = Len(o) /\ q[Len(o)] = Neg(P)
  BY <1>2, <1>3, Swapped
<1>6. DistinctVars(q) /\ Elements(q) = Elements(o)
  BY <1>2, <1>3, <1>4, SwapKeeps
<1> HIDE DEF q
<1> QED
  BY <1>5, <1>6 DEF o, h, s, q

(* VisitClashes: the two false literals stand first, and when the one that *)
(* has just become false went to the end, the literal watched from now on  *)
(* is the one that was last. *)
LEMMA ClashIs ==
  ASSUME PlainTypes, TrailInv, ListsInv, Reading(TRUE), Second # {}
  PROVE  LET k == Least(Second)
             front == IF k > Here THEN Swap(C.lits, Here, 1) ELSE C.lits
             second == Swap(front, k, 2)
             pair == Swap(second, IndexOf(second, Neg(P)), 1)
             q == Swap(pair, 1, Len(pair))
         IN  /\ pair \in Seq(UsedLits) /\ DistinctVars(pair) /\ Len(pair) = Len(C.lits)
             /\ pair[1] = Neg(P) /\ pair[2] = C.lits[k]
             /\ k \in DOMAIN C.lits /\ IsFalse(C.lits[k])
             /\ q \in Seq(UsedLits) /\ DistinctVars(q) /\ Len(q) = Len(C.lits)
             /\ Elements(q) = Elements(C.lits) /\ q[Len(q)] = Neg(P)
             /\ ClashWatches(pair, k) = C.lits[Len(C.lits)]
<1> DEFINE o == C.lits
           n == Len(o)
           h == Here
           k == Least(Second)
           front == IF k > h THEN Swap(o, h, 1) ELSE o
           second == Swap(front, k, 2)
           at1 == IndexOf(second, Neg(P))
           pair == Swap(second, at1, 1)
           q == Swap(pair, 1, Len(pair))
<1>1. /\ h \in DOMAIN o /\ o[h] = Neg(P) /\ h < n
      /\ o \in Seq(UsedLits) /\ n \in Nat /\ n > 2
      /\ DOMAIN o = 1 .. n /\ DistinctVars(o)
  BY HereIs
<1>2. k \in DOMAIN o /\ o[k] # Neg(P) /\ IsFalse(o[k]) /\ k # h
  <2>1. Second \in SUBSET Nat
    <3>1. DOMAIN o \subseteq Nat
      BY <1>1
    <3> QED
      BY <3>1 DEF Second
  <2>2. k \in Second
    BY <2>1, LeastOf
  <2>3. k \in DOMAIN o /\ o[k] # Neg(P) /\ IsFalse(o[k])
    BY <2>2 DEF Second
  <2> QED
    BY <1>1, <2>3
<1> HIDE DEF o, n, h, k
<1>3. 1 \in DOMAIN o /\ 2 \in DOMAIN o /\ n \in DOMAIN o /\ n # 1 /\ n # 2 /\ n # h
  BY <1>1
<1>4. /\ front \in Seq(UsedLits) /\ Len(front) = n /\ DOMAIN front = 1 .. n
      /\ DistinctVars(front) /\ Elements(front) = Elements(o)
      /\ front[k] = o[k] /\ front[n] = o[n]
      /\ k > h => k # 1 /\ front[1] = Neg(P)
      /\ ~ (k > h) => k < h /\ k < n /\ front[h] = Neg(P)
  <2>1. CASE k > h
    <3>1. /\ Swap(o, h, 1) \in Seq(UsedLits) /\ Len(Swap(o, h, 1)) = Len(o)
          /\ DOMAIN Swap(o, h, 1) = DOMAIN o /\ Swap(o, h, 1)[1] = o[h]
          /\ \A i \in DOMAIN o : i # h /\ i # 1 => Swap(o, h, 1)[i] = o[i]
      BY <1>1, <1>3, Swapped
    <3>2. DistinctVars(Swap(o, h, 1)) /\ Elements(Swap(o, h, 1)) = Elements(o)
      BY <1>1, <1>3, SwapKeeps
    <3>3. front = Swap(o, h, 1) /\ k # 1
      BY <1>1, <1>2, <2>1
    <3> HIDE DEF front
    <3> QED
      BY <1>1, <1>2, <1>3, <2>1, <3>1, <3>2, <3>3 DEF n
  <2>2. CASE ~ (k > h)
    <3>1. k < h /\ k < n /\ front = o
      BY <1>1, <1>2, <2>2
    <3> HIDE DEF front
    <3> QED
      BY <1>1, <1>2, <2>2, <3>1 DEF n
  <2> QED
    BY <2>1, <2>2
<1> HIDE DEF front
<1>5. /\ second \in Seq(UsedLits) /\ Len(second) = n /\ DOMAIN second = 1 .. n
      /\ DistinctVars(second) /\ Elements(second) = Elements(o)
      /\ second[2] = o[k] /\ second[k] = front[2]
      /\ \A i \in 1 .. n : i # k /\ i # 2 => second[i] = front[i]
  <2>1. k \in DOMAIN front /\ 2 \in DOMAIN front
    BY <1>1, <1>2, <1>3, <1>4
  <2> QED
    BY <1>4, <2>1, Swapped, SwapKeeps
<1> HIDE DEF second
<1>6. at1 \in 1 .. n /\ second[at1] = Neg(P)
  <2>1. Neg(P) \in Elements(o)
    BY <1>1 DEF Elements
  <2>2. \E i \in DOMAIN second : second[i] = Neg(P)
    BY <1>5, <2>1 DEF Elements
  <2>3. at1 \in DOMAIN second /\ second[at1] = Neg(P)
    BY <2>2 DEF IndexOf
  <2> QED
    BY <1>5, <2>3
<1> HIDE DEF at1
<1>7. at1 # 2 /\ (k # n => second[n] = o[n] /\ at1 # n)
  <2>1. at1 # 2
    BY <1>2, <1>5, <1>6
  <2>2. ASSUME k # n PROVE second[n] = o[n] /\ at1 # n
    <3>1. second[n] = o[n]
      BY <1>1, <1>3, <1>4, <1>5, <2>2
    <3>2. o[n] # o[h]
      BY <1>1, <1>3 DEF DistinctVars
    <3> QED
      BY <1>1, <1>6, <3>1, <3>2
  <2> QED
    BY <2>1, <2>2
<1>8. /\ pair \in Seq(UsedLits) /\ Len(pair) = n /\ DOMAIN pair = 1 .. n
      /\ DistinctVars(pair) /\ Elements(pair) = Elements(o)
      /\ pair[1] = Neg(P)
      /\ \A i \in 1 .. n : i # at1 /\ i # 1 => pair[i] = second[i]
  <2>1. at1 \in DOMAIN second /\ 1 \in DOMAIN second
    BY <1>1, <1>3, <1>5, <1>6
  <2>4. second \in Seq(UsedLits)
    BY <1>5
  <2>2. /\ pair \in Seq(UsedLits) /\ Len(pair) = Len(second)
        /\ DOMAIN pair = DOMAIN second /\ pair[1] = second[at1]
        /\ \A i \in DOMAIN second : i # at1 /\ i # 1 => pair[i] = second[i]
    BY <2>1, <2>4, Swapped
  <2>3. DistinctVars(pair) /\ Elements(pair) = Elements(second)
    BY <1>5, <2>1, SwapKeeps
  <2> HIDE DEF pair
  <2> QED
    BY <1>5, <1>6, <2>2, <2>3
<1> HIDE DEF pair
<1>9. pair[2] = o[k] /\ (k # n => pair[n] = o[n])
  BY <1>1, <1>3, <1>5, <1>7, <1>8
<1>10. /\ q \in Seq(UsedLits) /\ Len(q) = n
       /\ DistinctVars(q) /\ Elements(q) = Elements(o)
       /\ q[n] = Neg(P) /\ q[1] = pair[n] /\ q[2] = pair[2]
  <2>1. 1 \in DOMAIN pair /\ Len(pair) \in DOMAIN pair /\ 2 \in DOMAIN pair
    BY <1>1, <1>3, <1>8
  <2>4. pair \in Seq(UsedLits)
    BY <1>8
  <2>2. /\ q \in Seq(UsedLits) /\ Len(q) = Len(pair)
        /\ q[Len(pair)] = pair[1] /\ q[1] = pair[Len(pair)]
        /\ \A i \in DOMAIN pair : i # 1 /\ i # Len(pair) => q[i] = pair[i]
    BY <2>1, <2>4, Swapped
  <2>3. DistinctVars(q) /\ Elements(q) = Elements(pair)
    BY <1>8, <2>1, SwapKeeps
  <2> HIDE DEF q
  <2> QED
    BY <1>3, <1>8, <2>1, <2>2, <2>3
<1>11. ClashWatches(pair, k) = IF k = Len(pair) THEN q[2] ELSE q[1]
  BY DEF ClashWatches
<1> HIDE DEF q
<1>12. ClashWatches(pair, k) = o[n]
  BY <1>8, <1>9, <1>10, <1>11
<1> QED
  BY <1>2, <1>8, <1>9, <1>10, <1>12 DEF o, n, h, k, front, second, at1, pair, q

---------------------------------------------------------------------------
(* analyze().                                                              *)
LEMMA WorkIs ==
  ASSUME CallsTyped
  PROVE  /\ work.clause \in Seq(UsedLits) /\ work.out \in Seq(UsedLits)
         /\ work.index \in Nat /\ work.seen \in SUBSET used
BY DEF CallsTyped, WorkTypes

(* What is put out is false, of lower levels, and of variables seen. *)
LEMMA OutIs ==
  ASSUME PlainTypes, CallsTyped, TrailInv, WorkInv, Analyzing
  PROVE  /\ Len(lim) \in Nat \ {0} /\ Seen \in SUBSET used
         /\ Out \in Seq(UsedLits) /\ DistinctVars(Out)
         /\ \A k \in DOMAIN Out :
              /\ IsFalse(Out[k]) /\ Out[k] \in UsedLits /\ Out[k][1] \in Seen
              /\ Level(Out[k][1]) \in 1 .. Len(lim) - 1
<1> DEFINE n == Len(lim)
           q == work.clause
           o == work.out
           S == {k \in Fresh : Level(q[k][1]) < n}
           w == Lower
<1>1. n \in Nat \ {0} /\ Analyzed(work, trail, n)
  <2>1. Len(lim) \in Nat
    BY StateIs
  <2> QED
    BY <2>1 DEF Analyzing, WorkInv, CurrentLevel
<1>2. q \in Seq(UsedLits) /\ o \in Seq(UsedLits) /\ work.seen \in SUBSET used
  BY WorkIs
<1>3. /\ \A k \in DOMAIN q : IsFalse(q[k]) /\ q[k] \in UsedLits
      /\ DistinctVars(q) /\ DistinctVars(o)
      /\ \A k \in DOMAIN o :
           /\ IsFalse(o[k]) /\ o[k][1] \in work.seen /\ o[k] \in UsedLits
           /\ \E d \in 1 .. n - 1 : LevelIn(trail, o[k][1], d)
  BY <1>1, <1>2, TrueIs DEF Analyzed
<1>4. w = Chosen(q, S)
  BY DEF Lower, CurrentLevel
<1>5. /\ Fresh = {k \in DOMAIN q : q[k][1] \notin work.seen /\ Level(q[k][1]) > 0}
      /\ Seen = work.seen \cup {q[k][1] : k \in Fresh}
      /\ Out = o \o w
  BY DEF Fresh, Seen, Out
<1> HIDE DEF n, q, o, w
<1>6. Seen \in SUBSET used
  <2>1. \A k \in DOMAIN q : q[k][1] \in used
    BY <1>3 DEF UsedLits
  <2> QED
    BY <1>2, <1>5, <2>1
<1>7. \A k \in S : /\ k \in DOMAIN q /\ k \in Fresh /\ q[k][1] \notin work.seen
                   /\ Level(q[k][1]) \in 1 .. n - 1
  <2> SUFFICES ASSUME NEW k \in S
               PROVE  Level(q[k][1]) \in 1 .. n - 1
    BY <1>5
  <2>1. Level(q[k][1]) > 0 /\ Level(q[k][1]) < n /\ k \in DOMAIN q
    BY <1>5
  <2>2. \E i \in DOMAIN trail : Level(q[k][1]) = trail[i].level
    BY <1>3, <2>1, FalseHasPlace
  <2>3. Level(q[k][1]) \in Nat
    <3>1. Len(lim) \in Nat /\ \A i \in DOMAIN trail : trail[i].level \in 0 .. Len(lim)
      BY StateIs
    <3>2. \A i \in DOMAIN trail : trail[i].level \in Nat
      BY <3>1
    <3> QED
      BY <2>2, <3>2
  <2> HIDE DEF S
  <2> QED
    BY <1>1, <2>1, <2>3
<1> HIDE DEF S
<1>8. S \in SUBSET DOMAIN q
  BY <1>7
<1>9. \A i, j \in S : q[i][1] = q[j][1] => i = j
  BY <1>3, <1>8 DEF DistinctVars
<1>10. /\ w \in Seq(UsedLits) /\ DistinctVars(w)
       /\ \A m \in DOMAIN w : \E i \in S : w[m] = q[i]
  BY <1>2, <1>4, <1>8, <1>9, ChosenIs
<1>11. \A i \in DOMAIN o : \A j \in DOMAIN w : o[i][1] # w[j][1]
  BY <1>3, <1>7, <1>10
<1>12. Out \in Seq(UsedLits) /\ DistinctVars(Out)
  BY <1>2, <1>3, <1>5, <1>10, <1>11, Joined, JoinedKeeps
<1>13. \A l \in UsedLits : \A d \in 1 .. n - 1 :
         LevelIn(trail, l[1], d) => Level(l[1]) = d
  <2> SUFFICES ASSUME NEW l \in UsedLits, NEW d \in 1 .. n - 1,
                      LevelIn(trail, l[1], d)
               PROVE  Level(l[1]) = d
    OBVIOUS
  <2>1. PICK i \in DOMAIN trail : trail[i].lit[1] = l[1] /\ trail[i].level = d
    BY DEF LevelIn
  <2>2. OneEach(trail)
    BY StateIs
  <2> QED
    BY <2>1, <2>2, PlaceIs
<1>14. ASSUME NEW k \in DOMAIN Out
       PROVE  /\ IsFalse(Out[k]) /\ Out[k] \in UsedLits /\ Out[k][1] \in Seen
              /\ Level(Out[k][1]) \in 1 .. n - 1
  <2>1. /\ DOMAIN Out = 1 .. Len(o) + Len(w)
        /\ \A i \in DOMAIN o : Out[i] = o[i]
        /\ \A i \in 1 .. Len(w) : Out[Len(o) + i] = w[i]
    BY <1>2, <1>5, <1>10, Joined
  <2>2. /\ Len(o) \in Nat /\ Len(w) \in Nat /\ DOMAIN o = 1 .. Len(o)
        /\ DOMAIN w = 1 .. Len(w)
    BY <1>2, <1>10
  <2>3. CASE k \in DOMAIN o
    <3>1. Out[k] = o[k]
      BY <2>1, <2>3
    <3>2. PICK d \in 1 .. n - 1 : LevelIn(trail, o[k][1], d)
      BY <1>3, <2>3
    <3>3. Level(o[k][1]) = d
      BY <1>3, <1>13, <2>3, <3>2
    <3> QED
      BY <1>3, <1>5, <2>3, <3>1, <3>2, <3>3
  <2>4. CASE k \notin DOMAIN o
    <3> DEFINE j == k - Len(o)
    <3>1. j \in 1 .. Len(w) /\ k = Len(o) + j
      BY <2>1, <2>2, <2>4
    <3> HIDE DEF j
    <3>2. Out[k] = w[j] /\ j \in DOMAIN w
      BY <2>1, <2>2, <3>1
    <3>3. PICK i \in S : w[j] = q[i]
      BY <1>10, <3>2
    <3>4. i \in DOMAIN q /\ i \in Fresh /\ Level(q[i][1]) \in 1 .. n - 1
      BY <1>7
    <3>5. q[i][1] \in Seen
      BY <1>5, <3>4
    <3> QED
      BY <1>3, <3>2, <3>3, <3>4, <3>5
  <2> QED
    BY <2>3, <2>4
<1> QED
  BY <1>1, <1>6, <1>12, <1>14 DEF n

(* The literals of the present level among those seen. *)
LEMMA PresentIs ==
  ASSUME PlainTypes, CallsTyped, TrailInv, WorkInv, Analyzing
  PROVE  /\ \A i \in Present : /\ i \in DOMAIN trail /\ i \in Nat
                               /\ trail[i].level = Len(lim)
                               /\ trail[i].lit[1] \in Seen
                               /\ lim[Len(lim)] < i /\ i <= work.index
         /\ Present # {} => Uip \in Present /\ \A i \in Present : i <= Uip
<1> DEFINE n == Len(lim)
<1>1. /\ n \in Nat \ {0} /\ n \in DOMAIN lim /\ lim[n] \in Nat
      /\ Analyzed(work, trail, n)
      /\ Len(trail) \in Nat /\ DOMAIN trail = 1 .. Len(trail)
      /\ Levelled(trail, lim)
      /\ \A i \in DOMAIN trail : trail[i].level \in 0 .. n
  <2>1. /\ Len(lim) \in Nat /\ DOMAIN lim = 1 .. Len(lim)
        /\ \A k \in DOMAIN lim : lim[k] \in 0 .. Len(trail)
    BY StateIs
  <2>2. n \in Nat \ {0} /\ n \in DOMAIN lim
    BY <2>1, OutIs
  <2> QED
    BY <2>1, <2>2, StateIs DEF Analyzing, WorkInv
<1>2. work.index \in Nat /\ work.index <= Len(trail)
  BY <1>1, WorkIs DEF Analyzed
<1>3. Present = {i \in lim[n] + 1 .. work.index : trail[i].lit[1] \in Seen}
  BY DEF Present, CurrentLevel
<1> HIDE DEF n
<1>4. ASSUME NEW i \in Present
      PROVE  /\ i \in DOMAIN trail /\ i \in Nat /\ trail[i].level = n
             /\ trail[i].lit[1] \in Seen /\ lim[n] < i /\ i <= work.index
  <2>1. i \in lim[n] + 1 .. work.index /\ trail[i].lit[1] \in Seen
    BY <1>3
  <2>2. i \in DOMAIN trail /\ lim[n] < i /\ i \in Nat /\ i <= work.index
    BY <1>1, <1>2, <2>1
  <2>3. n <= trail[i].level
    BY <1>1, <2>2 DEF Levelled
  <2>4. trail[i].level = n
    BY <1>1, <2>2, <2>3
  <2> QED
    BY <2>1, <2>2, <2>4
<1>5. ASSUME Present # {} PROVE Uip \in Present /\ \A i \in Present : i <= Uip
  <2>1. Present \in SUBSET Nat /\ \A i \in Present : i <= work.index
    BY <1>4
  <2> QED
    BY <1>2, <1>5, <2>1, GreatestOf DEF Uip
<1> QED
  BY <1>4, <1>5 DEF n

(* The literal resolved upon was forced: the guess of a level comes first. *)
LEMMA UipForced ==
  ASSUME PlainTypes, CallsTyped, TrailInv, WorkInv, Analyzing,
         NEW i \in Present, i # Uip
  PROVE  /\ Uip \in DOMAIN trail /\ HasReason(trail, Uip)
<1>1. /\ Uip \in DOMAIN trail /\ Uip \in Nat /\ i \in Nat /\ i <= Uip
      /\ trail[Uip].level = Len(lim) /\ lim[Len(lim)] < i
  BY PresentIs
<1>2. Len(lim) \in Nat \ {0} /\ GuessFirst(trail, lim)
      /\ lim[Len(lim)] \in Nat
  <2>1. Len(lim) \in Nat \ {0}
    BY OutIs
  <2>2. Len(lim) \in DOMAIN lim
    BY <2>1, StateIs
  <2> QED
    BY <2>1, <2>2, StateIs
<1>3. ASSUME trail[Uip].why = 0 PROVE FALSE
  <2>1. Uip = lim[Len(lim)] + 1
    BY <1>1, <1>2, <1>3 DEF GuessFirst
  <2> QED
    BY <1>1, <1>2, <2>1
<1> QED
  BY <1>1, <1>2, <1>3 DEF HasReason

LEMMA KeptIs ==
  ASSUME PlainTypes, CallsTyped, TrailInv, WorkInv, Analyzing
  PROVE  /\ Kept \in Seq(UsedLits) /\ DistinctVars(Kept)
         /\ \A k \in DOMAIN Kept : /\ IsFalse(Kept[k]) /\ Kept[k] \in UsedLits
                                   /\ Level(Kept[k][1]) \in 1 .. Len(lim) - 1
                                   /\ Level(Kept[k][1]) <= BackLevel
         /\ BackLevel \in 0 .. Len(lim) - 1
         /\ Kept # << >> => /\ BackLevel > 0 /\ Foremost \in DOMAIN Kept
                            /\ Level(Kept[Foremost][1]) = BackLevel
<1> DEFINE n == Len(lim)
           S == {k \in DOMAIN Out : ~ Redundant(Out[k][1])}
<1>1. /\ n \in Nat \ {0} /\ Out \in Seq(UsedLits) /\ DistinctVars(Out)
      /\ \A k \in DOMAIN Out : /\ IsFalse(Out[k]) /\ Out[k] \in UsedLits
                               /\ Level(Out[k][1]) \in 1 .. n - 1
  BY OutIs
<1>2. Kept = Chosen(Out, S) /\ S \in SUBSET DOMAIN Out
  BY DEF Kept
<1> HIDE DEF S, n
<1>3. /\ Kept \in Seq(UsedLits) /\ DistinctVars(Kept)
      /\ \A m \in DOMAIN Kept : \E i \in S : Kept[m] = Out[i]
  <2>1. \A i, j \in S : Out[i][1] = Out[j][1] => i = j
    BY <1>1, <1>2 DEF DistinctVars
  <2> QED
    BY <1>1, <1>2, <2>1, ChosenIs
<1>4. \A k \in DOMAIN Kept : /\ IsFalse(Kept[k]) /\ Kept[k] \in UsedLits
                             /\ Level(Kept[k][1]) \in 1 .. n - 1
  BY <1>1, <1>2, <1>3
<1>5. CASE Kept = << >>
  <2>1. BackLevel = 0 /\ DOMAIN Kept = {}
    BY <1>5 DEF BackLevel
  <2> QED
    BY <1>1, <1>3, <1>5, <2>1 DEF n
<1>6. CASE Kept # << >>
  <2>1. KeptLevels = {Level(Kept[k][1]) : k \in DOMAIN Kept}
    BY DEF KeptLevels, Range
  <2>2. 1 \in DOMAIN Kept
    BY <1>3, <1>6
  <2>3. /\ KeptLevels \in SUBSET Nat /\ KeptLevels # {}
        /\ \A d \in KeptLevels : d <= n /\ d \in 1 .. n - 1
    BY <1>1, <1>4, <2>1, <2>2
  <2>4. BackLevel = Greatest(KeptLevels)
    BY <1>6 DEF BackLevel
  <2>5. BackLevel \in KeptLevels /\ \A d \in KeptLevels : d <= BackLevel
    BY <1>1, <2>3, <2>4, GreatestOf
  <2> DEFINE F == {k \in DOMAIN Kept : Level(Kept[k][1]) = BackLevel}
  <2>6. F \in SUBSET Nat /\ F # {}
    <3>1. DOMAIN Kept \subseteq Nat
      BY <1>3
    <3>2. \E k \in DOMAIN Kept : Level(Kept[k][1]) = BackLevel
      BY <2>1, <2>5
    <3> QED
      BY <3>1, <3>2
  <2>7. Foremost = Least(F)
    BY DEF Foremost
  <2>8. Foremost \in F
    BY <2>6, <2>7, LeastOf
  <2>9. \A k \in DOMAIN Kept : Level(Kept[k][1]) <= BackLevel
    BY <2>1, <2>5
  <2>10. BackLevel \in 1 .. n - 1 /\ BackLevel > 0 /\ BackLevel \in 0 .. n - 1
    BY <1>1, <2>3, <2>5
  <2> QED
    BY <1>3, <1>4, <2>8, <2>9, <2>10 DEF n
<1> QED
  BY <1>5, <1>6

(* A literal that is false and not above level n stays so going back to n. *)
LEMMA FalseStays ==
  ASSUME PlainTypes, TrailInv, NEW n \in Nat, NEW l \in UsedLits, IsFalse(l),
         Level(l[1]) <= n
  PROVE  FalseIn(TrailUpTo(n), l)
<1>1. PICK i \in DOMAIN trail : /\ trail[i].lit = Neg(l)
                                /\ Level(l[1]) = trail[i].level
  BY FalseHasPlace
<1>2. next \in Nat /\ next <= next
  BY StateIs
<1>3. i \in DOMAIN TrailUpTo(n) /\ TrailUpTo(n)[i] = trail[i]
  BY <1>1, <1>2, BackIs DEF Prefix
<1> QED
  BY <1>1, <1>3 DEF FalseIn, TrueIn

LEMMA LearntIs ==
  ASSUME PlainTypes, CallsTyped, TrailInv, WorkInv, Analyzing, Present # {}
  PROVE  /\ Asserting \in UsedLits /\ OpenIn(TrailUpTo(BackLevel), Asserting)
         /\ BackLevel \in 0 .. Len(lim) - 1
         /\ Kept # << >> =>
              /\ BackLevel > 0
              /\ LearntClause \in Seq(UsedLits) /\ DistinctVars(LearntClause)
              /\ Len(LearntClause) > 1 /\ LearntClause[1] = Asserting
              /\ \A k \in 2 .. Len(LearntClause) :
                   FalseIn(TrailUpTo(BackLevel), LearntClause[k])
<1> DEFINE b == BackLevel
           t == TrailUpTo(b)
           a == Asserting
           s == Swap(Kept, 1, Foremost)
           one == <<a>>
<1>1. /\ Uip \in DOMAIN trail /\ trail[Uip].level = Len(lim)
      /\ trail[Uip].lit \in UsedLits
  <2>1. Uip \in DOMAIN trail /\ trail[Uip].level = Len(lim)
    BY PresentIs
  <2> QED
    BY <2>1, StateIs
<1>2. a = Neg(trail[Uip].lit) /\ a[1] = trail[Uip].lit[1] /\ a \in UsedLits
  <2>1. a = Neg(trail[Uip].lit)
    BY DEF Asserting
  <2>2. UsedLits \subseteq NatLits
    BY StateIs
  <2>3. a[1] = trail[Uip].lit[1]
    BY <1>1, <2>1, <2>2, Numbered
  <2>4. Neg(trail[Uip].lit) \in UsedLits
    BY <1>1 DEF Neg, UsedLits
  <2> QED
    BY <2>1, <2>3, <2>4
<1>3. /\ Kept \in Seq(UsedLits) /\ DistinctVars(Kept)
      /\ \A k \in DOMAIN Kept : /\ IsFalse(Kept[k]) /\ Kept[k] \in UsedLits
                                /\ Level(Kept[k][1]) \in 1 .. Len(lim) - 1
                                /\ Level(Kept[k][1]) <= b
      /\ b \in 0 .. Len(lim) - 1
      /\ Kept # << >> => b > 0 /\ Foremost \in DOMAIN Kept
  BY KeptIs
<1>4. Len(lim) \in Nat /\ next \in Nat /\ b \in Nat /\ b < Len(lim) /\ OneEach(trail)
  BY <1>3, StateIs
<1> HIDE DEF a, b
<1>5. OpenIn(t, a)
  <2>1. ASSUME NEW i \in DOMAIN t, t[i].lit[1] = a[1] PROVE FALSE
    <3>1. i \in DOMAIN trail /\ trail[i] = t[i] /\ trail[i].level <= b
      BY <1>4, BackIs DEF Prefix
    <3>2. i = Uip
      BY <1>1, <1>2, <1>4, <2>1, <3>1 DEF OneEach
    <3> QED
      BY <1>1, <1>4, <3>1, <3>2
  <2>2. Neg(a)[1] = a[1]
    BY <1>2, StateIs, Numbered
  <2> QED
    BY <2>1, <2>2 DEF OpenIn, TrueIn
<1>6. ASSUME Kept # << >>
      PROVE  /\ LearntClause \in Seq(UsedLits) /\ DistinctVars(LearntClause)
             /\ Len(LearntClause) > 1 /\ LearntClause[1] = a
             /\ \A k \in 2 .. Len(LearntClause) : FalseIn(t, LearntClause[k])
  <2>1. LearntClause = one \o s
    BY <1>6 DEF LearntClause, a
  <2>2. 1 \in DOMAIN Kept /\ Foremost \in DOMAIN Kept /\ Len(Kept) > 0
    BY <1>3, <1>6
  <2>3. s \in Seq(UsedLits) /\ Len(s) = Len(Kept)
    BY <1>3, <2>2, Swapped
  <2>4. DistinctVars(s) /\ Elements(s) = Elements(Kept)
    BY <1>3, <2>2, SwapKeeps
  <2>5. one \in Seq(UsedLits) /\ Len(one) = 1 /\ DOMAIN one = {1} /\ one[1] = a
    BY <1>2
  <2> HIDE DEF s, one
  <2>6. \A k \in DOMAIN s : /\ IsFalse(s[k]) /\ s[k] \in UsedLits
                            /\ Level(s[k][1]) \in 1 .. Len(lim) - 1
                            /\ Level(s[k][1]) <= b
    <3> SUFFICES ASSUME NEW k \in DOMAIN s
                 PROVE  \E i \in DOMAIN Kept : s[k] = Kept[i]
      BY <1>3
    <3> QED
      BY <2>4 DEF Elements
  <2>7. \A k \in DOMAIN s : s[k][1] # a[1]
    <3> SUFFICES ASSUME NEW k \in DOMAIN s, s[k][1] = a[1] PROVE FALSE
      OBVIOUS
    <3>1. Level(s[k][1]) = Len(lim)
      BY <1>1, <1>2, <1>4, PlaceIs
    <3>2. Level(s[k][1]) \in 1 .. Len(lim) - 1
      BY <2>6
    <3> QED
      BY <1>4, <3>1, <3>2
  <2>8. DistinctVars(one)
    BY <2>5 DEF DistinctVars
  <2>9. DistinctVars(one \o s)
    BY <2>3, <2>4, <2>5, <2>7, <2>8, JoinedKeeps
  <2>10. /\ one \o s \in Seq(UsedLits) /\ Len(one \o s) = 1 + Len(s)
         /\ (one \o s)[1] = a
         /\ \A m \in 1 .. Len(s) : (one \o s)[1 + m] = s[m]
    <3>1. s \in Seq(UsedLits) /\ one \in Seq(UsedLits)
      BY <2>3, <2>5
    <3>2. /\ one \o s \in Seq(UsedLits) /\ Len(one \o s) = Len(one) + Len(s)
          /\ \A i \in DOMAIN one : (one \o s)[i] = one[i]
          /\ \A m \in 1 .. Len(s) : (one \o s)[Len(one) + m] = s[m]
      BY <3>1, Joined
    <3>3. Len(one) = 1 /\ 1 \in DOMAIN one /\ one[1] = a
      BY <2>5
    <3> QED
      BY <3>2, <3>3
  <2>11. Len(s) \in Nat /\ DOMAIN s = 1 .. Len(s) /\ Len(s) > 0
    <3>1. Len(s) \in Nat /\ DOMAIN s = 1 .. Len(s)
      BY <2>3
    <3> QED
      BY <2>2, <2>3, <3>1
  <2> DEFINE c == one \o s
  <2> HIDE DEF c
  <2>12. ASSUME NEW k \in 2 .. Len(c) PROVE FalseIn(t, c[k])
    <3> DEFINE m == k - 1
    <3>1. m \in 1 .. Len(s) /\ k = 1 + m
      BY <2>10, <2>11 DEF c
    <3> HIDE DEF m
    <3>2. c[k] = s[m] /\ m \in DOMAIN s
      BY <2>10, <2>11, <3>1 DEF c
    <3> QED
      BY <1>4, <2>6, <3>2, FalseStays
  <2>13. LearntClause = c
    BY <2>1 DEF c
  <2> QED
    BY <2>9, <2>10, <2>11, <2>12, <2>13 DEF c
<1> QED
  BY <1>2, <1>3, <1>5, <1>6 DEF a, b

---------------------------------------------------------------------------
(* The types of what is neither trail nor clause.                          *)
FlatTypes ==
  /\ ok \in BOOLEAN
  /\ simplified \in Nat \cup {-1}
  /\ phase \in [Vars -> BOOLEAN] /\ model \in [Vars -> BOOLEAN]
  /\ pc \in Places
  /\ marks \in Seq(Nat)
  /\ answer \in {"none", "sat", "unsat", "undef"}
  /\ slips \subseteq Slips

LEMMA FoundTyped == [v \in Vars |-> IsTrue(<<v, TRUE>>)] \in [Vars -> BOOLEAN]
  BY DEF IsTrue

LEMMA MarksTyped ==
  ASSUME marks \in Seq(Nat), Len(lim) \in Nat
  PROVE  /\ Append(marks, CurrentLevel) \in Seq(Nat)
         /\ marks # << >> => /\ SubSeq(marks, 1, Len(marks) - 1) \in Seq(Nat)
                             /\ marks[Len(marks)] \in Nat
  BY DEF CurrentLevel

LEMMA FlatStep ==
  ASSUME PlainTypes, CallsTyped, TrailInv, Next
  PROVE  used' = used /\ FlatTypes'
<1>1. FlatTypes
  BY DEF PlainTypes, FlatTypes
<1>2. Len(trail) \in Nat /\ Len(lim) \in Nat
  BY StateIs
<1>3. marks \in Seq(Nat)
  BY <1>1 DEF FlatTypes
<1> USE <1>1, <1>2 DEF FlatTypes
<1>4. CASE AddAClause \/ AddASingle \/ AddAPair
  <2>1. ok' \in BOOLEAN /\ (pc' = pc \/ pc' = "propagate")
    <3>1. Adding
      BY <1>4, ClauseAdds, SingleAdds, PairAdds
    <3> QED
      BY <3>1 DEF Adding
  <2>2. slips' \subseteq Slips
    BY <1>4 DEF AddAClause, AddASingle, AddAPair, Slips
  <2>3. /\ UNCHANGED <<used, simplified, phase, model, marks>>
        /\ answer' = "none"
    BY <1>4 DEF AddAClause, AddASingle, AddAPair, Adds
  <2> QED
    BY <2>1, <2>2, <2>3 DEF Places
<1>5. CASE AddFinished \/ AddRefutes \/ LightSolve
  BY <1>5 DEF AddFinished, AddRefutes, LightSolve, Places, outcome
<1>6. CASE Reset \/ PopCheck
  BY <1>6, <1>3, MarksTyped DEF Reset, PopCheck, GoesBack, outcome
<1>7. CASE AnswerKnown \/ Attempt
  BY <1>7, <1>3, MarksTyped
     DEF AnswerKnown, Attempt, Marked, Places, Slips, outcome
<1>8. CASE NextWatchList \/ VisitTrue \/ VisitMoves \/ VisitForces
  BY <1>8 DEF NextWatchList, VisitTrue, VisitMoves, VisitForces, Keep, Moves,
              UnchangedByVisit, outcome
<1>9. CASE VisitFails \/ VisitSettles \/ VisitRefutes \/ VisitSwaps \/ VisitClashes
  BY <1>9 DEF VisitFails, VisitSettles, VisitRefutes, VisitSwaps, VisitClashes,
              Keep, Moves, Conflict, UnchangedByVisit, ExposedIf, outcome,
              Places, Slips
<1>10. CASE Resolve \/ SearchLearns \/ TryBacktracks
  BY <1>10 DEF Resolve, SearchLearns, TryBacktracks, Learn, outcome, Places
<1>11. CASE TrySucceeds \/ Denied \/ CheckSucceeds \/ AttemptRefutes
  BY <1>11 DEF TrySucceeds, Denied, CheckSucceeds, AttemptRefutes, Ends, Finish,
               UnchangedInAttempt, Places, Slips
<1>12. CASE AssertSucceeds \/ AssertFails \/ CheckFails
  BY <1>12 DEF AssertSucceeds, AssertFails, CheckFails, Finish, LeavesExposed,
               ExposedIf, UnchangedInAttempt, Places, Slips
<1>13. CASE Solve \/ Refused \/ SearchRefutes
  BY <1>13 DEF Solve, Refused, SearchRefutes, Answers, UnchangedByAnswer,
               UnchangedInSearch, Places
<1>14. CASE RefutesTooLate \/ RestartsTooLate \/ AssumesTooLate
  BY <1>14 DEF RefutesTooLate, RestartsTooLate, AssumesTooLate, Bail, Answers,
               UnchangedByAnswer, UnchangedInSearch, Places, Slips
<1>15. CASE AssumeFalse \/ FoundTooLate
  BY <1>15 DEF AssumeFalse, FoundTooLate, Answers, UnchangedByAnswer,
               UnchangedInSearch, Places
<1>16. CASE ModelFound
  BY <1>16, FoundTyped DEF ModelFound, Answers, UnchangedByAnswer,
               UnchangedInSearch, Places
<1>17. CASE Restart \/ AssumeTrue \/ AssumeOpen \/ Branch
  BY <1>17 DEF Restart, AssumeTrue, AssumeOpen, Branch, Decide, UnchangedInside,
               UnchangedInSearch, Places
<1>18. CASE Reduce \/ Tidy
  BY <1>18 DEF Reduce, Tidy, SimplifyAndCompact, Compact, UnchangedInside,
               UnchangedInSearch, Places
<1>19. CASE Returned
  BY <1>19 DEF Returned, vars, outcome
<1> QED
  BY <1>4, <1>5, <1>6, <1>7, <1>8, <1>9, <1>10, <1>11, <1>12, <1>13, <1>14, <1>15, <1>16, <1>17, <1>18, <1>19 DEF Next

---------------------------------------------------------------------------
(* The calls and what analyze() has.                                       *)
LEMMA NoCallTyped == NoCall \in CallTypes
<1>1. << >> \in Seq(UsedLits)
  OBVIOUS
<1> QED
  BY <1>1 DEF NoCall, CallTypes, Phases

LEMMA NoWorkTyped == NoWork \in WorkTypes
<1>1. << >> \in Seq(UsedLits) /\ {} \in SUBSET used /\ 0 \in Nat
  OBVIOUS
<1> QED
  BY <1>1 DEF NoWork, WorkTypes

LEMMA BeginTyped ==
  ASSUME NEW op \in Phases, NEW lits \in Seq(UsedLits)
  PROVE  Begin(op, lits) \in CallTypes
  BY DEF Begin, CallTypes

LEMMA CallChanges ==
  ASSUME call \in CallTypes
  PROVE  /\ \A op \in Phases : [call EXCEPT !.op = op] \in CallTypes
         /\ [call EXCEPT !.good = FALSE] \in CallTypes
  BY DEF CallTypes

LEMMA ConflictTyped ==
  ASSUME NEW lits \in Seq(UsedLits), Id \in Nat, Len(trail') \in Nat,
         Conflict(lits)
  PROVE  work' \in WorkTypes
<1>1. << >> \in Seq(UsedLits) /\ {} \in SUBSET used
  OBVIOUS
<1>2. work' = [clause |-> lits, id |-> Id, index |-> Len(trail'), seen |-> {},
               out |-> << >>]
  BY DEF Conflict, NoWork
<1> QED
  BY <1>1, <1>2 DEF WorkTypes

LEMMA TypesKept ==
  ASSUME used' = used
  PROVE  UsedLits' = UsedLits /\ CallTypes' = CallTypes /\ WorkTypes' = WorkTypes
  BY DEF UsedLits, CallTypes, WorkTypes

(* The calls still to come: the next one goes, or none. *)
LEMMA NextGoes ==
  ASSUME CallsTyped, calls' = calls \/ \E op \in Ops : NextCall(op)
  PROVE  /\ calls' \in Seq([op : Ops, lits : Seq(UsedLits)])
         /\ \A i \in DOMAIN calls' : WellFormed(calls'[i])
<1>1. CASE calls' = calls
  BY <1>1 DEF CallsTyped
<1>2. CASE \E op \in Ops : NextCall(op)
  BY <1>2, CallIs
<1> QED
  BY <1>1, <1>2

LEMMA VisitsType ==
  ASSUME PlainTypes, CallsTyped, TrailInv, ListsInv, Len(trail') \in Nat,
         VisitFails \/ VisitRefutes \/ VisitClashes
  PROVE  work' \in WorkTypes
<1>1. CASE VisitFails
  <2>1. Turned \in Seq(UsedLits) /\ Id \in Nat
    BY <1>1, TurnedIs, ReadingIs DEF VisitFails, Reading
  <2> QED
    BY <1>1, <2>1, ConflictTyped DEF VisitFails
<1>2. CASE VisitRefutes
  <2>1. C.lits \in Seq(UsedLits) /\ Id \in Nat
    BY <1>2, HereIs, ReadingIs DEF VisitRefutes, Reading
  <2> QED
    BY <1>2, <2>1, ConflictTyped DEF VisitRefutes
<1>3. CASE VisitClashes
  <2> DEFINE k == Least(Second)
             front == IF k > Here THEN Swap(C.lits, Here, 1) ELSE C.lits
             second == Swap(front, k, 2)
             pair == Swap(second, IndexOf(second, Neg(P)), 1)
             two == SubSeq(pair, 1, 2)
  <2>1. Reading(TRUE) /\ Second # {} /\ Conflict(two)
    BY <1>3 DEF VisitClashes
  <2>2. pair \in Seq(UsedLits) /\ Len(pair) = Len(C.lits) /\ Len(C.lits) > 2
        /\ Len(C.lits) \in Nat
    BY <2>1, ClashIs, HereIs
  <2> HIDE DEF pair
  <2>3. two \in Seq(UsedLits)
    BY <2>2
  <2> HIDE DEF two
  <2>4. Id \in Nat
    BY <2>1, ReadingIs DEF Reading
  <2> QED
    BY <2>1, <2>3, <2>4, ConflictTyped
<1> QED
  BY <1>1, <1>2, <1>3

LEMMA ResolveTypes ==
  ASSUME PlainTypes, CallsTyped, TrailInv, ListsInv, ReasonsInv, WorkInv, Resolve
  PROVE  work' \in WorkTypes
<1> DEFINE c == Tail(clauses[trail[Uip].why].lits)
<1>1. Analyzing /\ \E i \in Present : i # Uip
  BY DEF Resolve
<1>2. Uip \in DOMAIN trail /\ HasReason(trail, Uip)
  BY <1>1, UipForced
<1>3. trail[Uip].why \in DOMAIN clauses
  BY <1>2 DEF ReasonsInv, Reasoned
<1>4. Clean(clauses[trail[Uip].why], used)
  BY <1>3 DEF ListsInv, ClausesOf
<1>5. c \in Seq(UsedLits)
  <2>1. /\ clauses[trail[Uip].why].lits \in Seq(UsedLits)
        /\ Len(clauses[trail[Uip].why].lits) \in Nat \ {0, 1}
    BY <1>4, StateIs, WatchedIs DEF UsedLits
  <2> QED
    BY <2>1
<1>6. Seen \in SUBSET used /\ Out \in Seq(UsedLits)
  BY <1>1, OutIs
<1>7. Uip - 1 \in Nat
  BY <1>2, StateIs
<1> HIDE DEF c
<1>8. work' = [work EXCEPT !.clause = c, !.index = Uip - 1, !.seen = Seen,
                           !.out = Out]
  BY DEF Resolve, c
<1>9. work \in WorkTypes
  BY DEF CallsTyped
<1> QED
  BY <1>5, <1>6, <1>7, <1>8, <1>9 DEF WorkTypes

LEMMA CallsStep ==
  ASSUME PlainTypes, CallsTyped, TrailInv, ListsInv, ReasonsInv, WorkInv, Next,
         used' = used, Len(trail') \in Nat
  PROVE  CallsTyped'
<1> DEFINE Typed == calls' = calls \/ \E op \in Ops : NextCall(op)
           CallIn == call' \in CallTypes
           WorkIn == work' \in WorkTypes
<1>1. /\ call \in CallTypes /\ work \in WorkTypes
      /\ NoCall \in CallTypes /\ NoWork \in WorkTypes
  BY NoCallTyped, NoWorkTyped DEF CallsTyped
<1>2. /\ \A op \in Phases : [call EXCEPT !.op = op] \in CallTypes
      /\ [call EXCEPT !.good = FALSE] \in CallTypes
  BY <1>1, CallChanges
<1>3. Attempts \subseteq Phases /\ {"fact", "tidy", "denied", "solve"} \subseteq Phases
  BY DEF Phases, Ops, Attempts
<1> SUFFICES Typed /\ CallIn /\ WorkIn
  <2>1. ASSUME Typed
        PROVE  /\ calls' \in Seq([op : Ops, lits : Seq(UsedLits)])
               /\ \A i \in DOMAIN calls' : WellFormed(calls'[i])
    BY <2>1, NextGoes
  <2>2. UsedLits' = UsedLits /\ CallTypes' = CallTypes /\ WorkTypes' = WorkTypes
    BY TypesKept
  <2> QED
    BY <2>1, <2>2 DEF CallsTyped
<1>4. CASE AddAClause \/ AddASingle \/ AddAPair
  <2>1. Adding
    BY <1>4, ClauseAdds, SingleAdds, PairAdds
  <2>2. CallIn
    BY <1>1, <1>3, <2>1, BeginTyped DEF Adding
  <2>3. Typed /\ WorkIn
    BY <1>1, <1>4 DEF AddAClause, AddASingle, AddAPair, Adds, Ops
  <2> QED
    BY <2>2, <2>3
<1>5. CASE AddFinished \/ AddRefutes \/ LightSolve \/ Reset \/ PopCheck \/ AnswerKnown
  BY <1>1, <1>5 DEF AddFinished, AddRefutes, LightSolve, Reset, PopCheck, GoesBack,
                    AnswerKnown, Ops
<1>6. CASE Attempt
  <2>1. PICK op \in Attempts : /\ NextCall(op) /\ call' = Begin(op, Args)
                               /\ work' = work
    BY <1>6 DEF Attempt
  <2>2. Args \in Seq(UsedLits) /\ op \in Phases /\ op \in Ops
    BY <1>3, <2>1, CallIs DEF Ops
  <2> QED
    BY <1>1, <2>1, <2>2, BeginTyped
<1>7. CASE \/ NextWatchList \/ VisitTrue \/ VisitMoves \/ VisitForces
           \/ VisitSettles \/ VisitSwaps
  BY <1>1, <1>7 DEF NextWatchList, VisitTrue, VisitMoves, VisitForces, VisitSettles,
                    VisitSwaps, Keep, Moves, UnchangedByVisit
<1>8. CASE VisitFails \/ VisitRefutes \/ VisitClashes
  <2>1. WorkIn
    BY <1>8, VisitsType
  <2>2. Typed /\ CallIn
    BY <1>1, <1>8 DEF VisitFails, VisitRefutes, VisitClashes, Conflict,
                      UnchangedByVisit
  <2> QED
    BY <2>1, <2>2
<1>9. CASE Resolve
  BY <1>1, <1>9, ResolveTypes DEF Resolve
<1>10. CASE SearchLearns \/ TryBacktracks
  BY <1>1, <1>2, <1>10 DEF SearchLearns, TryBacktracks, Learn
<1>11. CASE TrySucceeds \/ Denied \/ CheckSucceeds \/ AttemptRefutes
  BY <1>1, <1>11 DEF TrySucceeds, Denied, CheckSucceeds, AttemptRefutes, Ends, Finish,
                     UnchangedInAttempt
<1>12. CASE AssertSucceeds \/ AssertFails \/ CheckFails
  BY <1>1, <1>2, <1>3, <1>12 DEF AssertSucceeds, AssertFails, CheckFails, Finish,
                                 UnchangedInAttempt
<1>13. CASE Solve
  <2>1. NextCall("solve") /\ call' = Begin("tidy", Args) /\ work' = work
    BY <1>13 DEF Solve
  <2>2. Args \in Seq(UsedLits)
    BY <2>1, CallIs
  <2> QED
    BY <1>1, <1>3, <2>1, <2>2, BeginTyped DEF Ops
<1>14. CASE Refused \/ SearchRefutes \/ AssumeFalse \/ FoundTooLate \/ ModelFound
  BY <1>1, <1>14 DEF Refused, SearchRefutes, AssumeFalse, FoundTooLate, ModelFound,
                     Answers, UnchangedByAnswer, UnchangedInSearch
<1>15. CASE RefutesTooLate \/ RestartsTooLate \/ AssumesTooLate
  BY <1>1, <1>15 DEF RefutesTooLate, RestartsTooLate, AssumesTooLate, Bail, Answers,
                     UnchangedByAnswer, UnchangedInSearch
<1>16. CASE Restart \/ AssumeTrue \/ AssumeOpen \/ Branch \/ Reduce
  BY <1>1, <1>16 DEF Restart, AssumeTrue, AssumeOpen, Branch, Reduce, Decide,
                     UnchangedInside, UnchangedInSearch
<1>17. CASE Tidy
  BY <1>1, <1>2, <1>3, <1>17 DEF Tidy, UnchangedInside, UnchangedInSearch
<1>18. CASE Returned
  BY <1>1, <1>18 DEF Returned, vars
<1> QED
  BY <1>4, <1>5, <1>6, <1>7, <1>8, <1>9, <1>10, <1>11, <1>12, <1>13, <1>14, <1>15,
     <1>16, <1>17, <1>18 DEF Next

---------------------------------------------------------------------------
(* The trail.  An action leaves it, takes levels back, puts literals on it *)
(* or opens a level, if it does not learn or end an assertion.             *)
Stays == UNCHANGED <<trail, lim>> /\ qhead' \in 0 .. Len(trail)
GoesUp == \E n \in Nat : CancelUntil(n)
Gains(q, why) == /\ Grows(q, why) /\ why \in 0 .. next - 1 /\ lim' = lim
                 /\ Len(lim) = 0 \/ why # 0
                 /\ qhead' = qhead \/ qhead' = Len(trail')
GuessesLit(l) == /\ l \in UsedLits /\ IsOpen(l) /\ qhead' = qhead
               /\ trail' = Append(trail, Entry(l, 0, Len(lim) + 1))
               /\ lim' = Append(lim, Len(trail))
OpensLevel == /\ trail' = trail /\ qhead' = qhead
              /\ lim' = Append(lim, Len(trail))

LEMMA VisitsGain ==
  ASSUME PlainTypes, TrailInv, ListsInv
  PROVE  /\ VisitForces => \E q : Gains(q, Id)
         /\ VisitSettles \/ VisitRefutes => Len(lim) = 0 /\ \E q : Gains(q, Id)
<1>1. CASE VisitForces
  <2>1. Reading(FALSE) /\ IsOpen(Turned[1]) /\ Enqueue(Turned[1], Id) /\ lim' = lim
        /\ qhead' = qhead
    BY <1>1 DEF VisitForces, Keep, UnchangedByVisit
  <2>2. Id \in 1 .. next - 1
    BY <2>1, ReadingIs DEF Reading
  <2>3. Turned[1] \in UsedLits
    <3>1. Turned \in Seq(UsedLits) /\ 1 \in DOMAIN Turned
      BY <2>1, TurnedIs
    <3> QED
      BY <3>1
  <2>4. Grows(<<Turned[1]>>, Id)
    BY <2>1, <2>3, GrowsByOne
  <2>5. Id \in 0 .. next - 1 /\ Id # 0
    BY <2>2, StateIs
  <2>6. \E q : Gains(q, Id)
    BY <2>1, <2>4, <2>5 DEF Gains
  <2>7. ~ (VisitSettles \/ VisitRefutes)
    BY <1>1 DEF VisitForces, VisitSettles, VisitRefutes, Reading
  <2> QED
    BY <2>6, <2>7
<1>2. CASE VisitSettles \/ VisitRefutes
  <2>1. PICK S \in SUBSET OpenOnes : EnqueueAll(Chosen(C.lits, S), Id)
    BY <1>2 DEF VisitSettles, VisitRefutes
  <2>2. Reading(TRUE) /\ Len(lim) = 0 /\ lim' = lim
        /\ (qhead' = qhead \/ qhead' = Len(trail'))
    BY <1>2 DEF VisitSettles, VisitRefutes, Conflict, Keep, UnchangedByVisit,
                CurrentLevel
  <2> DEFINE q == Chosen(C.lits, S)
  <2>3. /\ C.lits \in Seq(UsedLits) /\ DistinctVars(C.lits)
        /\ S \in SUBSET DOMAIN C.lits
    BY <2>2, HereIs DEF OpenOnes
  <2>4. q \in Seq(UsedLits) /\ DistinctVars(q)
    <3>1. \A i, j \in S : C.lits[i][1] = C.lits[j][1] => i = j
      BY <2>3 DEF DistinctVars
    <3> QED
      BY <2>3, <3>1, ChosenIs
  <2>5. \A m \in DOMAIN q : IsOpen(q[m])
    <3>1. \A m \in DOMAIN q : \E i \in S : q[m] = C.lits[i]
      BY <2>3, ChosenIs
    <3> QED
      BY <3>1 DEF OpenOnes
  <2>6. trail' = Grown(trail, q, Id, Len(lim))
    BY <2>1 DEF EnqueueAll, Entries, Grown, Put, CurrentLevel
  <2>7. Id \in 0 .. next - 1
    <3>1. Id \in 1 .. next - 1
      BY <2>2, ReadingIs DEF Reading
    <3> QED
      BY <3>1, StateIs
  <2> HIDE DEF q
  <2>8. Gains(q, Id)
    BY <2>2, <2>4, <2>5, <2>6, <2>7 DEF Gains, Grows
  <2>9. ~ VisitForces
    BY <1>2 DEF VisitForces, VisitSettles, VisitRefutes, Reading
  <2> QED
    BY <2>2, <2>8, <2>9
<1> QED
  BY <1>1, <1>2

LEMMA AddsGain ==
  ASSUME PlainTypes, CallsTyped, TrailInv, AddAClause \/ AddASingle \/ AddAPair
  PROVE  Len(lim) = 0 /\ \E q : Gains(q, 0)
<1>1. PICK q : Grows(q, 0)
  <2>1. Adding
    BY ClauseAdds, SingleAdds, PairAdds
  <2> QED
    BY <2>1 DEF Adding
<1>2. lim' = lim /\ qhead' = qhead /\ Len(lim) = 0
  BY DEF AddAClause, AddASingle, AddAPair, Adds, CurrentLevel
<1>3. 0 \in 0 .. next - 1
  BY StateIs
<1> QED
  BY <1>1, <1>2, <1>3 DEF Gains

(* Going back to a level that is marked. *)
LEMMA GoesUpIs ==
  ASSUME PlainTypes, CallInv, TrailInv,
         \/ Reset \/ PopCheck \/ CheckFails \/ RefutesTooLate \/ Restart
         \/ RestartsTooLate \/ AssumeFalse \/ AssumesTooLate \/ ModelFound
         \/ FoundTooLate
  PROVE  GoesUp
<1>1. CASE Reset
  BY <1>1 DEF Reset, GoesBack, GoesUp
<1>2. CASE PopCheck
  <2>1. marks # << >> /\ marks[Len(marks)] \in Nat
    <3>1. marks \in Seq(Nat) /\ Len(lim) \in Nat
      BY StateIs DEF PlainTypes
    <3> QED
      BY <1>2, <3>1, MarksTyped DEF PopCheck
  <2> QED
    BY <1>2, <2>1 DEF PopCheck, GoesBack, GoesUp
<1>3. CASE CheckFails
  <2>1. marks # << >>
    BY <1>3 DEF CheckFails, CallInv, During
  <2>2. marks[Len(marks)] \in Nat
    <3>1. marks \in Seq(Nat) /\ Len(lim) \in Nat
      BY StateIs DEF PlainTypes
    <3> QED
      BY <2>1, <3>1, MarksTyped
  <2> QED
    BY <1>3, <2>2 DEF CheckFails, GoesUp
<1>4. CASE \/ RefutesTooLate \/ Restart \/ RestartsTooLate \/ AssumeFalse
           \/ AssumesTooLate \/ ModelFound \/ FoundTooLate
  <2>1. CancelUntil(0)
    BY <1>4 DEF RefutesTooLate, Restart, RestartsTooLate, AssumeFalse,
                AssumesTooLate, ModelFound, FoundTooLate, Bail
  <2> QED
    BY <2>1 DEF GoesUp
<1> QED
  BY <1>1, <1>2, <1>3, <1>4

(* Assumptions are literals of the job. *)
LEMMA AssumptionIs ==
  ASSUME PlainTypes, CallsTyped, TrailInv, Assuming
  PROVE  Assumption \in UsedLits
<1>1. call.lits \in Seq(UsedLits)
  BY DEF CallsTyped, CallTypes
<1>2. Len(lim) \in Nat /\ Len(lim) < Len(call.lits)
  BY StateIs DEF Assuming, CurrentLevel
<1>3. Len(lim) + 1 \in DOMAIN call.lits
  BY <1>1, <1>2
<1> QED
  BY <1>1, <1>3 DEF Assumption, CurrentLevel

LEMMA GuessesIs ==
  ASSUME PlainTypes, CallsTyped, TrailInv, Attempt \/ AssumeOpen \/ Branch
  PROVE  \E l \in UsedLits : GuessesLit(l)
<1>1. CASE Attempt
  <2>1. PICK op \in Attempts :
          /\ NextCall(op) /\ ~ Known(op, Args[1])
          /\ lim' = Append(lim, Len(trail))
          /\ trail' = Append(trail, Entry(Args[1], 0, CurrentLevel + 1))
          /\ qhead' = qhead
    BY <1>1 DEF Attempt
  <2>2. Args \in Seq(UsedLits) /\ Len(Args) = 1
    BY <2>1, CallIs DEF WellFormed, Args
  <2>3. Args[1] \in UsedLits
    BY <2>2
  <2> QED
    BY <2>1, <2>3 DEF GuessesLit, Known, CurrentLevel
<1>2. CASE AssumeOpen
  <2>1. Assumption \in UsedLits
    BY <1>2, AssumptionIs DEF AssumeOpen
  <2> QED
    BY <1>2, <2>1 DEF AssumeOpen, Decide, GuessesLit, CurrentLevel
<1>3. CASE Branch
  <2>1. PICK v \in OpenVars : Decide(<<v, phase[v]>>)
    BY <1>3 DEF Branch
  <2>2. v \in used /\ phase[v] \in BOOLEAN /\ IsOpen(<<v, TRUE>>)
    BY <2>1 DEF OpenVars, PlainTypes
  <2>3. <<v, phase[v]>> \in UsedLits
    BY <2>2 DEF UsedLits
  <2>4. IsOpen(<<v, phase[v]>>)
    <3>1. v \in Nat
      BY <2>2, StateIs
    <3>2. Neg(<<v, TRUE>>) = <<v, FALSE>> /\ Neg(<<v, FALSE>>) = <<v, TRUE>>
      BY <3>1, OfTheTwo
    <3>3. CASE phase[v]
      BY <2>2, <3>3
    <3>4. CASE ~ phase[v]
      BY <2>2, <3>2, <3>4 DEF IsOpen, IsFalse
    <3> QED
      BY <3>3, <3>4
  <2> QED
    BY <2>1, <2>3, <2>4 DEF Decide, GuessesLit, CurrentLevel
<1> QED
  BY <1>1, <1>2, <1>3

LEMMA TrailEffects ==
  ASSUME PlainTypes, CallsTyped, TrailInv, ListsInv, CallInv, Next
  PROVE  \/ Stays \/ GoesUp \/ (\E q, why : Gains(q, why))
         \/ (\E l \in UsedLits : GuessesLit(l)) \/ OpensLevel
         \/ Learn \/ AssertSucceeds \/ AssertFails
<1>1. qhead \in 0 .. Len(trail) /\ Len(trail) \in Nat
  BY StateIs
<1>2. CASE AddAClause \/ AddASingle \/ AddAPair
  BY <1>2, AddsGain
<1>3. CASE VisitForces \/ VisitSettles \/ VisitRefutes
  BY <1>3, VisitsGain
<1>4. CASE Attempt \/ AssumeOpen \/ Branch
  BY <1>4, GuessesIs
<1>5. CASE \/ Reset \/ PopCheck \/ CheckFails \/ RefutesTooLate \/ Restart
           \/ RestartsTooLate \/ AssumeFalse \/ AssumesTooLate \/ ModelFound
           \/ FoundTooLate
  BY <1>5, GoesUpIs
<1>6. CASE AssumeTrue
  BY <1>6 DEF AssumeTrue, OpensLevel
<1>7. CASE SearchLearns \/ TryBacktracks \/ AssertSucceeds \/ AssertFails
  BY <1>7 DEF SearchLearns, TryBacktracks
<1>8. CASE AddFinished \/ AddRefutes \/ LightSolve \/ AnswerKnown
  BY <1>1, <1>8 DEF AddFinished, AddRefutes, LightSolve, AnswerKnown, Stays,
                    assignment
<1>9. CASE NextWatchList
  <2>1. /\ trail' = trail /\ lim' = lim /\ qhead' = qhead + 1
        /\ qhead < Len(trail)
    BY <1>9 DEF NextWatchList, Pending, UnchangedByVisit
  <2> QED
    BY <1>1, <2>1 DEF Stays
<1>10. CASE VisitTrue \/ VisitMoves \/ VisitSwaps
  BY <1>1, <1>10 DEF VisitTrue, VisitMoves, VisitSwaps, Keep, Moves,
                     UnchangedByVisit, Stays
<1>11. CASE VisitFails \/ VisitClashes
  <2>1. /\ trail' = trail /\ lim' = lim /\ qhead' = Len(trail')
    BY <1>11 DEF VisitFails, VisitClashes, Conflict, UnchangedByVisit
  <2> QED
    BY <1>1, <2>1 DEF Stays
<1>12. CASE Resolve
  BY <1>1, <1>12 DEF Resolve, Stays, assignment
<1>13. CASE TrySucceeds \/ Denied \/ CheckSucceeds \/ AttemptRefutes
  BY <1>1, <1>13 DEF TrySucceeds, Denied, CheckSucceeds, AttemptRefutes, Ends,
                     Finish, Stays, assignment
<1>14. CASE Solve \/ Refused \/ SearchRefutes \/ Tidy \/ Reduce \/ Returned
  BY <1>1, <1>14 DEF Solve, Refused, SearchRefutes, Tidy, Reduce, Returned, vars,
                     Stays, assignment
<1> QED
  BY <1>2, <1>3, <1>4, <1>5, <1>6, <1>7, <1>8, <1>9, <1>10, <1>11, <1>12, <1>13,
     <1>14 DEF Next

(* One literal is put on a trail. *)
LEMMA SoundWithOne ==
  ASSUME NEW t, NEW L, NEW U \in SUBSET Nat, NEW n \in Nat, Sound(t, L, U, n),
         NEW l \in U \X BOOLEAN, OpenIn(t, l), NEW why \in 0 .. n - 1,
         Len(L) = 0 \/ why # 0
  PROVE  LET c == Append(t, Entry(l, why, Len(L)))
         IN  /\ Sound(c, L, U, n) /\ Len(c) = Len(t) + 1
             /\ \A i \in DOMAIN t : c[i] = t[i]
             /\ c[Len(t) + 1] = Entry(l, why, Len(L))
<1> DEFINE q == <<l>>
           e == Entry(l, why, Len(L))
           c == Append(t, e)
<1>1. q \in Seq(U \X BOOLEAN) /\ DOMAIN q = {1} /\ q[1] = l /\ Len(q) = 1
  OBVIOUS
<1>2. Put(q, why, Len(L)) = <<e>>
  BY <1>1 DEF Put
<1>3. t \in Seq(EntryTypes(U, n))
  BY DEF Sound
<1>4. DistinctVars(q) /\ \A m \in DOMAIN q : OpenIn(t, q[m])
  BY <1>1 DEF DistinctVars
<1> HIDE DEF q, e
<1>5. c = Grown(t, q, why, Len(L))
  BY <1>2, <1>3 DEF Grown
<1>6. c[Len(t) + 1] = e
  BY <1>3
<1> HIDE DEF c
<1>7. /\ Sound(c, L, U, n) /\ Len(c) = Len(t) + Len(q)
      /\ \A i \in DOMAIN t : c[i] = t[i]
  <2>1. q \in Seq(U \X BOOLEAN) /\ DistinctVars(q)
        /\ \A m \in DOMAIN q : OpenIn(t, q[m])
    BY <1>1, <1>4
  <2>2. /\ Sound(Grown(t, q, why, Len(L)), L, U, n)
        /\ Len(Grown(t, q, why, Len(L))) = Len(t) + Len(q)
        /\ \A i \in DOMAIN t : Grown(t, q, why, Len(L))[i] = t[i]
        /\ HasPut(Grown(t, q, why, Len(L)), t, q, why, Len(L))
    BY <2>1, SoundGrown
  <2> QED
    BY <1>5, <2>2
<1> QED
  BY <1>1, <1>6, <1>7 DEF c, e

(* What Learn and a failed assertion make of the trail. *)
LEMMA SoundBackWithOne ==
  ASSUME PlainTypes, TrailInv, NEW b \in Nat, b = 0 \/ b < Len(lim),
         NEW m \in Nat, next <= m,
         NEW l \in UsedLits, OpenIn(TrailUpTo(b), l), NEW why \in 0 .. m - 1,
         b = 0 \/ why # 0, used' = used,
         trail' = Append(TrailUpTo(b), Entry(l, why, b)), lim' = LimUpTo(b),
         next' = m, qhead' = QheadUpTo(b)
  PROVE  /\ TrailInv' /\ Len(trail') \in Nat /\ qhead' \in 0 .. Len(trail')
         /\ DOMAIN trail' = 1 .. Len(trail') /\ Len(lim') = b
         /\ Len(trail') = Len(TrailUpTo(b)) + 1
         /\ Prefix(TrailUpTo(b), trail')
         /\ trail'[Len(trail')] = Entry(l, why, b)
<1> DEFINE t == TrailUpTo(b)
           L == LimUpTo(b)
<1>1. /\ Sound(t, L, used, m)
      /\ Len(L) = IF Len(lim) <= b THEN Len(lim) ELSE b
      /\ Len(t) \in 0 .. Len(trail) /\ DOMAIN t = 1 .. Len(t)
      /\ QheadUpTo(b) \in 0 .. Len(t)
  BY BackIs
<1>2. Len(lim) \in Nat /\ used \in SUBSET Nat /\ Len(trail) \in Nat
  BY StateIs
<1>3. Len(L) = b
  BY <1>1, <1>2
<1> HIDE DEF t, L
<1>4. /\ Sound(trail', lim', used, m) /\ Len(trail') = Len(t) + 1
      /\ \A i \in DOMAIN t : trail'[i] = t[i]
      /\ trail'[Len(t) + 1] = Entry(l, why, b)
  <2>1. l \in used \X BOOLEAN /\ OpenIn(t, l)
    BY DEF UsedLits, t
  <2>2. trail' = Append(t, Entry(l, why, Len(L))) /\ lim' = L
    BY <1>3 DEF t, L
  <2>3. Len(L) = 0 \/ why # 0
    BY <1>3
  <2> QED
    BY <1>1, <1>2, <1>3, <2>1, <2>2, <2>3, SoundWithOne
<1>5. TrailInv'
  BY <1>4 DEF TrailInv
<1>6. Len(t) \in Nat
  BY <1>1, <1>2
<1>7. DOMAIN trail' = 1 .. Len(trail')
  <2>1. trail' \in Seq(EntryTypes(used, m))
    BY <1>4 DEF Sound
  <2> QED
    BY <2>1
<1>8. Len(trail') \in Nat /\ qhead' \in 0 .. Len(trail') /\ Len(trail') = Len(t) + 1
  BY <1>1, <1>4, <1>6 DEF t
<1>9. Prefix(t, trail') /\ trail'[Len(trail')] = Entry(l, why, b)
  BY <1>1, <1>4, <1>6, <1>7 DEF Prefix
<1>10. Len(lim') = b
  BY <1>3 DEF L
<1> QED
  BY <1>5, <1>7, <1>8, <1>9, <1>10 DEF t

LEMMA NextGrows ==
  ASSUME PlainTypes, CallsTyped, TrailInv, Next
  PROVE  /\ next' \in Nat \ {0} /\ next <= next' /\ at' \in Nat \ {0}
         /\ next' # next => \/ AddAClause \/ AddASingle \/ AddAPair
                            \/ Learn /\ Kept # << >>
<1> USE DEF database, assignment
<1>1. next \in Nat \ {0} /\ at \in Nat \ {0}
  BY StateIs
<1> SUFFICES /\ at' \in {at, at + 1, 1}
             /\ next' = next \/ ( /\ next' = next + 1
                                  /\ \/ AddAClause \/ AddASingle \/ AddAPair
                                     \/ Learn /\ Kept # << >>)
  BY <1>1
<1>2. CASE AddAClause \/ AddASingle \/ AddAPair
  <2>1. Addition
    <3>1. Adding
      BY <1>2, ClauseAdds, SingleAdds, PairAdds
    <3> QED
      BY <3>1 DEF Adding
  <2>2. next' = next \/ next' = next + 1
    BY <2>1 DEF Addition
  <2>3. at' = at
    BY <1>2 DEF AddAClause, AddASingle, AddAPair, Adds
  <2> QED
    BY <1>2, <2>2, <2>3
<1>3. CASE SearchLearns \/ TryBacktracks
  <2>1. Learn
    BY <1>3 DEF SearchLearns, TryBacktracks
  <2>2. next' = next \/ (next' = next + 1 /\ Kept # << >>)
    BY <2>1 DEF Learn, NewClause
  <2>3. at' = 1
    BY <2>1 DEF Learn
  <2> QED
    BY <2>1, <2>2, <2>3
<1>4. CASE \/ AddFinished \/ AddRefutes \/ LightSolve \/ AnswerKnown \/ Attempt
           \/ Reset \/ PopCheck
  BY <1>4 DEF AddFinished, AddRefutes, LightSolve, AnswerKnown, Attempt, Reset,
              PopCheck, GoesBack, CancelUntil
<1>5. CASE \/ NextWatchList \/ VisitTrue \/ VisitMoves \/ VisitForces
           \/ VisitSettles \/ VisitSwaps
  BY <1>5 DEF NextWatchList, VisitTrue, VisitMoves, VisitForces, VisitSettles,
              VisitSwaps, Keep, Moves, UnchangedByVisit
<1>6. CASE VisitFails \/ VisitRefutes \/ VisitClashes
  BY <1>6 DEF VisitFails, VisitRefutes, VisitClashes, Conflict, UnchangedByVisit
<1>7. CASE \/ Resolve \/ TrySucceeds \/ Denied \/ CheckSucceeds \/ AttemptRefutes
           \/ AssertSucceeds \/ AssertFails \/ CheckFails
  BY <1>7 DEF Resolve, TrySucceeds, Denied, CheckSucceeds, AttemptRefutes,
              AssertSucceeds, AssertFails, CheckFails, Ends, UnchangedInAttempt,
              CancelUntil, assignment
<1>8. CASE Solve \/ Refused \/ SearchRefutes \/ AssumeFalse \/ ModelFound \/ FoundTooLate
  BY <1>8 DEF Solve, Refused, SearchRefutes, AssumeFalse, ModelFound, FoundTooLate,
              UnchangedByAnswer, CancelUntil
<1>9. CASE RefutesTooLate \/ RestartsTooLate \/ AssumesTooLate \/ Restart
  BY <1>9 DEF RefutesTooLate, RestartsTooLate, AssumesTooLate, Bail, Restart,
              UnchangedByAnswer, CancelUntil
<1>10. CASE AssumeTrue \/ AssumeOpen \/ Branch \/ Reduce \/ Tidy \/ Returned
  BY <1>10 DEF AssumeTrue, AssumeOpen, Branch, Decide, Reduce, ReduceDB, Removed,
               Tidy, SimplifyAndCompact, Compact, Returned, vars
<1> QED
  BY <1>2, <1>3, <1>4, <1>5, <1>6, <1>7, <1>8, <1>9, <1>10 DEF Next

(* What a literal is guessed on. *)
LEMMA GuessKeepsSound ==
  ASSUME PlainTypes, TrailInv, NEW l \in UsedLits, GuessesLit(l), used' = used,
         next' \in Nat, next <= next'
  PROVE  /\ TrailInv' /\ Len(trail') = Len(trail) + 1 /\ Len(lim') = Len(lim) + 1
         /\ DOMAIN trail' = 1 .. Len(trail') /\ Prefix(trail, trail')
         /\ trail'[Len(trail) + 1] = Entry(l, 0, Len(lim) + 1)
<1>1. /\ Sound(trail, lim, used, next) /\ next \in Nat \ {0} /\ used \in SUBSET Nat
      /\ Len(trail) \in Nat /\ DOMAIN trail = 1 .. Len(trail)
  BY StateIs DEF TrailInv
<1>2. l \in used \X BOOLEAN /\ OpenIn(trail, l)
  BY TrueIs DEF GuessesLit, UsedLits
<1>3. /\ trail' = Append(trail, Entry(l, 0, Len(lim) + 1))
      /\ lim' = Append(lim, Len(trail))
  BY DEF GuessesLit
<1>4. /\ Sound(trail', lim', used, next) /\ Len(trail') = Len(trail) + 1
      /\ \A i \in DOMAIN trail : trail'[i] = trail[i]
      /\ trail'[Len(trail) + 1] = Entry(l, 0, Len(lim) + 1)
      /\ Len(lim') = Len(lim) + 1
  <2> DEFINE c == Append(trail, Entry(l, 0, Len(lim) + 1))
             M == Append(lim, Len(trail))
  <2>1. /\ Sound(c, M, used, next)
        /\ Len(c) = Len(trail) + 1
        /\ \A i \in DOMAIN trail : c[i] = trail[i]
        /\ c[Len(trail) + 1] = Entry(l, 0, Len(lim) + 1)
        /\ Len(M) = Len(lim) + 1
    BY <1>1, <1>2, SoundGuess
  <2>2. trail' = c /\ lim' = M
    BY <1>3
  <2> HIDE DEF c, M
  <2> QED
    BY <2>1, <2>2
<1>5. Sound(trail', lim', used, next')
  BY <1>1, <1>4, SoundWithMore
<1>6. DOMAIN trail' = 1 .. Len(trail')
  <2>1. trail' \in Seq(EntryTypes(used, next))
    BY <1>4 DEF Sound
  <2> QED
    BY <2>1
<1>7. Prefix(trail, trail')
  BY <1>1, <1>4, <1>6 DEF Prefix
<1> QED
  BY <1>4, <1>5, <1>6, <1>7 DEF TrailInv

(* An assertion that fails had guessed the only literal of its level. *)
LEMMA DeniedLit ==
  ASSUME PlainTypes, CallsTyped, TrailInv, CallInv, AssertFails
  PROVE  /\ Neg(Lit) \in UsedLits /\ OpenIn(TrailUpTo(0), Neg(Lit))
         /\ Len(lim) = 1 /\ LimUpTo(0) = << >>
<1>1. /\ Len(lim) = 1 /\ lim[1] + 1 \in DOMAIN trail /\ Len(call.lits) = 1
      /\ trail[lim[1] + 1].lit = Lit
  BY DEF AssertFails, During, CallInv
<1> DEFINE g == lim[1] + 1
           t == TrailUpTo(0)
<1>2. Lit \in UsedLits /\ trail[g].lit = Lit /\ g \in DOMAIN trail
  BY <1>1, StateIs
<1>3. Neg(Lit) \in UsedLits
  BY <1>2 DEF UsedLits, Neg
<1>4. LimUpTo(0) = << >>
  BY <1>1, StateIs DEF LimUpTo, CurrentLevel
<1>5. trail[g].level = 1
  <2>1. /\ trail[g].level \in 0 .. 1 /\ 1 \in DOMAIN lim /\ lim[1] \in Nat
        /\ Levelled(trail, lim)
    BY <1>1, StateIs
  <2>2. lim[1] < g
    BY <2>1
  <2>3. 1 <= trail[g].level
    BY <1>2, <2>1, <2>2 DEF Levelled
  <2> QED
    BY <2>1, <2>3
<1>6. Prefix(t, trail) /\ OneEach(trail)
      /\ \A i \in DOMAIN trail : i \in DOMAIN t <=> trail[i].level <= 0
  <2>1. next \in Nat
    BY StateIs
  <2> QED
    BY <2>1, BackIs, StateIs
<1>7. Neg(Lit)[1] = Lit[1] /\ Neg(Neg(Lit)) = Lit
  <2>1. Lit \in NatLits
    BY <1>2, StateIs
  <2> QED
    BY <2>1, Numbered
<1> HIDE DEF g, t
<1>8. ASSUME NEW i \in DOMAIN t, t[i].lit[1] = Lit[1] PROVE FALSE
  <2>1. i \in DOMAIN trail /\ trail[i].lit[1] = trail[g].lit[1]
    BY <1>2, <1>6, <1>8 DEF Prefix
  <2>2. i = g
    BY <1>2, <1>6, <2>1 DEF OneEach
  <2> QED
    BY <1>5, <1>6, <1>8, <2>1, <2>2
<1>9. OpenIn(t, Neg(Lit))
  BY <1>7, <1>8 DEF OpenIn, TrueIn
<1> QED
  BY <1>1, <1>3, <1>4, <1>9 DEF t

(* A level is opened; all literals become facts. *)
LEMMA OpensKeepsSound ==
  ASSUME PlainTypes, TrailInv, OpensLevel, used' = used, next' \in Nat, next <= next'
  PROVE  TrailInv' /\ Len(lim') = Len(lim) + 1
<1>1. /\ Sound(trail, lim, used, next) /\ next \in Nat
  BY StateIs DEF TrailInv
<1>2. trail' = trail /\ lim' = Append(lim, Len(trail))
  BY DEF OpensLevel
<1>3. Sound(trail', lim', used, next) /\ Len(lim') = Len(lim) + 1
  BY <1>1, <1>2, SoundOpened
<1>4. Sound(trail', lim', used, next')
  BY <1>1, <1>3, SoundWithMore
<1> QED
  BY <1>3, <1>4 DEF TrailInv

LEMMA FactsKeepSound ==
  ASSUME PlainTypes, TrailInv, AssertSucceeds
  PROVE  /\ TrailInv' /\ Len(trail') = Len(trail) /\ lim' = << >>
         /\ qhead' = qhead /\ UNCHANGED database
         /\ \A i \in DOMAIN trail' : trail'[i].level = 0
<1> DEFINE c == [i \in DOMAIN trail |-> [trail[i] EXCEPT !.level = 0]]
<1>1. /\ Sound(trail, lim, used, next) /\ next \in Nat
  BY StateIs DEF TrailInv
<1>2. /\ trail' = c /\ lim' = << >> /\ qhead' = qhead
      /\ UNCHANGED database /\ used' = used /\ next' = next
  BY DEF AssertSucceeds, UnchangedInAttempt, database
<1>3. /\ Sound(c, << >>, used, next) /\ Len(c) = Len(trail)
      /\ \A i \in DOMAIN trail : c[i].level = 0
  BY <1>1, SoundFacts
<1>4. DOMAIN c = DOMAIN trail
  OBVIOUS
<1> HIDE DEF c
<1> QED
  BY <1>2, <1>3, <1>4 DEF TrailInv

LEMMA LearnKeepsSound ==
  ASSUME PlainTypes, CallsTyped, TrailInv, WorkInv, Learn,
         next' \in Nat \ {0}, next <= next', Kept # << >> => next < next'
  PROVE  LET b == BackLevel
             t == TrailUpTo(BackLevel)
             why == IF Kept = << >> THEN 0 ELSE next
         IN  /\ TrailInv' /\ Len(trail') \in Nat /\ qhead' \in 0 .. Len(trail')
             /\ DOMAIN trail' = 1 .. Len(trail') /\ Len(lim') = b
             /\ Len(trail') = Len(t) + 1 /\ Prefix(t, trail')
             /\ trail'[Len(trail')] = Entry(Asserting, why, b)
             /\ b \in Nat /\ b < Len(lim)
<1> DEFINE b == BackLevel
           t == TrailUpTo(BackLevel)
           why == IF Kept = << >> THEN 0 ELSE next
<1>1. /\ Analyzing /\ Present # {} /\ used' = used
      /\ trail' = Append(t, Entry(Asserting, why, b))
      /\ lim' = LimUpTo(b) /\ qhead' = QheadUpTo(b)
  BY DEF Learn
<1>2. /\ Asserting \in UsedLits /\ OpenIn(t, Asserting)
      /\ b \in 0 .. Len(lim) - 1 /\ (Kept # << >> => b > 0)
  BY <1>1, LearntIs
<1>3. Len(lim) \in Nat /\ next \in Nat \ {0}
  BY StateIs
<1>4. b \in Nat /\ b < Len(lim)
  BY <1>2, <1>3
<1>5. b = 0 \/ why # 0
  <2>1. CASE Kept = << >>
    BY <2>1 DEF BackLevel
  <2>2. CASE Kept # << >>
    BY <1>3, <2>2
  <2> QED
    BY <2>1, <2>2
<1>6. why \in 0 .. next' - 1
  <2>1. why = 0 \/ (why = next /\ next < next')
    BY Zenon
  <2> HIDE DEF why
  <2>2. next' \in Nat /\ next' > 0 /\ next \in Nat
    BY <1>3
  <2> QED
    BY <2>1, <2>2
<1> HIDE DEF b, t, why
<1>7. OpenIn(TrailUpTo(b), Asserting) /\ t = TrailUpTo(b)
  BY <1>2 DEF b, t
<1>8. next' \in Nat /\ next <= next' /\ Asserting \in UsedLits
  BY <1>2
<1>9. trail' = Append(TrailUpTo(b), Entry(Asserting, why, b))
  BY <1>1, <1>7
<1>10. /\ TrailInv' /\ Len(trail') \in Nat /\ qhead' \in 0 .. Len(trail')
       /\ DOMAIN trail' = 1 .. Len(trail') /\ Len(lim') = b
       /\ Len(trail') = Len(TrailUpTo(b)) + 1
       /\ Prefix(TrailUpTo(b), trail')
       /\ trail'[Len(trail')] = Entry(Asserting, why, b)
  BY <1>1, <1>4, <1>5, <1>6, <1>7, <1>8, <1>9, SoundBackWithOne
<1> QED
  BY <1>4, <1>7, <1>10 DEF b, t, why

LEMMA DenyKeepsSound ==
  ASSUME PlainTypes, CallsTyped, TrailInv, CallInv, AssertFails
  PROVE  LET t == TrailUpTo(0)
         IN  /\ TrailInv' /\ Len(trail') \in Nat /\ qhead' \in 0 .. Len(trail')
             /\ DOMAIN trail' = 1 .. Len(trail') /\ Len(lim') = 0
             /\ Len(trail') = Len(t) + 1 /\ Prefix(t, trail')
             /\ trail'[Len(trail')] = Entry(Neg(Lit), 0, 0)
             /\ UNCHANGED database
<1>1. /\ Neg(Lit) \in UsedLits /\ OpenIn(TrailUpTo(0), Neg(Lit))
      /\ LimUpTo(0) = << >>
  BY DeniedLit
<1>2. next \in Nat \ {0}
  BY StateIs
<1>3. /\ trail' = Append(TrailUpTo(0), Entry(Neg(Lit), 0, 0))
      /\ lim' = LimUpTo(0) /\ qhead' = QheadUpTo(0)
      /\ UNCHANGED database /\ used' = used /\ next' = next
  BY <1>1 DEF AssertFails, UnchangedInAttempt, database
<1>4. 0 \in 0 .. next - 1 /\ 0 \in Nat /\ next \in Nat /\ next <= next
  BY <1>2
<1>5. /\ TrailInv' /\ Len(trail') \in Nat /\ qhead' \in 0 .. Len(trail')
      /\ DOMAIN trail' = 1 .. Len(trail') /\ Len(lim') = 0
      /\ Len(trail') = Len(TrailUpTo(0)) + 1
      /\ Prefix(TrailUpTo(0), trail')
      /\ trail'[Len(trail')] = Entry(Neg(Lit), 0, 0)
  BY <1>1, <1>3, <1>4, SoundBackWithOne
<1> QED
  BY <1>3, <1>5

LEMMA GainKeepsSound ==
  ASSUME PlainTypes, TrailInv, NEW q, NEW why, Gains(q, why), used' = used,
         next' \in Nat, next <= next'
  PROVE  /\ TrailInv' /\ Len(trail') \in Nat /\ qhead' \in 0 .. Len(trail')
         /\ DOMAIN trail' = 1 .. Len(trail') /\ Prefix(trail, trail')
         /\ HasPut(trail', trail, q, why, Len(lim))
<1>1. /\ Grows(q, why) /\ why \in 0 .. next - 1 /\ lim' = lim
      /\ Len(lim) = 0 \/ why # 0
      /\ qhead' = qhead \/ qhead' = Len(trail')
  BY DEF Gains
<1>2. /\ TrailInv'
      /\ Len(trail') \in Nat /\ Len(trail) <= Len(trail')
      /\ DOMAIN trail' = 1 .. Len(trail')
      /\ Prefix(trail, trail')
      /\ HasPut(trail', trail, q, why, Len(lim))
  BY <1>1, GrownIs
<1>3. qhead \in 0 .. Len(trail) /\ Len(trail) \in Nat
  BY StateIs
<1> QED
  BY <1>1, <1>2, <1>3

LEMMA TrailStep ==
  ASSUME PlainTypes, CallsTyped, TrailInv, ListsInv, CallInv, WorkInv, Next
  PROVE  /\ TrailInv' /\ Len(trail') \in Nat /\ qhead' \in 0 .. Len(trail')
         /\ PlainTypes'
<1>1. /\ used' = used /\ next' \in Nat \ {0} /\ next <= next' /\ at' \in Nat \ {0}
      /\ next' \in Nat /\ next \in Nat
  BY FlatStep, NextGrows, StateIs
<1>2. Len(trail) \in Nat /\ qhead \in 0 .. Len(trail)
  BY StateIs
<1>3. TrailInv' /\ Len(trail') \in Nat /\ qhead' \in 0 .. Len(trail')
  <2>1. CASE Stays
    <3>1. trail' = trail /\ lim' = lim /\ qhead' \in 0 .. Len(trail)
      BY <2>1 DEF Stays
    <3>2. Sound(trail, lim, used, next')
      BY <1>1, SoundWithMore DEF TrailInv
    <3> QED
      BY <1>1, <1>2, <3>1, <3>2 DEF TrailInv
  <2>2. CASE GoesUp
    <3>1. PICK n \in Nat : CancelUntil(n)
      BY <2>2 DEF GoesUp
    <3>2. trail' = TrailUpTo(n) /\ lim' = LimUpTo(n) /\ qhead' = QheadUpTo(n)
      BY <3>1 DEF CancelUntil
    <3>3. /\ Sound(TrailUpTo(n), LimUpTo(n), used, next')
          /\ Len(TrailUpTo(n)) \in 0 .. Len(trail)
          /\ QheadUpTo(n) \in 0 .. Len(TrailUpTo(n))
      BY <1>1, BackIs
    <3> QED
      BY <1>1, <1>2, <3>2, <3>3 DEF TrailInv
  <2>3. CASE \E q, why : Gains(q, why)
    BY <1>1, <2>3, GainKeepsSound
  <2>4. CASE \E l \in UsedLits : GuessesLit(l)
    <3>1. PICK l \in UsedLits : GuessesLit(l)
      BY <2>4
    <3>2. TrailInv' /\ Len(trail') = Len(trail) + 1
      BY <1>1, <3>1, GuessKeepsSound
    <3> QED
      BY <1>2, <3>1, <3>2 DEF GuessesLit
  <2>5. CASE OpensLevel
    <3>1. TrailInv'
      BY <1>1, <2>5, OpensKeepsSound
    <3> QED
      BY <1>2, <2>5, <3>1 DEF OpensLevel
  <2>6. CASE Learn
    <3>1. Kept # << >> => next < next'
      <4>1. Kept # << >> => next' = next + 1
        BY <2>6 DEF Learn, NewClause
      <4> QED
        BY <1>1, <4>1
    <3> QED
      BY <1>1, <2>6, <3>1, LearnKeepsSound
  <2>7. CASE AssertSucceeds
    BY <1>2, <2>7, FactsKeepSound
  <2>8. CASE AssertFails
    BY <2>8, DenyKeepsSound
  <2> QED
    BY <2>1, <2>2, <2>3, <2>4, <2>5, <2>6, <2>7, <2>8, TrailEffects
<1>4. FlatTypes' /\ used \subseteq Vars
  BY FlatStep DEF PlainTypes
<1>5. PlainTypes'
  BY <1>1, <1>3, <1>4 DEF PlainTypes, FlatTypes
<1> QED
  BY <1>3, <1>5

---------------------------------------------------------------------------
(* The clauses and their lists.                                            *)
ListsKept == /\ ClausesOf(clauses', used, next') /\ ListsOf(watches', clauses', next')
             /\ Listed(watches, clauses) => Listed(watches', clauses')

LEMMA AdditionKeeps ==
  ASSUME PlainTypes, TrailInv, ListsInv, Addition
  PROVE  ListsKept
<1>1. /\ ClausesOf(clauses, used, next) /\ ListsOf(watches, clauses, next)
      /\ used \in SUBSET Vars /\ next \in Nat \ {0}
  BY StateIs DEF ListsInv
<1>2. CASE UNCHANGED database
  BY <1>1, <1>2 DEF database, ListsKept
<1>3. CASE ~ UNCHANGED database
  <2>1. PICK c : /\ Clean(c, used)
                 /\ clauses' = [i \in DOMAIN clauses \cup {next} |->
                                  IF i = next THEN c ELSE clauses[i]]
                 /\ next' = next + 1
                 /\ watches' = Attached(watches, next, c)
    BY <1>3 DEF Addition
  <2> DEFINE all == WithMore(clauses, next, c)
             lists == Attached(watches, next, c)
  <2>2. /\ ClausesOf(all, used, next + 1) /\ ListsOf(lists, all, next + 1)
        /\ Listed(watches, clauses) => Listed(lists, all)
    <3>1. Clean(c, used)
      BY <2>1
    <3> QED
      BY <1>1, <3>1, ListsWithMore
  <2>3. clauses' = all /\ watches' = lists /\ next' = next + 1
    BY <2>1 DEF WithMore
  <2> HIDE DEF all, lists
  <2> QED
    BY <2>2, <2>3 DEF ListsKept
<1> QED
  BY <1>2, <1>3

LEMMA LearnAdds ==
  ASSUME PlainTypes, CallsTyped, TrailInv, WorkInv, Learn
  PROVE  Addition
<1>1. CASE Kept = << >>
  BY <1>1 DEF Learn, Addition
<1>2. CASE Kept # << >>
  <2>1. /\ LearntClause \in Seq(UsedLits) /\ DistinctVars(LearntClause)
        /\ Len(LearntClause) > 1
    BY <1>2, LearntIs DEF Learn
  <2>2. NewClause(LearntClause, "learnt")
    BY <1>2 DEF Learn
  <2> QED
    BY <2>1, <2>2, NewClauseIs
<1> QED
  BY <1>1, <1>2

LEMMA ReorderedKeeps ==
  ASSUME PlainTypes, TrailInv, ListsInv, VisitTrue \/ VisitForces \/ VisitFails
  PROVE  ListsKept
<1>1. Reading(FALSE) /\ Reorder(Turned) /\ watches' = watches /\ next' = next
  BY DEF VisitTrue, VisitForces, VisitFails, Keep, Conflict, UnchangedByVisit
<1>2. /\ Id \in DOMAIN clauses /\ used \in SUBSET Vars
  BY <1>1, ReadingIs DEF Reading
<1>3. Clean(With(C, Turned), used) /\ Watched(With(C, Turned)) = Watched(C)
  BY <1>1, TurnedIs
<1>4. /\ Clean([clauses[Id] EXCEPT !.lits = Turned], used)
      /\ Watched([clauses[Id] EXCEPT !.lits = Turned]) = Watched(clauses[Id])
  BY <1>3 DEF With, C
<1>5. /\ ClausesOf(clauses, used, next) /\ ListsOf(watches, clauses, next)
      /\ next \in Nat \ {0}
  BY StateIs DEF ListsInv
<1> DEFINE all == [clauses EXCEPT ![Id].lits = Turned]
<1>6. /\ ClausesOf(all, used, next) /\ ListsOf(watches, all, next)
      /\ Listed(watches, clauses) => Listed(watches, all)
  BY <1>2, <1>4, <1>5, ListsReordered
<1>7. clauses' = all
  BY <1>1 DEF Reorder
<1> HIDE DEF all
<1> QED
  BY <1>1, <1>6, <1>7 DEF ListsKept

(* A visit after which the clause watches another literal. *)
LEMMA RewatchedKeeps ==
  ASSUME PlainTypes, TrailInv, ListsInv, Pending, at <= Len(watches[P]),
         NEW q, NEW l \in Lits, Clean(With(C, q), used), l \notin Watched(C),
         Watched(With(C, q)) = (Watched(C) \ {Neg(P)}) \cup {l},
         Reorder(q), Rewatch(l), next' = next
  PROVE  ListsKept
<1>1. /\ Id \in DOMAIN clauses /\ used \in SUBSET Vars /\ P \in Lits
      /\ at \in DOMAIN watches[P]
  BY ReadingIs
<1>2. /\ ClausesOf(clauses, used, next) /\ ListsOf(watches, clauses, next)
      /\ next \in Nat \ {0}
  BY StateIs DEF ListsInv
<1> DEFINE id == watches[P][at]
           all == [clauses EXCEPT ![id].lits = q]
           lists == [watches EXCEPT ![P] = Without(@, at), ![Neg(l)] = Append(@, id)]
<1>3. /\ Clean([clauses[id] EXCEPT !.lits = q], used)
      /\ l \notin Watched(clauses[id])
      /\ Watched([clauses[id] EXCEPT !.lits = q])
           = (Watched(clauses[id]) \ {Neg(P)}) \cup {l}
  BY DEF With, C, Id
<1>4. /\ ClausesOf(all, used, next) /\ ListsOf(lists, all, next)
      /\ Listed(watches, clauses) => Listed(lists, all)
  BY <1>1, <1>2, <1>3, ListsMoved
<1>5. clauses' = all /\ watches' = lists
  BY DEF Reorder, Rewatch, Id
<1> HIDE DEF all, lists
<1> QED
  BY <1>4, <1>5 DEF ListsKept

LEMMA MovesKeeps ==
  ASSUME PlainTypes, TrailInv, ListsInv, VisitMoves
  PROVE  ListsKept
<1> DEFINE k == Least(Spare)
           q == Swap(Turned, 2, k)
           l == C.lits[k]
<1>1. /\ Reading(FALSE) /\ Spare # {} /\ Reorder(q) /\ Rewatch(l) /\ next' = next
  BY DEF VisitMoves, Moves, UnchangedByVisit
<1>2. /\ l \in Lits /\ l \notin Watched(C) /\ Clean(With(C, q), used)
      /\ Watched(With(C, q)) = (Watched(C) \ {Neg(P)}) \cup {l}
  BY <1>1, MoveIs
<1>3. Pending /\ at <= Len(watches[P])
  BY <1>1 DEF Reading
<1> HIDE DEF k, q, l
<1> QED
  BY <1>1, <1>2, <1>3, RewatchedKeeps

LEMMA SwapsKeeps ==
  ASSUME PlainTypes, TrailInv, ListsInv, VisitSwaps
  PROVE  ListsKept
<1> DEFINE q == Swap(Swap(C.lits, Here, 1), 1, Len(C.lits))
           l == C.lits[Len(C.lits)]
<1>1. /\ Reading(TRUE) /\ Reorder(q) /\ Rewatch(l) /\ next' = next
  BY DEF VisitSwaps, Moves, UnchangedByVisit
<1>2. /\ q \in Seq(UsedLits) /\ DistinctVars(q) /\ Len(q) = Len(C.lits)
      /\ Elements(q) = Elements(C.lits) /\ q[Len(q)] = Neg(P)
  BY <1>1, SwapsIs
<1> HIDE DEF q
<1>3. /\ l \in Lits /\ l \notin Watched(C) /\ Clean(With(C, q), used)
      /\ Watched(With(C, q)) = (Watched(C) \ {Neg(P)}) \cup {l}
  BY <1>1, <1>2, SingleTurned
<1>4. Pending /\ at <= Len(watches[P])
  BY <1>1 DEF Reading
<1> HIDE DEF l
<1> QED
  BY <1>1, <1>3, <1>4, RewatchedKeeps

LEMMA ClashesKeeps ==
  ASSUME PlainTypes, TrailInv, ListsInv, VisitClashes
  PROVE  ListsKept
<1> DEFINE k == Least(Second)
           front == IF k > Here THEN Swap(C.lits, Here, 1) ELSE C.lits
           second == Swap(front, k, 2)
           pair == Swap(second, IndexOf(second, Neg(P)), 1)
           q == Swap(pair, 1, Len(pair))
           l == C.lits[Len(C.lits)]
<1>1. /\ Reading(TRUE) /\ Second # {} /\ Reorder(q)
      /\ Rewatch(ClashWatches(pair, k)) /\ next' = next
  BY DEF VisitClashes, Conflict, UnchangedByVisit
<1>2. /\ q \in Seq(UsedLits) /\ DistinctVars(q) /\ Len(q) = Len(C.lits)
      /\ Elements(q) = Elements(C.lits) /\ q[Len(q)] = Neg(P)
      /\ ClashWatches(pair, k) = l
  BY <1>1, ClashIs
<1> HIDE DEF k, front, second, pair, q
<1>3. /\ l \in Lits /\ l \notin Watched(C) /\ Clean(With(C, q), used)
      /\ Watched(With(C, q)) = (Watched(C) \ {Neg(P)}) \cup {l}
  BY <1>1, <1>2, SingleTurned
<1>4. Pending /\ at <= Len(watches[P]) /\ Rewatch(l)
  BY <1>1, <1>2 DEF Reading
<1> HIDE DEF l
<1> QED
  BY <1>1, <1>3, <1>4, RewatchedKeeps

LEMMA ReduceKeeps ==
  ASSUME PlainTypes, TrailInv, ListsInv, Reduce
  PROVE  ListsKept
<1>1. PICK S \in SUBSET Removable : Removed(S)
  BY DEF Reduce, ReduceDB
<1>2. /\ ClausesOf(clauses, used, next) /\ ListsOf(watches, clauses, next)
      /\ next \in Nat \ {0} /\ used \subseteq Vars
  BY StateIs DEF ListsInv
<1> DEFINE all == Those(clauses, DOMAIN clauses \ S)
           lists == ListsLess(watches, S)
<1>3. /\ ClausesOf(all, used, next) /\ ListsOf(lists, all, next)
      /\ Listed(watches, clauses) /\ used \subseteq Vars => Listed(lists, all)
  BY <1>2, ListsWithout
<1>4. clauses' = all /\ watches' = lists /\ next' = next
  BY <1>1 DEF Removed, Those, ListsLess
<1> HIDE DEF all, lists
<1> QED
  BY <1>2, <1>3, <1>4 DEF ListsKept

(* Learnt clauses first, short ones last of them, then the others: no two  *)
(* have the same place. *)
LEMMA OrderIs ==
  ASSUME PlainTypes, TrailInv, ListsInv
  PROVE  /\ \A i \in Staying : Order[i] \in Int
         /\ \A i, j \in Staying : Order[i] = Order[j] => i = j
<1>1. /\ next \in Nat \ {0}
      /\ Staying \subseteq 1 .. next - 1
  BY StateIs DEF ListsInv, ClausesOf, Staying
<1>2. \A i \in Staying : Order[i] = Rank(clauses[i]) * next + i
  BY DEF Order
<1> DEFINE r(i) == Rank(clauses[i])
<1>3. \A i : r(i) = 0 \/ r(i) = 1 \/ r(i) = 2
  BY DEF Rank
<1> HIDE DEF r
<1>4. \A i \in Staying : Order[i] = r(i) * next + i /\ i \in Nat /\ 0 < i /\ i < next
  BY <1>1, <1>2 DEF r
<1>5. \A i \in Staying : \/ r(i) = 0 /\ Order[i] = i
                         \/ r(i) = 1 /\ Order[i] = next + i
                         \/ r(i) = 2 /\ Order[i] = 2 * next + i
  <2> SUFFICES ASSUME NEW i \in Staying
               PROVE  \/ r(i) = 0 /\ Order[i] = i
                      \/ r(i) = 1 /\ Order[i] = next + i
                      \/ r(i) = 2 /\ Order[i] = 2 * next + i
    OBVIOUS
  <2>1. CASE r(i) = 0
    BY <1>1, <1>4, <2>1
  <2>2. CASE r(i) = 1
    BY <1>1, <1>4, <2>2
  <2>3. CASE r(i) = 2
    BY <1>1, <1>4, <2>3
  <2> QED
    BY <1>3, <2>1, <2>2, <2>3
<1> QED
  BY <1>1, <1>4, <1>5

LEMMA CompactKeeps ==
  ASSUME PlainTypes, TrailInv, ListsInv, Compact
  PROVE  ListsKept
<1>1. /\ ClausesOf(clauses, used, next) /\ next \in Nat \ {0}
      /\ used \in SUBSET Vars
  BY StateIs DEF ListsInv
<1>2. Staying \in SUBSET DOMAIN clauses
  BY DEF Staying
<1>3. /\ \A i \in Staying : Order[i] \in Int
      /\ \A i, j \in Staying : Order[i] = Order[j] => i = j
  BY OrderIs
<1> DEFINE all == Those(clauses, Staying)
           lists == ListsOver(clauses, Staying, Order)
<1>4. ClausesOf(all, used, next) /\ ListsOf(lists, all, next) /\ Listed(lists, all)
  BY <1>1, <1>2, <1>3, ListsAnew
<1>5. clauses' = all /\ watches' = lists /\ next' = next
  BY DEF Compact, Those, ListsOver
<1> HIDE DEF all, lists
<1> QED
  BY <1>4, <1>5 DEF ListsKept

LEMMA RefutesShortens ==
  ASSUME PlainTypes, TrailInv, ListsInv, VisitRefutes
  PROVE  /\ ClausesOf(clauses', used, next') /\ ListsOf(watches', clauses', next')
<1>1. /\ Reading(TRUE) /\ clauses' = clauses /\ next' = next
      /\ watches' = [watches EXCEPT ![P] = Without(@, at)]
  BY DEF VisitRefutes, Conflict, UnchangedByVisit
<1>2. P \in Lits /\ at \in DOMAIN watches[P]
  BY <1>1, ReadingIs DEF Reading
<1>3. /\ ClausesOf(clauses, used, next) /\ ListsOf(watches, clauses, next)
      /\ next \in Nat \ {0}
  BY StateIs DEF ListsInv
<1> DEFINE lists == [watches EXCEPT ![P] = Without(@, at)]
<1>4. ListsOf(lists, clauses, next)
  BY <1>2, <1>3, ListsShortened
<1>5. watches' = lists
  BY <1>1
<1> HIDE DEF lists
<1> QED
  BY <1>1, <1>3, <1>4, <1>5

LEMMA ListsStep ==
  ASSUME PlainTypes, CallsTyped, TrailInv, ListsInv, WorkInv, Next
  PROVE  ListsInv' /\ (ListsKept \/ VisitRefutes)
<1>1. used' = used
  BY FlatStep
<1>2. /\ ClausesOf(clauses, used, next) /\ ListsOf(watches, clauses, next)
  BY DEF ListsInv
<1> SUFFICES ListsKept \/ VisitRefutes
  BY <1>1, RefutesShortens DEF ListsKept, ListsInv
<1>3. ASSUME UNCHANGED database PROVE ListsKept
  BY <1>2, <1>3 DEF ListsKept, database
<1>4. CASE AddAClause \/ AddASingle \/ AddAPair
  <2>1. Adding
    BY <1>4, ClauseAdds, SingleAdds, PairAdds
  <2> QED
    BY <2>1, AdditionKeeps DEF Adding
<1>5. CASE SearchLearns \/ TryBacktracks
  BY <1>5, LearnAdds, AdditionKeeps DEF SearchLearns, TryBacktracks
<1>6. CASE \/ VisitTrue \/ VisitForces \/ VisitFails \/ VisitMoves \/ VisitSwaps
           \/ VisitClashes \/ VisitRefutes
  BY <1>6, ReorderedKeeps, MovesKeeps, SwapsKeeps, ClashesKeeps
<1>7. CASE Reduce
  BY <1>7, ReduceKeeps
<1>8. CASE Tidy
  <2>1. Compact \/ UNCHANGED database
    BY <1>8 DEF Tidy, SimplifyAndCompact
  <2> QED
    BY <1>3, <2>1, CompactKeeps
<1>9. CASE \/ AddFinished \/ AddRefutes \/ LightSolve \/ AnswerKnown \/ Attempt
           \/ Reset \/ PopCheck
  BY <1>3, <1>9 DEF AddFinished, AddRefutes, LightSolve, AnswerKnown, Attempt,
                    Reset, PopCheck, GoesBack
<1>10. CASE NextWatchList \/ VisitSettles
  BY <1>3, <1>10 DEF NextWatchList, VisitSettles, Keep, UnchangedByVisit, database
<1>11. CASE \/ Resolve \/ TrySucceeds \/ Denied \/ CheckSucceeds \/ AttemptRefutes
            \/ AssertSucceeds \/ AssertFails \/ CheckFails
  BY <1>3, <1>11 DEF Resolve, TrySucceeds, Denied, CheckSucceeds, AttemptRefutes,
                     AssertSucceeds, AssertFails, CheckFails, Ends,
                     UnchangedInAttempt
<1>12. CASE Solve \/ Refused \/ SearchRefutes \/ AssumeFalse \/ ModelFound \/ FoundTooLate
  BY <1>3, <1>12 DEF Solve, Refused, SearchRefutes, AssumeFalse, ModelFound,
                     FoundTooLate, UnchangedByAnswer
<1>13. CASE RefutesTooLate \/ RestartsTooLate \/ AssumesTooLate \/ Restart
  BY <1>3, <1>13 DEF RefutesTooLate, RestartsTooLate, AssumesTooLate, Bail, Restart,
                     UnchangedByAnswer
<1>14. CASE AssumeTrue \/ AssumeOpen \/ Branch \/ Returned
  BY <1>3, <1>14 DEF AssumeTrue, AssumeOpen, Branch, Decide, Returned, vars
<1> QED
  BY <1>4, <1>5, <1>6, <1>7, <1>8, <1>9, <1>10, <1>11, <1>12, <1>13, <1>14 DEF Next

---------------------------------------------------------------------------
(* The reasons.                                                            *)
LEMMA ReasonsExtended ==
  ASSUME NEW t, NEW cl, NEW all, Reasoned(t, cl), DOMAIN cl \subseteq DOMAIN all,
         \A i \in DOMAIN cl : all[i] = cl[i]
  PROVE  Reasoned(t, all)
  BY DEF Reasoned

LEMMA AdditionExtends ==
  ASSUME PlainTypes, TrailInv, ListsInv, Addition
  PROVE  DOMAIN clauses \subseteq DOMAIN clauses'
         /\ \A i \in DOMAIN clauses : clauses'[i] = clauses[i]
<1>1. next \notin DOMAIN clauses
  BY StateIs DEF ListsInv, ClausesOf
<1>2. CASE UNCHANGED database
  BY <1>2 DEF database
<1>3. CASE ~ UNCHANGED database
  <2>1. PICK c : clauses' = [i \in DOMAIN clauses \cup {next} |->
                               IF i = next THEN c ELSE clauses[i]]
    BY <1>3 DEF Addition
  <2> QED
    BY <1>1, <2>1
<1> QED
  BY <1>2, <1>3

(* New literals that need no reason. *)
LEMMA ReasonsGain ==
  ASSUME PlainTypes, TrailInv, ReasonsInv, NEW q, NEW why, Gains(q, why),
         used' = used, next' \in Nat, next <= next',
         why = 0 \/ Len(lim) = 0
  PROVE  Reasoned(trail', clauses)
<1>1. /\ Len(trail') \in Nat /\ DOMAIN trail' = 1 .. Len(trail')
      /\ Prefix(trail, trail') /\ HasPut(trail', trail, q, why, Len(lim))
  BY GainKeepsSound
<1>2. Len(trail) \in Nat /\ DOMAIN trail = 1 .. Len(trail)
  BY StateIs
<1>3. \A i \in DOMAIN trail' \ DOMAIN trail : ~ HasReason(trail', i)
  BY <1>1 DEF HasPut, HasReason
<1> QED
  BY <1>1, <1>2, <1>3, ReasonsGrown DEF ReasonsInv

LEMMA ReasonsGuess ==
  ASSUME PlainTypes, TrailInv, ReasonsInv, NEW l \in UsedLits, GuessesLit(l),
         used' = used, next' \in Nat, next <= next'
  PROVE  Reasoned(trail', clauses)
<1>1. /\ Len(trail') = Len(trail) + 1 /\ DOMAIN trail' = 1 .. Len(trail')
      /\ Prefix(trail, trail')
      /\ trail'[Len(trail) + 1] = Entry(l, 0, Len(lim) + 1)
  BY GuessKeepsSound
<1>2. Len(trail) \in Nat /\ DOMAIN trail = 1 .. Len(trail)
  BY StateIs
<1>3. trail'[Len(trail) + 1].why = 0
  BY <1>1 DEF Entry
<1>4. \A i \in DOMAIN trail' \ DOMAIN trail : ~ HasReason(trail', i)
  BY <1>1, <1>2, <1>3 DEF HasReason
<1>5. Len(trail') \in Nat
  BY <1>1, <1>2
<1> QED
  BY <1>1, <1>2, <1>4, <1>5, ReasonsGrown DEF ReasonsInv

LEMMA ReasonsBack ==
  ASSUME PlainTypes, TrailInv, ReasonsInv, NEW n \in Nat
  PROVE  Reasoned(TrailUpTo(n), clauses)
<1>1. /\ Len(TrailUpTo(n)) \in 0 .. Len(trail)
      /\ DOMAIN TrailUpTo(n) = 1 .. Len(TrailUpTo(n))
      /\ Prefix(TrailUpTo(n), trail)
  <2>1. next \in Nat
    BY StateIs
  <2> QED
    BY <2>1, BackIs
<1>2. Len(trail) \in Nat /\ DOMAIN trail = 1 .. Len(trail)
  BY StateIs
<1>3. Len(TrailUpTo(n)) \in Nat
  BY <1>1, <1>2
<1> QED
  BY <1>1, <1>2, <1>3, ReasonsCut DEF ReasonsInv

LEMMA ReasonsDeny ==
  ASSUME PlainTypes, CallsTyped, TrailInv, ReasonsInv, CallInv, AssertFails
  PROVE  Reasoned(trail', clauses)
<1> DEFINE t == TrailUpTo(0)
<1>1. /\ Len(trail') \in Nat /\ DOMAIN trail' = 1 .. Len(trail')
      /\ Len(trail') = Len(t) + 1 /\ Prefix(t, trail')
      /\ trail'[Len(trail')] = Entry(Neg(Lit), 0, 0)
  BY DenyKeepsSound
<1>2. Reasoned(t, clauses)
  BY ReasonsBack
<1>3. Len(t) \in 0 .. Len(trail) /\ DOMAIN t = 1 .. Len(t) /\ Len(trail) \in Nat
  <2>1. next \in Nat
    BY StateIs
  <2> QED
    BY <2>1, BackIs, StateIs
<1>4. Len(t) \in Nat
  BY <1>3
<1> HIDE DEF t
<1>5. trail'[Len(trail')].why = 0
  BY <1>1 DEF Entry
<1>6. \A i \in DOMAIN trail' \ DOMAIN t : ~ HasReason(trail', i)
  BY <1>1, <1>3, <1>4, <1>5 DEF HasReason
<1> QED
  BY <1>1, <1>2, <1>3, <1>4, <1>6, ReasonsGrown

(* The learnt clause is the reason of the literal that it forces. *)
LEMMA ReasonsLearn ==
  ASSUME PlainTypes, CallsTyped, TrailInv, ListsInv, ReasonsInv, WorkInv, Learn,
         next' \in Nat \ {0}, next <= next'
  PROVE  Reasoned(trail', clauses')
<1> DEFINE t == TrailUpTo(BackLevel)
           b == BackLevel
           why == IF Kept = << >> THEN 0 ELSE next
           n == Len(trail')
<1>1. Kept # << >> => /\ next' = next + 1
                      /\ clauses'[next] = [lits |-> LearntClause, kind |-> "learnt"]
                      /\ next \in DOMAIN clauses'
  <2>1. ASSUME Kept # << >> PROVE NewClause(LearntClause, "learnt")
    BY <2>1 DEF Learn
  <2> QED
    BY <2>1 DEF NewClause
<1>2. Kept # << >> => next < next'
  BY <1>1, StateIs
<1>3. /\ n \in Nat /\ DOMAIN trail' = 1 .. n
      /\ n = Len(t) + 1 /\ Prefix(t, trail')
      /\ trail'[n] = Entry(Asserting, why, b)
      /\ b \in Nat /\ b < Len(lim)
  BY <1>2, LearnKeepsSound
<1>4. Reasoned(t, clauses)
  BY <1>3, ReasonsBack
<1>5. Reasoned(t, clauses')
  <2>1. Addition
    BY LearnAdds
  <2> QED
    BY <1>4, <2>1, AdditionExtends, ReasonsExtended
<1>6. /\ Len(t) \in Nat /\ DOMAIN t = 1 .. Len(t)
  <2>1. Len(t) \in 0 .. Len(trail) /\ DOMAIN t = 1 .. Len(t) /\ Len(trail) \in Nat
    <3>1. next \in Nat
      BY StateIs
    <3> QED
      BY <1>3, <3>1, BackIs, StateIs
  <2> QED
    BY <2>1
<1>7. /\ trail'[n].why = why /\ trail'[n].lit = Asserting
  BY <1>3 DEF Entry
<1>8. Kept # << >> =>
        /\ LearntClause[1] = Asserting /\ LearntClause \in Seq(UsedLits)
        /\ \A k \in 2 .. Len(LearntClause) : FalseIn(t, LearntClause[k])
  BY LearntIs DEF Learn
<1>9. why # 0 => Kept # << >> /\ why = next
  OBVIOUS
<1> HIDE DEF t, b, why, n
<1>10. ASSUME NEW i \in DOMAIN trail' \ DOMAIN t, HasReason(trail', i)
       PROVE  trail'[i].why \in DOMAIN clauses' /\ Forced(trail', i, clauses'[trail'[i].why])
  <2>1. i = n
    BY <1>3, <1>6
  <2>2. Kept # << >> /\ trail'[i].why = next
    BY <1>7, <1>9, <1>10, <2>1 DEF HasReason
  <2> DEFINE c == clauses'[next]
  <2>3. /\ c.lits = LearntClause /\ c.kind = "learnt" /\ next \in DOMAIN clauses'
    BY <1>1, <2>2
  <2> HIDE DEF c
  <2>4. ASSUME NEW k \in 2 .. Len(c.lits) PROVE FalseBefore(trail', c.lits[k], i)
    <3>1. FalseIn(t, c.lits[k])
      BY <1>8, <2>2, <2>3
    <3>2. PICK j \in DOMAIN t : t[j].lit = Neg(c.lits[k])
      BY <3>1 DEF FalseIn, TrueIn
    <3>3. j \in DOMAIN trail' /\ trail'[j].lit = Neg(c.lits[k]) /\ j < i
      BY <1>3, <1>6, <2>1, <3>2 DEF Prefix
    <3> QED
      BY <3>3 DEF FalseBefore
  <2>5. c.kind # "single" /\ c.lits[1] = trail'[i].lit
    BY <1>7, <1>8, <2>1, <2>2, <2>3
  <2>6. Forced(trail', i, c)
    BY <2>4, <2>5 DEF Forced
  <2> QED
    BY <2>2, <2>3, <2>6 DEF c
<1> QED
  BY <1>3, <1>5, <1>6, <1>10, ReasonsGrown

(* A reason that is visited has the false literal second already. *)
LEMMA ReasonTurned ==
  ASSUME PlainTypes, TrailInv, ListsInv, Reading(FALSE),
         NEW i \in DOMAIN trail, Forced(trail, i, C)
  PROVE  Turned = C.lits
<1>1. Turned = C.lits \/ C.lits[1] = Neg(P)
  BY TurnedIs
<1>2. ASSUME C.lits[1] = Neg(P) PROVE FALSE
  <2>1. trail[i].lit = Neg(P)
    BY <1>2 DEF Forced
  <2>2. P \in NatLits /\ qhead + 1 \in DOMAIN trail
    BY ReadingIs, StateIs DEF Reading
  <2>3. Neg(P)[1] = P[1] /\ Neg(P) # P
    BY <2>2, Numbered
  <2>4. trail[i].lit[1] = trail[qhead + 1].lit[1]
    BY <2>1, <2>3 DEF P
  <2>5. i = qhead + 1
    BY <2>2, <2>4, StateIs DEF OneEach
  <2> QED
    BY <2>1, <2>3, <2>5 DEF P
<1> QED
  BY <1>1, <1>2

LEMMA ReorderServes ==
  ASSUME PlainTypes, TrailInv, ListsInv, ReasonsInv, Reading(FALSE), NEW q,
         Reorder(q),
         Turned = C.lits => Serves(C, With(C, q))
  PROVE  Reasoned(trail, clauses')
<1>1. clauses' = [clauses EXCEPT ![Id] = With(C, q)]
  BY DEF Reorder, With, C
<1>2. Id \in DOMAIN clauses
  BY ReadingIs DEF Reading
<1> DEFINE d == With(C, q)
<1> HIDE DEF d
<1>3. /\ DOMAIN clauses' = DOMAIN clauses /\ clauses'[Id] = d
      /\ \A id \in DOMAIN clauses : id # Id => clauses'[id] = clauses[id]
  BY <1>1, <1>2 DEF d
<1>4. ASSUME NEW i \in DOMAIN trail, HasReason(trail, i),
             trail[i].why \in DOMAIN clauses,
             Forced(trail, i, clauses[trail[i].why])
      PROVE  /\ trail[i].why \in DOMAIN clauses'
             /\ Serves(clauses[trail[i].why], clauses'[trail[i].why])
  <2>1. CASE trail[i].why = Id
    <3>1. Forced(trail, i, C)
      BY <1>4, <2>1 DEF C
    <3>2. Serves(C, d)
      BY <3>1, ReasonTurned DEF d
    <3> QED
      BY <1>2, <1>3, <2>1, <3>2 DEF C
  <2>2. CASE trail[i].why # Id
    BY <1>3, <1>4, <2>2, ServesItself
  <2> QED
    BY <2>1, <2>2
<1> QED
  BY <1>4, ReasonsServe DEF ReasonsInv

LEMMA ReasonsTurned ==
  ASSUME PlainTypes, TrailInv, ListsInv, ReasonsInv, Reading(FALSE), Reorder(Turned)
  PROVE  Reasoned(trail, clauses')
<1>1. Clean(C, used)
  BY ReadingIs DEF Reading
<1>2. ASSUME Turned = C.lits PROVE Serves(C, With(C, Turned))
  <2>1. With(C, Turned) = C
    BY <1>1, <1>2 DEF With, Clean, Clauses
  <2> QED
    BY <2>1, ServesItself
<1> QED
  BY <1>2, ReorderServes

LEMMA ReasonsMoved ==
  ASSUME PlainTypes, TrailInv, ListsInv, ReasonsInv, VisitMoves
  PROVE  Reasoned(trail, clauses')
<1> DEFINE k == Least(Spare)
           q == Swap(Turned, 2, k)
<1>1. Reading(FALSE) /\ Spare # {} /\ Reorder(q)
  BY DEF VisitMoves
<1>2. /\ k \in 3 .. Len(C.lits) /\ q[1] = Turned[1]
  BY <1>1, MoveIs
<1>3. /\ Turned \in Seq(UsedLits) /\ Len(Turned) = Len(C.lits)
      /\ DOMAIN Turned = DOMAIN C.lits /\ 1 \in DOMAIN C.lits /\ 2 \in DOMAIN C.lits
  BY <1>1, TurnedIs
<1>4. Len(C.lits) \in Nat /\ DOMAIN C.lits = 1 .. Len(C.lits)
  <2>1. Len(Turned) \in Nat /\ DOMAIN Turned = 1 .. Len(Turned)
    BY <1>3
  <2> QED
    BY <1>3, <2>1
<1>5. k \in DOMAIN Turned
  BY <1>2, <1>3, <1>4
<1> HIDE DEF k
<1>6. /\ Len(q) = Len(Turned) /\ q[2] = Turned[k] /\ q[k] = Turned[2]
      /\ \A m \in DOMAIN Turned : m # 2 /\ m # k => q[m] = Turned[m]
  <2>1. 2 \in DOMAIN Turned
    BY <1>3
  <2> QED
    BY <1>3, <1>5, <2>1, Swapped
<1> HIDE DEF q
<1>7. With(C, q).lits = q /\ With(C, q).kind = C.kind
  <2>1. Clean(C, used)
    BY <1>1, ReadingIs DEF Reading
  <2> QED
    BY <2>1 DEF With, Clean, Clauses
<1>8. ASSUME Turned = C.lits PROVE Serves(C, With(C, q))
  <2> SUFFICES /\ q[1] = C.lits[1]
               /\ \A m \in 2 .. Len(q) : \E j \in 2 .. Len(C.lits) : q[m] = C.lits[j]
    BY <1>7 DEF Serves
  <2>1. q[1] = C.lits[1]
    BY <1>2, <1>8 DEF k, q
  <2>2. ASSUME NEW m \in 2 .. Len(q)
        PROVE  \E j \in 2 .. Len(C.lits) : q[m] = C.lits[j]
    <3>1. /\ m \in 2 .. Len(C.lits) /\ k \in 2 .. Len(C.lits)
          /\ 2 \in 2 .. Len(C.lits) /\ m \in DOMAIN Turned
      BY <1>2, <1>3, <1>4, <1>6 DEF k
    <3>2. CASE m = 2
      BY <1>6, <1>8, <3>1, <3>2
    <3>3. CASE m = k
      BY <1>6, <1>8, <3>1, <3>3
    <3>4. CASE m # 2 /\ m # k
      BY <1>6, <1>8, <3>1, <3>4
    <3> QED
      BY <3>2, <3>3, <3>4
  <2> QED
    BY <2>1, <2>2
<1> QED
  BY <1>1, <1>8, ReorderServes

(* A clause that forces its first literal is its reason. *)
LEMMA ReasonsForced ==
  ASSUME PlainTypes, TrailInv, ListsInv, ReasonsInv, VisitForces,
         used' = used, next' \in Nat, next <= next'
  PROVE  Reasoned(trail', clauses')
<1>1. /\ Reading(FALSE) /\ Reorder(Turned) /\ Spare = {} /\ IsOpen(Turned[1])
      /\ Enqueue(Turned[1], Id)
  BY DEF VisitForces
<1>2. /\ Turned \in Seq(UsedLits) /\ Len(Turned) = Len(C.lits)
      /\ DOMAIN Turned = DOMAIN C.lits /\ 1 \in DOMAIN Turned
      /\ Turned[2] = Neg(P) /\ C.kind # "single"
      /\ \A m \in 3 .. Len(C.lits) : Turned[m] = C.lits[m]
  BY <1>1, TurnedIs
<1>3. /\ Id \in DOMAIN clauses /\ IsFalse(Neg(P)) /\ Clean(C, used)
  BY <1>1, ReadingIs DEF Reading
<1> DEFINE c == With(C, Turned)
           n == Len(trail) + 1
<1>4. c.lits = Turned /\ c.kind = C.kind
  BY <1>3 DEF With, Clean, Clauses
<1> HIDE DEF c
<1>5. Id \in DOMAIN clauses' /\ clauses'[Id] = c
  <2>1. clauses' = [clauses EXCEPT ![Id] = With(C, Turned)]
    BY <1>1 DEF Reorder, With, C
  <2> QED
    BY <1>3, <2>1 DEF c
<1>6. Reasoned(trail, clauses')
  BY <1>1, ReasonsTurned
<1>7. Len(trail) \in Nat /\ DOMAIN trail = 1 .. Len(trail)
      /\ trail \in Seq(EntryTypes(used, next))
  BY StateIs
<1>8. /\ Len(trail') \in Nat /\ DOMAIN trail' = 1 .. Len(trail')
      /\ Prefix(trail, trail')
  <2>1. \E q : Gains(q, Id)
    BY VisitsGain
  <2> QED
    BY <2>1, GainKeepsSound
<1>9. Len(trail') = n /\ trail'[n] = Entry(Turned[1], Id, Len(lim))
  <2> DEFINE e == Entry(Turned[1], Id, Len(lim))
  <2>1. trail' = Append(trail, e)
    BY <1>1 DEF Enqueue, CurrentLevel
  <2> HIDE DEF e
  <2>2. Len(trail') = n /\ trail'[n] = e
    BY <1>7, <2>1
  <2> QED
    BY <2>2 DEF e
<1>10. trail'[n].lit = Turned[1] /\ trail'[n].why = Id
  BY <1>9 DEF Entry
<1>11. ASSUME NEW m \in 2 .. Len(Turned) PROVE FalseBefore(trail', Turned[m], n)
  <2>1. IsFalse(Turned[m])
    <3>1. CASE m = 2
      BY <1>2, <1>3, <3>1
    <3>2. CASE m # 2
      <4>1. Len(C.lits) \in Nat
        BY <1>2
      <4>2. m \in 3 .. Len(C.lits)
        BY <1>2, <3>2, <4>1
      <4> QED
        BY <1>1, <1>2, <4>2 DEF Spare
    <3> QED
      BY <3>1, <3>2
  <2>2. PICK j \in DOMAIN trail : trail[j].lit = Neg(Turned[m])
    BY <2>1 DEF IsFalse, IsTrue
  <2>3. j \in DOMAIN trail' /\ trail'[j].lit = Neg(Turned[m]) /\ j < n
    BY <1>7, <1>8, <2>2 DEF Prefix
  <2> QED
    BY <2>3 DEF FalseBefore
<1>12. Forced(trail', n, c)
  BY <1>2, <1>4, <1>10, <1>11 DEF Forced
<1>13. \A i \in DOMAIN trail' \ DOMAIN trail : i = n
  BY <1>7, <1>8, <1>9
<1> HIDE DEF n
<1>14. \A i \in DOMAIN trail' \ DOMAIN trail :
         trail'[i].why \in DOMAIN clauses' /\ Forced(trail', i, clauses'[trail'[i].why])
  BY <1>5, <1>10, <1>12, <1>13
<1> QED
  BY <1>6, <1>7, <1>8, <1>14, ReasonsGrown

(* A single set is no reason above level zero. *)
LEMMA ReasonsSingle ==
  ASSUME PlainTypes, TrailInv, ListsInv, ReasonsInv, Reading(TRUE), NEW q, Reorder(q)
  PROVE  Reasoned(trail, clauses')
<1>1. Id \in DOMAIN clauses /\ clauses[Id].kind = "single"
  BY ReadingIs DEF Reading, C
<1>2. /\ DOMAIN clauses' = DOMAIN clauses
      /\ \A id \in DOMAIN clauses : id # Id => clauses'[id] = clauses[id]
  BY <1>1 DEF Reorder
<1>3. ASSUME NEW i \in DOMAIN trail, HasReason(trail, i),
             trail[i].why \in DOMAIN clauses,
             Forced(trail, i, clauses[trail[i].why])
      PROVE  /\ trail[i].why \in DOMAIN clauses'
             /\ Serves(clauses[trail[i].why], clauses'[trail[i].why])
  <2>1. trail[i].why # Id
    BY <1>1, <1>3 DEF Forced
  <2> QED
    BY <1>2, <1>3, <2>1, ServesItself
<1> QED
  BY <1>3, ReasonsServe DEF ReasonsInv

(* Locked clauses stay. *)
LEMMA ReasonsReduced ==
  ASSUME PlainTypes, TrailInv, ListsInv, ReasonsInv, Reduce
  PROVE  Reasoned(trail, clauses')
<1>1. PICK S \in SUBSET Removable :
        clauses' = [i \in DOMAIN clauses \ S |-> clauses[i]]
  BY DEF Reduce, ReduceDB, Removed
<1>2. OneEach(trail)
  BY StateIs
<1>3. ASSUME NEW i \in DOMAIN trail, HasReason(trail, i),
             trail[i].why \in DOMAIN clauses,
             Forced(trail, i, clauses[trail[i].why])
      PROVE  /\ trail[i].why \in DOMAIN clauses'
             /\ Serves(clauses[trail[i].why], clauses'[trail[i].why])
  <2> DEFINE id == trail[i].why
             first == clauses[id].lits[1]
  <2>1. first = trail[i].lit
    BY <1>3 DEF Forced
  <2>2. IsTrue(first) /\ Why(first[1]) = id
    BY <1>2, <2>1, PlaceIs DEF IsTrue
  <2>3. Locked(id)
    BY <2>2 DEF Locked
  <2>4. id \notin S
    BY <2>3 DEF Removable
  <2> HIDE DEF first, id
  <2>5. id \in DOMAIN clauses' /\ clauses'[id] = clauses[id]
    BY <1>1, <1>3, <2>4 DEF id
  <2> QED
    BY <2>5, ServesItself DEF id
<1> QED
  BY <1>3, ReasonsServe DEF ReasonsInv

(* At level zero no literal has a reason. *)
LEMMA NoReasons ==
  ASSUME PlainTypes, TrailInv, Len(lim) = 0, NEW all
  PROVE  Reasoned(trail, all)
<1>1. \A i \in DOMAIN trail : trail[i].level = 0
  BY StateIs
<1> QED
  BY <1>1 DEF Reasoned, HasReason

LEMMA ReasonsStep ==
  ASSUME PlainTypes, CallsTyped, TrailInv, ListsInv, ReasonsInv, CallInv, WorkInv,
         Next
  PROVE  ReasonsInv'
<1>1. /\ used' = used /\ next' \in Nat \ {0} /\ next <= next' /\ next' \in Nat
  BY FlatStep, NextGrows
<1>2. Reasoned(trail, clauses)
  BY DEF ReasonsInv
<1> SUFFICES Reasoned(trail', clauses')
  BY DEF ReasonsInv
(* The clauses stay. *)
<1>3. ASSUME clauses' = clauses,
             \/ Stays \/ GoesUp \/ (\E q : Gains(q, 0))
             \/ (\E l \in UsedLits : GuessesLit(l)) \/ OpensLevel
             \/ AssertSucceeds \/ AssertFails
      PROVE  Reasoned(trail', clauses')
  <2>1. CASE Stays \/ OpensLevel
    BY <1>2, <1>3, <2>1 DEF Stays, OpensLevel
  <2>2. CASE GoesUp
    <3>1. PICK n \in Nat : trail' = TrailUpTo(n)
      BY <2>2 DEF GoesUp, CancelUntil
    <3> QED
      BY <1>3, <3>1, ReasonsBack
  <2>3. CASE \E q : Gains(q, 0)
    BY <1>1, <1>3, <2>3, ReasonsGain
  <2>4. CASE \E l \in UsedLits : GuessesLit(l)
    BY <1>1, <1>3, <2>4, ReasonsGuess
  <2>5. CASE AssertSucceeds
    BY <2>5, FactsKeepSound DEF Reasoned, HasReason
  <2>6. CASE AssertFails
    BY <1>3, <2>6, ReasonsDeny
  <2> QED
    BY <1>3, <2>1, <2>2, <2>3, <2>4, <2>5, <2>6
<1>4. CASE AddAClause \/ AddASingle \/ AddAPair
  <2>1. \E q : Gains(q, 0)
    BY <1>4, AddsGain
  <2>2. Reasoned(trail', clauses)
    BY <1>1, <2>1, ReasonsGain
  <2>3. Addition
    <3>1. Adding
      BY <1>4, ClauseAdds, SingleAdds, PairAdds
    <3> QED
      BY <3>1 DEF Adding
  <2> QED
    BY <2>2, <2>3, AdditionExtends, ReasonsExtended
<1>5. CASE SearchLearns \/ TryBacktracks
  BY <1>1, <1>5, ReasonsLearn DEF SearchLearns, TryBacktracks
<1>6. CASE VisitTrue \/ VisitFails
  BY <1>6, ReasonsTurned DEF VisitTrue, VisitFails
<1>7. CASE VisitForces
  BY <1>1, <1>7, ReasonsForced
<1>8. CASE VisitMoves
  <2>1. trail' = trail
    BY <1>8 DEF VisitMoves, Moves
  <2> QED
    BY <1>8, <2>1, ReasonsMoved
<1>9. CASE VisitSettles \/ VisitRefutes
  <2>1. PICK q : Len(lim) = 0 /\ Gains(q, Id)
    BY <1>9, VisitsGain
  <2>2. clauses' = clauses
    BY <1>9 DEF VisitSettles, VisitRefutes
  <2> QED
    BY <1>1, <2>1, <2>2, ReasonsGain
<1>10. CASE VisitSwaps
  <2>1. trail' = trail
    BY <1>10 DEF VisitSwaps, Moves
  <2> QED
    BY <1>10, <2>1, ReasonsSingle DEF VisitSwaps
<1>11. CASE VisitClashes
  <2>1. trail' = trail /\ Reading(TRUE) /\ \E q : Reorder(q)
    BY <1>11 DEF VisitClashes
  <2> QED
    BY <2>1, ReasonsSingle
<1>12. CASE Reduce
  <2>1. trail' = trail
    BY <1>12 DEF Reduce, assignment
  <2> QED
    BY <1>12, <2>1, ReasonsReduced
<1>13. CASE Tidy
  <2>1. trail' = trail /\ Len(lim) = 0
    BY <1>13 DEF Tidy, assignment, CurrentLevel
  <2> QED
    BY <2>1, NoReasons
<1>14. CASE \/ Reset \/ PopCheck \/ CheckFails \/ RefutesTooLate \/ Restart
            \/ RestartsTooLate \/ AssumeFalse \/ AssumesTooLate \/ ModelFound
            \/ FoundTooLate
  <2>1. GoesUp
    BY <1>14, GoesUpIs
  <2>2. clauses' = clauses
    BY <1>14 DEF Reset, PopCheck, GoesBack, CheckFails, UnchangedInAttempt,
                 RefutesTooLate, Restart, RestartsTooLate, AssumeFalse,
                 AssumesTooLate, ModelFound, FoundTooLate, Bail,
                 UnchangedByAnswer, database
  <2> QED
    BY <1>3, <2>1, <2>2
<1>15. CASE Attempt \/ AssumeOpen \/ Branch
  <2>1. \E l \in UsedLits : GuessesLit(l)
    BY <1>15, GuessesIs
  <2>2. clauses' = clauses
    BY <1>15 DEF Attempt, AssumeOpen, Branch, Decide, database
  <2> QED
    BY <1>3, <2>1, <2>2
<1>16. CASE AssertSucceeds \/ AssertFails
  <2>1. clauses' = clauses
    BY <1>16 DEF AssertSucceeds, AssertFails, UnchangedInAttempt, database
  <2> QED
    BY <1>3, <1>16, <2>1
<1>17. CASE \/ NextWatchList \/ AddFinished \/ AddRefutes \/ LightSolve
            \/ AnswerKnown \/ Resolve \/ TrySucceeds \/ Denied \/ CheckSucceeds
            \/ AttemptRefutes \/ Solve \/ Refused \/ SearchRefutes \/ AssumeTrue
            \/ Returned
  <2>1. trail' = trail /\ clauses' = clauses
    BY <1>17 DEF NextWatchList, AddFinished, AddRefutes, LightSolve, AnswerKnown,
                 Resolve, TrySucceeds, Denied, CheckSucceeds, AttemptRefutes, Ends,
                 UnchangedInAttempt, Solve, Refused, SearchRefutes,
                 UnchangedByAnswer, AssumeTrue, Returned, vars, assignment,
                 database
  <2> QED
    BY <1>2, <2>1
<1> QED
  BY <1>4, <1>5, <1>6, <1>7, <1>8, <1>9, <1>10, <1>11, <1>12, <1>13, <1>14, <1>15,
     <1>16, <1>17 DEF Next

---------------------------------------------------------------------------
(* Lists that miss a clause are of no use any more, and stay so.           *)
LEMMA StaysBroken ==
  ASSUME PlainTypes, CallsTyped, TrailInv, ListsInv, CallInv, Next, Broken
  PROVE  Broken'
<1> SUFFICES \/ ~ ok' \/ "givenUp" \in slips' \/ "revived" \in slips'
             \/ pc' = "conflict" /\ Len(lim') = 0
  BY DEF Broken, CurrentLevel
<1>1. \/ ~ ok \/ "givenUp" \in slips \/ "revived" \in slips
      \/ ok /\ pc = "conflict" /\ Len(lim) = 0
  BY DEF Broken, CurrentLevel
<1>2. ASSUME ok' = ok, slips \subseteq slips', pc # "conflict" \/ Len(lim) # 0
      PROVE  ~ ok' \/ "givenUp" \in slips' \/ "revived" \in slips'
  BY <1>1, <1>2
<1>3. CASE AddAClause \/ AddASingle \/ AddAPair
  <2>1. ok' => ok
    <3>1. Adding
      BY <1>3, ClauseAdds, SingleAdds, PairAdds
    <3> QED
      BY <3>1 DEF Adding
  <2>2. slips \subseteq slips' /\ pc = "call"
    BY <1>3 DEF AddAClause, AddASingle, AddAPair, Adds, NextCall
  <2> QED
    BY <1>1, <2>1, <2>2
<1>4. CASE \/ AddFinished \/ LightSolve \/ Reset \/ PopCheck \/ AnswerKnown
           \/ Attempt \/ Solve
  BY <1>2, <1>4 DEF AddFinished, LightSolve, Reset, PopCheck, GoesBack, AnswerKnown,
                    Attempt, Solve, NextCall, Quiet
<1>5. CASE AddRefutes \/ AttemptRefutes \/ SearchRefutes
  BY <1>5 DEF AddRefutes, AttemptRefutes, SearchRefutes
<1>6. CASE \/ NextWatchList \/ VisitTrue \/ VisitMoves \/ VisitForces \/ VisitFails
           \/ VisitSettles \/ VisitRefutes \/ VisitSwaps
  BY <1>2, <1>6 DEF NextWatchList, VisitTrue, VisitMoves, VisitForces, VisitFails,
                    VisitSettles, VisitRefutes, VisitSwaps, Reading, Pending, Keep,
                    Moves, Conflict, UnchangedByVisit
<1>7. CASE VisitClashes
  <2>1. /\ ok' = ok /\ pc = "propagate" /\ slips \subseteq slips'
    BY <1>7 DEF VisitClashes, Reading, Pending, ExposedIf, Conflict,
                UnchangedByVisit
  <2> QED
    BY <1>2, <2>1
<1>8. CASE Resolve \/ SearchLearns \/ TryBacktracks
  <2>1. ok' = ok /\ slips' = slips /\ Len(lim) # 0
    BY <1>8, StateIs DEF Resolve, SearchLearns, TryBacktracks, Learn, Analyzing,
                CurrentLevel
  <2> QED
    BY <1>2, <2>1
<1>9. CASE TrySucceeds \/ CheckSucceeds \/ AssertSucceeds
  BY <1>2, <1>9 DEF TrySucceeds, CheckSucceeds, AssertSucceeds, Ends, Quiet
<1>16. CASE Denied
  <2>1. pc # "conflict" /\ slips \subseteq slips' /\ (~ ok => "revived" \in slips')
    BY <1>16 DEF Denied, Quiet
  <2> QED
    BY <1>1, <2>1
<1>10. CASE AssertFails
  <2>1. Len(lim) = 1 /\ ok' = ok /\ slips \subseteq slips'
    BY <1>10, DeniedLit DEF AssertFails, LeavesExposed, ExposedIf
  <2> QED
    BY <1>2, <2>1
<1>11. CASE CheckFails
  <2>1. marks # << >> /\ Len(lim) = marks[Len(marks)] + 1
    BY <1>11 DEF CheckFails, During, CallInv
  <2>2. marks[Len(marks)] \in Nat
    <3>1. marks \in Seq(Nat) /\ Len(lim) \in Nat
      BY StateIs DEF PlainTypes
    <3> QED
      BY <2>1, <3>1, MarksTyped
  <2>3. Len(lim) # 0
    BY <2>1, <2>2
  <2>4. ok' = ok /\ slips \subseteq slips'
    BY <1>11 DEF CheckFails, LeavesExposed, ExposedIf
  <2> QED
    BY <1>2, <2>3, <2>4
<1>12. CASE RefutesTooLate
  BY <1>12 DEF RefutesTooLate, Bail
<1>13. CASE RestartsTooLate \/ AssumesTooLate
  <2>1. pc # "conflict" /\ ok' = ok /\ slips \subseteq slips'
    BY <1>13 DEF RestartsTooLate, AssumesTooLate, Bail, Restarting, Assuming,
                 Deciding, Quiet
  <2> QED
    BY <1>2, <2>1
<1>14. CASE \/ Refused \/ AssumeFalse \/ ModelFound \/ FoundTooLate \/ Restart
            \/ Tidy \/ AssumeTrue \/ AssumeOpen \/ Reduce \/ Branch
  <2>1. pc # "conflict" /\ ok' = ok /\ slips' = slips
    BY <1>14 DEF Refused, AssumeFalse, ModelFound, FoundTooLate, Restart, Restarting,
                 Tidy, AssumeTrue, AssumeOpen, Reduce, Branch, Decide, Picking,
                 Branching, Assuming, Deciding, Quiet, UnchangedInside
  <2> QED
    BY <1>2, <2>1
<1>15. CASE Returned
  BY <1>1, <1>15 DEF Returned, vars, assignment
<1> QED
  BY <1>3, <1>4, <1>5, <1>6, <1>7, <1>8, <1>9, <1>16, <1>10, <1>11, <1>12, <1>13,
     <1>14, <1>15 DEF Next

LEMMA ListedStep ==
  ASSUME PlainTypes, CallsTyped, TrailInv, ListsInv, EachListed, CallInv, WorkInv,
         Next
  PROVE  EachListed'
<1>1. ListsKept \/ VisitRefutes
  BY ListsStep
<1>2. CASE VisitRefutes
  <2>1. pc' = "conflict" /\ lim' = lim /\ Len(lim) = 0
    BY <1>2 DEF VisitRefutes, Conflict, UnchangedByVisit, CurrentLevel
  <2> QED
    BY <2>1 DEF EachListed, Broken, CurrentLevel
<1>3. CASE ListsKept
  <2>1. Broken => Broken'
    BY StaysBroken
  <2>2. Listed(watches, clauses) => Listed(watches', clauses')
    BY <1>3 DEF ListsKept
  <2> QED
    BY <2>1, <2>2 DEF EachListed
<1> QED
  BY <1>1, <1>2, <1>3

---------------------------------------------------------------------------
(* Where the present call stands.                                          *)
LEMMA VisitsKeepCall ==
  ASSUME PlainTypes, CallsTyped, TrailInv, ListsInv, CallInv, Next,
         call' = call, lim' = lim, marks' = marks, pc' \in {"propagate", "conflict"},
         Stays \/ \E q, why : Gains(q, why)
  PROVE  CallInv'
<1>1. Prefix(trail, trail')
  <2>1. CASE Stays
    BY <2>1 DEF Stays, Prefix
  <2>2. CASE \E q, why : Gains(q, why)
    BY <2>2, FlatStep, NextGrows, GainKeepsSound
  <2> QED
    BY <2>1, <2>2
<1>2. ASSUME call.op = "assert"
      PROVE  lim[1] + 1 \in DOMAIN trail' /\ trail'[lim[1] + 1].lit = Lit
  <2>1. lim[1] + 1 \in DOMAIN trail /\ trail[lim[1] + 1].lit = Lit
    BY <1>2 DEF CallInv
  <2> QED
    BY <1>1, <2>1 DEF Prefix
<1>3. Lit' = Lit
  BY DEF Lit
<1> QED
  BY <1>2, <1>3 DEF CallInv

LEMMA AttemptBegins ==
  ASSUME PlainTypes, CallsTyped, TrailInv, CallInv, Attempt
  PROVE  CallInv'
<1>1. PICK op \in Attempts :
        /\ NextCall(op) /\ (op = "assert" => CurrentLevel = 0)
        /\ lim' = Append(lim, Len(trail))
        /\ trail' = Append(trail, Entry(Args[1], 0, CurrentLevel + 1))
        /\ Marked(op)
        /\ call' = Begin(op, Args) /\ pc' = "propagate"
  BY DEF Attempt
<1>2. /\ Len(lim) \in Nat /\ lim \in Seq(0 .. Len(trail)) /\ marks \in Seq(Nat)
      /\ trail \in Seq(EntryTypes(used, next)) /\ Len(trail) \in Nat
  BY StateIs DEF PlainTypes
<1>3. Len(Args) = 1
  <2>1. NextCall(op)
    BY <1>1
  <2>2. Head(calls).op = op /\ WellFormed(Head(calls))
    BY <2>1, CallIs
  <2> QED
    BY <1>1, <2>2 DEF WellFormed, Args
<1>4. call'.op = op /\ call'.lits = Args
  BY <1>1 DEF Begin
<1>5. op = "assert" => /\ Len(lim') = 1 /\ lim'[1] + 1 \in DOMAIN trail'
                       /\ trail'[lim'[1] + 1].lit = Args[1]
  <2> SUFFICES ASSUME op = "assert"
               PROVE  /\ Len(lim') = 1 /\ lim'[1] + 1 \in DOMAIN trail'
                      /\ trail'[lim'[1] + 1].lit = Args[1]
    OBVIOUS
  <2>1. Len(lim) = 0
    BY <1>1 DEF CurrentLevel
  <2>2. Len(lim') = 1 /\ lim'[1] = Len(trail)
    BY <1>1, <1>2, <2>1
  <2> DEFINE e == Entry(Args[1], 0, CurrentLevel + 1)
  <2>3. e.lit = Args[1] /\ trail' = Append(trail, e)
    BY <1>1 DEF Entry
  <2> HIDE DEF e
  <2>4. Len(trail) + 1 \in DOMAIN trail' /\ trail'[Len(trail) + 1] = e
    BY <1>2, <2>3
  <2> QED
    BY <2>2, <2>3, <2>4
<1>6. op = "check" => /\ marks' # << >> /\ Len(lim') = marks'[Len(marks')] + 1
  <2> SUFFICES ASSUME op = "check"
               PROVE  marks' # << >> /\ Len(lim') = marks'[Len(marks')] + 1
    OBVIOUS
  <2>1. marks' = Append(marks, Len(lim))
    BY <1>1 DEF Marked, CurrentLevel
  <2>2. marks' # << >> /\ marks'[Len(marks')] = Len(lim)
    <3>1. marks \in Seq(Nat) /\ Len(lim) \in Nat
      BY <1>2
    <3>2. /\ Append(marks, Len(lim)) \in Seq(Nat)
          /\ Len(Append(marks, Len(lim))) = Len(marks) + 1
          /\ Append(marks, Len(lim))[Len(marks) + 1] = Len(lim)
      BY <3>1, Appended
    <3>3. Len(marks) \in Nat
      BY <3>1
    <3> QED
      BY <2>1, <3>2, <3>3
  <2>3. Len(lim') = Len(lim) + 1
    BY <1>1, <1>2
  <2> QED
    BY <2>2, <2>3
<1>7. Lit' = Args[1]
  BY <1>4 DEF Lit
<1> QED
  BY <1>1, <1>3, <1>4, <1>5, <1>6, <1>7 DEF CallInv

LEMMA CallStep ==
  ASSUME PlainTypes, CallsTyped, TrailInv, ListsInv, CallInv, WorkInv, Next
  PROVE  CallInv'
<1> DEFINE Idle == call' = NoCall /\ pc' = "call"
           Same == /\ call' = call /\ pc' = pc /\ call.op \notin {"assert", "check"}
<1>1. ASSUME Idle PROVE CallInv'
  BY <1>1 DEF CallInv, NoCall
<1>2. ASSUME Same PROVE CallInv'
  BY <1>2 DEF CallInv
<1>3. pc = "call" => call.op = "none"
  BY DEF CallInv
<1>4. CASE AddAClause \/ AddASingle \/ AddAPair
  <2>1. Adding
    BY <1>4, ClauseAdds, SingleAdds, PairAdds
  <2>2. pc = "call"
    BY <1>4 DEF AddAClause, AddASingle, AddAPair, Adds, NextCall
  <2>3. CASE UNCHANGED <<pc, call>>
    BY <1>2, <1>3, <2>2, <2>3
  <2>4. CASE ~ UNCHANGED <<pc, call>>
    <3>1. pc' = "propagate" /\ call'.op = "fact"
      BY <2>1, <2>4 DEF Adding, Begin
    <3> QED
      BY <3>1 DEF CallInv
  <2> QED
    BY <2>3, <2>4
<1>5. CASE LightSolve \/ Reset \/ PopCheck \/ AnswerKnown
  BY <1>2, <1>3, <1>5 DEF LightSolve, Reset, PopCheck, GoesBack, AnswerKnown, NextCall
<1>6. CASE Attempt
  BY <1>6, AttemptBegins
<1>7. CASE \/ AddFinished \/ AddRefutes \/ TrySucceeds \/ Denied \/ CheckSucceeds
           \/ AttemptRefutes \/ AssertSucceeds \/ CheckFails
  BY <1>1, <1>7 DEF AddFinished, AddRefutes, TrySucceeds, Denied, CheckSucceeds, Ends,
                    Finish, AttemptRefutes, AssertSucceeds, CheckFails
<1>8. CASE \/ Refused \/ SearchRefutes \/ RefutesTooLate \/ RestartsTooLate
           \/ AssumeFalse \/ AssumesTooLate \/ ModelFound \/ FoundTooLate
  BY <1>1, <1>8 DEF Refused, SearchRefutes, RefutesTooLate, RestartsTooLate,
                    AssumeFalse, AssumesTooLate, ModelFound, FoundTooLate, Bail,
                    Answers
<1>9. CASE NextWatchList \/ VisitTrue \/ VisitMoves \/ VisitFails \/ VisitSwaps
           \/ VisitClashes
  <2>1. /\ call' = call /\ lim' = lim /\ marks' = marks /\ trail' = trail
        /\ pc' \in {"propagate", "conflict"}
    BY <1>9 DEF NextWatchList, VisitTrue, VisitMoves, VisitFails, VisitSwaps,
                VisitClashes, Reading, Pending, Keep, Moves, Conflict,
                UnchangedByVisit
  <2>2. Stays
    <3>1. qhead' \in 0 .. Len(trail')
      BY TrailStep
    <3> QED
      BY <2>1, <3>1 DEF Stays
  <2> QED
    BY <2>1, <2>2, VisitsKeepCall
<1>10. CASE VisitForces \/ VisitSettles \/ VisitRefutes
  <2>1. /\ call' = call /\ lim' = lim /\ marks' = marks
        /\ pc' \in {"propagate", "conflict"}
    BY <1>10 DEF VisitForces, VisitSettles, VisitRefutes, Reading, Pending, Keep,
                 Conflict, UnchangedByVisit
  <2>2. \E q, why : Gains(q, why)
    BY <1>10, VisitsGain
  <2> QED
    BY <2>1, <2>2, VisitsKeepCall
<1>11. CASE Resolve
  BY <1>2, <1>11 DEF Resolve, Analyzing
<1>12. CASE SearchLearns \/ TryBacktracks
  <2>1. pc' = "propagate" /\ call'.op \in {"try", "solve"}
    BY <1>12 DEF SearchLearns, TryBacktracks, Learn, Searching, During,
                 CallsTyped, CallTypes
  <2> QED
    BY <2>1 DEF CallInv
<1>13. CASE AssertFails
  <2>1. pc' = "propagate" /\ call'.op = "denied"
    BY <1>13 DEF AssertFails, CallsTyped, CallTypes
  <2> QED
    BY <2>1 DEF CallInv
<1>14. CASE Solve
  <2>1. pc' \in {"propagate", "refused"} /\ call'.op = "tidy"
    BY <1>14 DEF Solve, Begin
  <2> QED
    BY <2>1 DEF CallInv
<1>15. CASE Restart
  <2>1. call' = call /\ pc' = pc /\ call.op = "solve"
    BY <1>15 DEF Restart, Restarting, RestartDue, Searching, During
  <2> QED
    BY <1>2, <2>1
<1>16. CASE Tidy
  <2>1. pc' \in {"propagate", "decide"} /\ call'.op = "solve"
    BY <1>16 DEF Tidy, CallsTyped, CallTypes
  <2> QED
    BY <2>1 DEF CallInv
<1>17. CASE AssumeTrue \/ AssumeOpen \/ Reduce \/ Branch
  <2>1. call.op = "solve"
    BY <1>17 DEF AssumeTrue, AssumeOpen, Reduce, Branch, Assuming, Branching,
                 Picking, Deciding, Searching, During, CallInv
  <2>2. call' = call /\ pc' \in {"decide", "propagate", "pick"}
    BY <1>17 DEF AssumeTrue, AssumeOpen, Reduce, Branch, Decide
  <2> QED
    BY <2>1, <2>2 DEF CallInv
<1>18. CASE Returned
  <2>1. UNCHANGED <<pc, call>> /\ pc = "call"
    BY <1>18 DEF Returned, vars, Running
  <2> QED
    BY <1>2, <1>3, <2>1
<1> QED
  BY <1>4, <1>5, <1>6, <1>7, <1>8, <1>9, <1>10, <1>11, <1>12, <1>13, <1>14, <1>15,
     <1>16, <1>17, <1>18 DEF Next

---------------------------------------------------------------------------
(* What analyze() works on.                                                *)
LEMMA ConflictFrom ==
  ASSUME PlainTypes, CallsTyped, TrailInv, CallInv, Next, pc' = "conflict"
  PROVE  VisitFails \/ VisitClashes \/ VisitRefutes \/ Resolve
<1>1. CASE AddAClause \/ AddASingle \/ AddAPair
  <2>1. Adding
    BY <1>1, ClauseAdds, SingleAdds, PairAdds
  <2>2. pc = "call"
    BY <1>1 DEF AddAClause, AddASingle, AddAPair, Adds, NextCall
  <2> QED
    BY <2>1, <2>2 DEF Adding
<1>2. CASE \/ AddFinished \/ AddRefutes \/ LightSolve \/ Reset \/ PopCheck
           \/ AnswerKnown \/ Attempt \/ Solve
  BY <1>2 DEF AddFinished, AddRefutes, LightSolve, Reset, PopCheck, GoesBack,
              AnswerKnown, Attempt, Solve, NextCall
<1>3. CASE \/ NextWatchList \/ VisitTrue \/ VisitMoves \/ VisitForces
           \/ VisitSettles \/ VisitSwaps
  BY <1>3 DEF NextWatchList, VisitTrue, VisitMoves, VisitForces, VisitSettles,
              VisitSwaps, Reading, Pending, Keep, Moves
<1>4. CASE \/ TrySucceeds \/ Denied \/ CheckSucceeds \/ AttemptRefutes
           \/ AssertSucceeds \/ AssertFails \/ CheckFails
  BY <1>4 DEF TrySucceeds, Denied, CheckSucceeds, Ends, Finish, AttemptRefutes,
              AssertSucceeds, AssertFails, CheckFails
<1>5. CASE SearchLearns \/ TryBacktracks
  BY <1>5 DEF SearchLearns, TryBacktracks, Learn
<1>6. CASE \/ Refused \/ SearchRefutes \/ RefutesTooLate \/ RestartsTooLate
           \/ AssumeFalse \/ AssumesTooLate \/ ModelFound \/ FoundTooLate
  BY <1>6 DEF Refused, SearchRefutes, RefutesTooLate, RestartsTooLate, AssumeFalse,
              AssumesTooLate, ModelFound, FoundTooLate, Bail, Answers
<1>7. CASE Restart \/ Tidy \/ AssumeTrue \/ AssumeOpen \/ Reduce \/ Branch
  BY <1>7 DEF Restart, Restarting, Quiet, Tidy, AssumeTrue, AssumeOpen, Reduce,
              Branch, Decide
<1>8. CASE Returned
  BY <1>8 DEF Returned, vars, Running
<1> QED
  BY <1>1, <1>2, <1>3, <1>4, <1>5, <1>6, <1>7, <1>8 DEF Next

LEMMA ConflictAnalyzed ==
  ASSUME PlainTypes, TrailInv, NEW q \in Seq(UsedLits), Conflict(q), trail' = trail,
         DistinctVars(q), \A k \in DOMAIN q : IsFalse(q[k]), NEW n
  PROVE  Analyzed(work', trail', n)
<1>1. /\ work'.clause = q /\ work'.index = Len(trail) /\ work'.out = << >>
  BY DEF Conflict, NoWork
<1>2. \A k \in DOMAIN q : FalseIn(trail', q[k])
  BY TrueIs
<1>3. Len(trail) \in Nat
  BY StateIs
<1>4. DOMAIN work'.out = {} /\ DistinctVars(work'.out)
  BY <1>1 DEF DistinctVars
<1> QED
  BY <1>1, <1>2, <1>3, <1>4 DEF Analyzed

LEMMA FailsAnalyzed ==
  ASSUME PlainTypes, TrailInv, ListsInv, VisitFails, NEW n
  PROVE  Analyzed(work', trail', n)
<1>1. /\ Reading(FALSE) /\ Spare = {} /\ IsFalse(Turned[1]) /\ Conflict(Turned)
      /\ trail' = trail
  BY DEF VisitFails
<1>2. /\ Turned \in Seq(UsedLits) /\ Len(Turned) = Len(C.lits)
      /\ DOMAIN Turned = DOMAIN C.lits /\ DistinctVars(Turned)
      /\ Turned[2] = Neg(P)
      /\ \A m \in 3 .. Len(C.lits) : Turned[m] = C.lits[m]
  BY <1>1, TurnedIs
<1>3. IsFalse(Neg(P))
  BY <1>1, ReadingIs DEF Reading
<1>4. ASSUME NEW m \in DOMAIN Turned PROVE IsFalse(Turned[m])
  <2>1. Len(C.lits) \in Nat /\ m \in 1 .. Len(C.lits)
    BY <1>2
  <2>2. CASE m = 1
    BY <1>1, <2>2
  <2>3. CASE m = 2
    BY <1>2, <1>3, <2>3
  <2>4. CASE m # 1 /\ m # 2
    <3>1. m \in 3 .. Len(C.lits)
      BY <2>1, <2>4
    <3> QED
      BY <1>1, <1>2, <3>1 DEF Spare
  <2> QED
    BY <2>2, <2>3, <2>4
<1> QED
  BY <1>1, <1>2, <1>4, ConflictAnalyzed

LEMMA ClashesAnalyzed ==
  ASSUME PlainTypes, TrailInv, ListsInv, VisitClashes, NEW n
  PROVE  Analyzed(work', trail', n)
<1> DEFINE k == Least(Second)
           front == IF k > Here THEN Swap(C.lits, Here, 1) ELSE C.lits
           second == Swap(front, k, 2)
           pair == Swap(second, IndexOf(second, Neg(P)), 1)
           two == SubSeq(pair, 1, 2)
<1>1. Reading(TRUE) /\ Second # {} /\ Conflict(two) /\ trail' = trail
  BY DEF VisitClashes
<1>2. /\ pair \in Seq(UsedLits) /\ DistinctVars(pair) /\ Len(pair) = Len(C.lits)
      /\ pair[1] = Neg(P) /\ pair[2] = C.lits[k] /\ IsFalse(C.lits[k])
  BY <1>1, ClashIs
<1>3. IsFalse(Neg(P)) /\ Len(C.lits) \in Nat /\ Len(C.lits) > 2
  BY <1>1, ReadingIs, HereIs DEF Reading
<1> HIDE DEF k, front, second, pair
<1>4. /\ two \in Seq(UsedLits) /\ DOMAIN two = {1, 2}
      /\ two[1] = pair[1] /\ two[2] = pair[2]
  BY <1>2, <1>3
<1>5. DistinctVars(two)
  <2>1. 1 \in DOMAIN pair /\ 2 \in DOMAIN pair
    BY <1>2, <1>3
  <2> QED
    BY <1>2, <1>4, <2>1 DEF DistinctVars
<1>6. \A m \in DOMAIN two : IsFalse(two[m])
  BY <1>2, <1>3, <1>4
<1> HIDE DEF two
<1> QED
  BY <1>1, <1>4, <1>5, <1>6, ConflictAnalyzed

LEMMA ResolveAnalyzed ==
  ASSUME PlainTypes, CallsTyped, TrailInv, ListsInv, ReasonsInv, WorkInv, Resolve
  PROVE  Analyzed(work', trail', Len(lim'))
<1> DEFINE r == clauses[trail[Uip].why].lits
           c == Tail(r)
<1>1. /\ Analyzing /\ trail' = trail /\ lim' = lim
      /\ work' = [work EXCEPT !.clause = c, !.index = Uip - 1, !.seen = Seen,
                              !.out = Out]
  BY DEF Resolve, assignment
<1>2. Uip \in DOMAIN trail /\ HasReason(trail, Uip)
  <2>1. \E i \in Present : i # Uip
    BY DEF Resolve
  <2> QED
    BY <1>1, <2>1, UipForced
<1>3. /\ trail[Uip].why \in DOMAIN clauses
      /\ Forced(trail, Uip, clauses[trail[Uip].why])
  BY <1>2 DEF ReasonsInv, Reasoned
<1>4. Clean(clauses[trail[Uip].why], used)
  BY <1>3 DEF ListsInv, ClausesOf
<1>5. r \in Seq(UsedLits) /\ Len(r) \in Nat \ {0, 1} /\ DistinctVars(r)
  BY <1>4, StateIs, WatchedIs DEF UsedLits
<1>6. \A k \in 2 .. Len(r) : FalseIn(trail, r[k])
  <2>1. \A k \in 2 .. Len(r) : FalseBefore(trail, r[k], Uip)
    BY <1>3 DEF Forced
  <2> QED
    BY <2>1 DEF FalseBefore, FalseIn, TrueIn
<1> HIDE DEF r
<1>7. /\ c \in Seq(UsedLits) /\ DOMAIN c = 1 .. Len(r) - 1
      /\ \A k \in DOMAIN c : c[k] = r[k + 1]
  BY <1>5
<1> HIDE DEF c
<1>8. DistinctVars(c)
  <2> SUFFICES ASSUME NEW j \in DOMAIN c, NEW k \in DOMAIN c, c[j][1] = c[k][1]
               PROVE  j = k
    BY DEF DistinctVars
  <2>1. /\ j + 1 \in DOMAIN r /\ k + 1 \in DOMAIN r /\ r[j + 1][1] = r[k + 1][1]
        /\ j \in Nat /\ k \in Nat
    BY <1>5, <1>7
  <2>2. j + 1 = k + 1
    BY <1>5, <2>1 DEF DistinctVars
  <2> QED
    BY <2>1, <2>2
<1>9. \A k \in DOMAIN c : FalseIn(trail, c[k])
  <2> SUFFICES ASSUME NEW k \in DOMAIN c PROVE FalseIn(trail, c[k])
    OBVIOUS
  <2>1. k + 1 \in 2 .. Len(r) /\ c[k] = r[k + 1]
    BY <1>5, <1>7
  <2> QED
    BY <1>6, <2>1
<1>10. /\ Out \in Seq(UsedLits) /\ DistinctVars(Out)
       /\ \A k \in DOMAIN Out :
            /\ FalseIn(trail, Out[k]) /\ Out[k][1] \in Seen
            /\ \E d \in 1 .. Len(lim) - 1 : LevelIn(trail, Out[k][1], d)
  <2>1. /\ Out \in Seq(UsedLits) /\ DistinctVars(Out)
        /\ \A k \in DOMAIN Out :
             /\ IsFalse(Out[k]) /\ Out[k] \in UsedLits /\ Out[k][1] \in Seen
             /\ Level(Out[k][1]) \in 1 .. Len(lim) - 1
    BY <1>1, OutIs
  <2>2. ASSUME NEW k \in DOMAIN Out
        PROVE  \E d \in 1 .. Len(lim) - 1 : LevelIn(trail, Out[k][1], d)
    <3>1. PICK i \in DOMAIN trail : /\ trail[i].lit[1] = Out[k][1]
                                    /\ Level(Out[k][1]) = trail[i].level
      BY <2>1, FalseHasPlace
    <3>2. LevelIn(trail, Out[k][1], Level(Out[k][1]))
      BY <3>1 DEF LevelIn
    <3> QED
      BY <2>1, <3>2
  <2> QED
    BY <2>1, <2>2, TrueIs
<1>11. /\ work'.clause = c /\ work'.index = Uip - 1 /\ work'.seen = Seen
       /\ work'.out = Out
  BY <1>1 DEF CallsTyped, WorkTypes
<1>12. Uip - 1 <= Len(trail)
  BY <1>2, StateIs
<1> QED
  BY <1>1, <1>8, <1>9, <1>10, <1>11, <1>12 DEF Analyzed

LEMMA WorkStep ==
  ASSUME PlainTypes, CallsTyped, TrailInv, ListsInv, ReasonsInv, CallInv, WorkInv,
         Next
  PROVE  WorkInv'
<1> SUFFICES ASSUME pc' = "conflict", Len(lim') > 0
             PROVE  Analyzed(work', trail', Len(lim'))
  BY DEF WorkInv
<1>1. VisitFails \/ VisitClashes \/ VisitRefutes \/ Resolve
  BY ConflictFrom
<1>2. VisitRefutes => lim' = lim /\ Len(lim) = 0
  BY DEF VisitRefutes, CurrentLevel, Conflict, UnchangedByVisit
<1>3. ~ VisitRefutes
  BY <1>2
<1> QED
  BY <1>1, <1>3, FailsAnalyzed, ClashesAnalyzed, ResolveAnalyzed

---------------------------------------------------------------------------
(* The invariant.                                                          *)
LEMMA InitIInv ==
  ASSUME Init
  PROVE  IInv
<1>1. PICK j \in Jobs : used = j.vars /\ calls = j.calls
  BY DEF Init
<1>2. /\ used \subseteq Vars /\ calls \in Seq([op : Ops, lits : Seq(UsedLits)])
      /\ \A i \in DOMAIN calls : WellFormed(calls[i])
  BY <1>1, JobsAssumption DEF UsedLits
<1>3. /\ ok = TRUE /\ clauses = << >> /\ next = 1
      /\ watches = [l \in Lits |-> << >>]
      /\ trail = << >> /\ lim = << >> /\ qhead = 0 /\ at = 1
      /\ simplified = -1
  BY DEF Init
<1>4. /\ phase = [v \in Vars |-> FALSE] /\ model = [v \in Vars |-> FALSE]
      /\ pc = "call" /\ call = NoCall /\ work = NoWork /\ marks = << >>
      /\ answer = "none" /\ slips = {}
  BY DEF Init
<1>5. /\ Len(trail) = 0 /\ DOMAIN trail = {} /\ Len(lim) = 0 /\ DOMAIN lim = {}
      /\ DOMAIN clauses = {} /\ trail \in Seq(EntryTypes(used, next))
      /\ lim \in Seq(0 .. Len(trail))
  BY <1>3
<1>6. PlainTypes
  <2>1. /\ phase \in [Vars -> BOOLEAN] /\ model \in [Vars -> BOOLEAN]
        /\ pc \in Places /\ marks \in Seq(Nat) /\ slips \subseteq Slips
        /\ answer \in {"none", "sat", "unsat", "undef"}
    BY <1>4 DEF Places
  <2>2. /\ ok \in BOOLEAN /\ next \in Nat \ {0} /\ qhead \in 0 .. Len(trail)
        /\ at \in Nat \ {0} /\ simplified \in Nat \cup {-1}
    BY <1>3, <1>5
  <2> QED
    BY <1>2, <2>1, <2>2 DEF PlainTypes
<1>7. CallsTyped
  BY <1>2, <1>4, NoCallTyped, NoWorkTyped DEF CallsTyped
<1>8. TrailInv
  BY <1>5 DEF TrailInv, Sound, OneEach, Levelled, GuessFirst
<1>9. ListsInv /\ Listed(watches, clauses)
  <2>1. ClausesOf(clauses, used, next) /\ Listed(watches, clauses)
    BY <1>5 DEF ClausesOf, Listed
  <2>2. \A l \in Lits : /\ watches[l] \in Seq(1 .. next - 1)
                        /\ DOMAIN watches[l] = {}
    BY <1>3
  <2>3. watches \in [Lits -> Seq(1 .. next - 1)]
    BY <1>3, <2>2
  <2>4. Exact(watches, clauses)
    BY <2>2 DEF Exact, NoneTwice, Range
  <2> QED
    BY <2>1, <2>3, <2>4 DEF ListsInv, ListsOf
<1>10. EachListed /\ ReasonsInv
  BY <1>5, <1>9 DEF EachListed, ReasonsInv, Reasoned
<1>11. CallInv /\ WorkInv
  BY <1>4 DEF CallInv, WorkInv, NoCall
<1> QED
  BY <1>6, <1>7, <1>8, <1>9, <1>10, <1>11 DEF IInv

LEMMA NextIInv ==
  ASSUME IInv, [Next]_vars
  PROVE  IInv'
<1> USE DEF IInv
<1>1. CASE Next
  <2>1. TrailInv' /\ PlainTypes' /\ Len(trail') \in Nat
    BY <1>1, TrailStep
  <2>2. CallsTyped'
    BY <1>1, <2>1, FlatStep, CallsStep
  <2>3. ListsInv' /\ EachListed'
    BY <1>1, ListsStep, ListedStep
  <2>4. ReasonsInv' /\ CallInv' /\ WorkInv'
    BY <1>1, ReasonsStep, CallStep, WorkStep
  <2> QED
    BY <2>1, <2>2, <2>3, <2>4
<1>2. CASE UNCHANGED vars
  <2>1. /\ UNCHANGED <<used, ok, clauses, next, watches, trail, lim, qhead, at>>
        /\ UNCHANGED <<simplified, phase, calls, pc, call, work, marks>>
        /\ UNCHANGED <<answer, model, slips>>
    BY <1>2 DEF vars, database, assignment, outcome
  <2>2. TrailInv' /\ ListsInv' /\ EachListed' /\ ReasonsInv'
    BY <2>1 DEF TrailInv, ListsInv, EachListed, ReasonsInv, Broken, CurrentLevel
  <2>3. PlainTypes' /\ CallInv' /\ WorkInv'
    BY <2>1 DEF PlainTypes, CallInv, WorkInv, Lit
  <2>4. CallsTyped'
    BY <2>1, TypesKept DEF CallsTyped
  <2> QED
    BY <2>2, <2>3, <2>4
<1> QED
  BY <1>1, <1>2

LEMMA IInvTypes ==
  ASSUME IInv
  PROVE  TypeOK
<1>1. PlainTypes /\ TrailInv /\ ListsInv
  BY DEF IInv
<1>2. /\ trail \in Seq([lit : used \X BOOLEAN, why : 0 .. next - 1, level : Nat])
      /\ lim \in Seq(0 .. Len(trail))
  BY <1>1 DEF TrailInv, Sound, EntryTypes
<1>3. /\ DOMAIN clauses \subseteq 1 .. next - 1
      /\ \A i \in DOMAIN clauses : clauses[i] \in ClauseTypes /\ LongEnough(clauses[i])
      /\ watches \in [Lits -> Seq(1 .. next - 1)]
  BY <1>1 DEF ListsInv, ClausesOf, ListsOf, Clean, Clauses, ClauseTypes
<1> QED
  BY <1>1, <1>2, <1>3 DEF TypeOK, PlainTypes

LEMMA IInvWatches ==
  ASSUME IInv
  PROVE  WatchesRight
<1>1. /\ Exact(watches, clauses) /\ (~ Broken => Listed(watches, clauses))
  BY DEF IInv, ListsInv, ListsOf, EachListed
<1> QED
  BY <1>1 DEF WatchesRight, Exact, NoneTwice, Listed, IsInjective

(* What the solver keeps to in every state (Solver.cpp): its types, the     *)
(* levels of the trail, exact watch lists, reasons that stand on the trail  *)
(* with all other literals false before them, and a conflict whose literals *)
(* are false, each once.                                                    *)
THEOREM SolverInvariant == Spec => []IInv
<1>1. Init => IInv
  BY InitIInv
<1>2. IInv /\ [Next]_vars => IInv'
  BY NextIInv
<1> QED
  BY <1>1, <1>2, PTL DEF Spec

(* The state stays of its types, whatever clauses a job adds and whatever   *)
(* it tries, through propagation, analysis and deletion (Solver.cpp).       *)
THEOREM SolverTypes == Spec => []TypeOK
BY SolverInvariant, IInvTypes, PTL

(* Every clause is in the watch lists of the literals that it watches,      *)
(* once, and in no other list, however propagate reorders its literals,     *)
(* removeWatch and reduceDB delete and simplifyAndCompact starts afresh.    *)
THEOREM SolverWatches == Spec => []WatchesRight
BY SolverInvariant, IInvWatches, PTL
===============================================================================
