------------------------- MODULE ClauseExchangeProofs -------------------------
(***************************************************************************)
(* Proofs about ClauseExchange, for any number of processes and variables, *)
(* any clauses an attempt may learn and any block size.                    *)
(***************************************************************************)
EXTENDS ClauseExchange, FiniteSetTheorems, TLAPS

(* The literals and the pairs are finitely many, so the sizes are numbers. *)
LEMMA FiniteLits == IsFiniteSet(Lits) /\ IsFiniteSet(Pairs)
<1>1. IsFiniteSet(BOOLEAN)
  <2>1. IsFiniteSet({TRUE}) /\ IsFiniteSet({FALSE})
    BY FS_Singleton
  <2>2. BOOLEAN = {TRUE} \cup {FALSE}
    OBVIOUS
  <2> QED BY <2>1, <2>2, FS_Union
<1>2. IsFiniteSet(Lits)
  BY <1>1, VarsAssumption, FS_Product DEF Lits
<1>3. IsFiniteSet(Clauses)
  BY <1>2, FS_SUBSET DEF Clauses
<1>4. IsFiniteSet(Pairs)
  BY <1>3, FS_Subset DEF Pairs
<1> QED BY <1>2, <1>4

(* Every message has room for its header, and no message is too long. *)
LEMMA SizeType ==
  ASSUME NEW P \in Publications
  PROVE  /\ Cardinality(P.single) \in Nat
         /\ Cardinality(P.dble) \in Nat
         /\ Size(P) \in Nat
         /\ Size(P) >= 3
         /\ Size(P) <= MostInts
<1>1. P.single \subseteq Lits /\ P.dble \subseteq Pairs
  BY DEF Publications
<1>2. /\ Cardinality(P.single) \in Nat
      /\ Cardinality(P.single) <= Cardinality(Lits)
  BY <1>1, FiniteLits, FS_Subset, FS_CardinalityType
<1>3. /\ Cardinality(P.dble) \in Nat
      /\ Cardinality(P.dble) <= Cardinality(Pairs)
  BY <1>1, FiniteLits, FS_Subset, FS_CardinalityType
<1>4. Cardinality(Lits) \in Nat /\ Cardinality(Pairs) \in Nat
  BY FiniteLits, FS_CardinalityType
<1> QED BY <1>2, <1>3, <1>4 DEF Size, MostInts, SizeOf
-----------------------------------------------------------------------------
(* The literals that an assignment makes true. *)
True(a) == {l \in Lits : a[l[1]] = l[2]}

LEMMA TrueNeg ==
  ASSUME NEW a \in Assignments, NEW l \in Lits
  PROVE  /\ Neg(l) \in Lits
         /\ l \in True(a) <=> Neg(l) \notin True(a)
BY DEF Neg, Lits, True, Assignments

(* A literal that propagation derives is true under every assignment that  *)
(* satisfies the clauses and the literals it starts from.                  *)
LEMMA ClosureSound ==
  ASSUME NEW a \in Assignments,
         NEW C \in SUBSET Clauses,
         NEW U \in SUBSET Lits,
         \A c \in C : Holds(c, a),
         U \subseteq True(a)
  PROVE  Closure(C, U) \subseteq True(a)
<1>1. True(a) \in SUBSET Lits
  BY DEF True
<1>2. Closed(C, True(a))
  <2> SUFFICES ASSUME NEW c \in C, NEW l \in c,
                      \A m \in c \ {l} : Neg(m) \in True(a)
               PROVE  l \in True(a)
    BY DEF Closed
  <2>1. PICK m \in c : a[m[1]] = m[2]
    BY DEF Holds
  <2>2. m \in Lits /\ m \in True(a)
    BY <2>1 DEF Clauses, True
  <2>3. m = l
    BY <2>2, TrueNeg
  <2> QED BY <2>2, <2>3
<1> QED BY <1>1, <1>2 DEF Closure

(* What a solver that knows only what holds for the assignments L may be.  *)
HoldsIn(L, c) == \A a \in L : Holds(c, a)

SoundFor(L, s) ==
  /\ s \in Solvers
  /\ \A c \in s.clauses : HoldsIn(L, c)
  /\ \A l \in s.units : HoldsIn(L, {l})
  /\ ~ s.ok => L = {}

LEMMA UnitHolds ==
  ASSUME NEW l \in Lits, NEW a \in Assignments
  PROVE  Holds({l}, a) <=> l \in True(a)
BY DEF Holds, True

LEMMA AddClauseSoundFor ==
  ASSUME NEW L \in SUBSET Assignments,
         NEW s, SoundFor(L, s),
         NEW c \in Clauses, HoldsIn(L, c)
  PROVE  SoundFor(L, AddClause(s, c))
<1> DEFINE rest == Open(s, c)
           derived == Closure(s.clauses, s.units \cup rest)
<1>1. /\ s = [clauses |-> s.clauses, units |-> s.units, ok |-> s.ok]
      /\ s.clauses \subseteq Clauses
      /\ s.units \subseteq Lits
      /\ s.ok \in BOOLEAN
  BY DEF SoundFor, Solvers
<1>2. rest \subseteq Lits /\ rest \in Clauses
  BY DEF Open, Clauses
<1>3. \A a \in L : s.units \subseteq True(a)
  BY <1>1, UnitHolds DEF SoundFor, HoldsIn
<1>4. \A a \in L : \E l \in rest : l \in True(a)
  <2> TAKE a \in L
  <2>1. PICK l \in c : a[l[1]] = l[2]
    BY DEF HoldsIn, Holds
  <2>2. l \in Lits /\ l \in True(a)
    BY <2>1 DEF Clauses, True
  <2>3. Neg(l) \notin s.units
    BY <1>3, <2>2, TrueNeg
  <2> QED BY <2>2, <2>3 DEF Open
<1>5. derived \subseteq Lits
  BY DEF Closure
<1>6. CASE ~ s.ok \/ c \cap s.units # {}
  BY <1>6 DEF AddClause
<1>7. CASE s.ok /\ c \cap s.units = {} /\ rest = {}
  <2>1. AddClause(s, c) = [s EXCEPT !.ok = FALSE]
    BY <1>7 DEF AddClause
  <2>2. L = {}
    BY <1>4, <1>7
  <2> QED BY <1>1, <2>1, <2>2 DEF SoundFor, Solvers
<1>8. CASE /\ s.ok /\ c \cap s.units = {} /\ rest # {}
           /\ Cardinality(rest) = 1
  <2>1. PICK x : rest = {x}
    <3>1. IsFiniteSet(rest)
      BY <1>2, FiniteLits, FS_Subset
    <3> QED BY <1>8, <3>1, FS_Singleton
  <2>2. \A a \in L : s.units \cup rest \subseteq True(a)
    BY <1>3, <1>4, <2>1
  <2>3. \A a \in L : derived \subseteq True(a)
    <3> SUFFICES ASSUME NEW a \in L PROVE derived \subseteq True(a)
      OBVIOUS
    <3>1. \A d \in s.clauses : Holds(d, a)
      BY DEF SoundFor, HoldsIn
    <3> QED BY <1>1, <1>2, <2>2, <3>1, ClosureSound
  <2>4. CASE Contradictory(derived)
    <3>1. AddClause(s, c) =
            [s EXCEPT !.units = @ \cup rest, !.ok = FALSE]
      BY <1>8, <2>4 DEF AddClause
    <3>2. L = {}
      <4> SUFFICES ASSUME NEW a \in L PROVE FALSE
        OBVIOUS
      <4>1. PICK l \in derived : Neg(l) \in derived
        BY <2>4 DEF Contradictory
      <4>2. l \in Lits /\ l \in True(a) /\ Neg(l) \in True(a)
        BY <1>5, <2>3, <4>1
      <4> QED BY <4>2, TrueNeg
    <3> QED BY <1>1, <1>2, <3>1, <3>2 DEF SoundFor, Solvers, HoldsIn
  <2>5. CASE ~ Contradictory(derived)
    <3>1. AddClause(s, c) = [s EXCEPT !.units = derived]
      BY <1>8, <2>5 DEF AddClause
    <3>2. \A l \in derived : HoldsIn(L, {l})
      BY <1>5, <2>3, UnitHolds DEF HoldsIn
    <3> QED BY <1>1, <1>5, <3>1, <3>2 DEF SoundFor, Solvers
  <2> QED BY <2>4, <2>5
<1>9. CASE /\ s.ok /\ c \cap s.units = {} /\ rest # {}
           /\ Cardinality(rest) # 1
  <2>1. AddClause(s, c) = [s EXCEPT !.clauses = @ \cup {rest}]
    BY <1>9 DEF AddClause
  <2>2. HoldsIn(L, rest)
    BY <1>4 DEF HoldsIn, Holds, True
  <2> QED BY <1>1, <1>2, <2>1, <2>2 DEF SoundFor, Solvers
<1> QED BY <1>1, <1>6, <1>7, <1>8, <1>9

(* What a solver that knows only entailed clauses may be. *)
SolverSound(s) ==
  /\ s \in Solvers
  /\ \A c \in s.clauses : Entailed(c)
  /\ \A l \in s.units : Entailed({l})
  /\ ~ s.ok => left = {}

LEMMA AddClauseSound ==
  ASSUME left \subseteq Assignments,
         NEW s, SolverSound(s),
         NEW c \in Clauses, Entailed(c)
  PROVE  SolverSound(AddClause(s, c))
<1>1. \A t : SolverSound(t) <=> SoundFor(left, t)
  BY DEF SolverSound, SoundFor, Entailed, HoldsIn
<1> QED BY <1>1, AddClauseSoundFor DEF Entailed, HoldsIn
-----------------------------------------------------------------------------
(* A prefix of the cells of a file or of a buffer. *)
LEMMA SubSeqType ==
  ASSUME NEW S, NEW s \in Seq(S), NEW m \in Nat, NEW n \in Nat,
         m >= 1, n <= Len(s)
  PROVE  SubSeq(s, m, n) \in Seq(S)
OBVIOUS

LEMMA NextBlockType ==
  ASSUME TypeOK, NEW p \in Procs
  PROVE  NextBlock(p) \in Seq(Publications)
<1>1. /\ Len(buf[p]) \in Nat /\ Len(file) \in Nat
      /\ block \in Nat \ {0}
      /\ file \in Seq(Publications)
  BY SizesAssumption DEF TypeOK
<1> QED BY <1>1, SubSeqType DEF NextBlock

(* A message that passes the tests has a header. *)
LEMMA HeaderRead ==
  ASSUME TypeOK, NEW p \in Procs,
         Len(buf[p]) >= 3
  PROVE  /\ buf[p][1] \in Publications
         /\ buf[p][2] \in Publications
         /\ RealSize(p) \in Nat
         /\ RealSize(p) >= 3
<1>1. /\ buf[p] \in Seq(Publications)
      /\ 1 \in 1 .. Len(buf[p]) /\ 2 \in 1 .. Len(buf[p])
  BY DEF TypeOK
<1>2. buf[p][1] \in Publications /\ buf[p][2] \in Publications
  BY <1>1
<1>3. /\ Cardinality(buf[p][1].single) \in Nat
      /\ Cardinality(buf[p][2].dble) \in Nat
  BY <1>2, SizeType
<1> QED BY <1>2, <1>3 DEF RealSize, SizeOf

LEMMA AddClauseType ==
  ASSUME NEW s \in Solvers, NEW c \in Clauses
  PROVE  AddClause(s, c) \in Solvers
<1>1. Open(s, c) \in Clauses /\ Open(s, c) \in SUBSET Lits
  BY DEF Open, Clauses
<1>2. Closure(s.clauses, s.units \cup Open(s, c)) \in SUBSET Lits
  BY DEF Closure
<1> QED BY <1>1, <1>2 DEF AddClause, Solvers

(* What excludes a solution are clauses, since it has one of the values    *)
(* of each minimized hole.                                                 *)
LEMMA ValueType ==
  ASSUME TypeOK, NEW a \in solutions, NEW h \in MinHoles
  PROVE  /\ Value(h, a) \in DOMAIN h
         /\ h \in Seq(Lits)
         /\ a[h[Value(h, a)][1]] = h[Value(h, a)][2]
         /\ \A j \in DOMAIN h : a[h[j][1]] = h[j][2] <=> j = Value(h, a)
<1>1. h \in Seq(Lits)
  BY MinHolesAssumption
<1>2. PICK i \in DOMAIN h :
        \A j \in DOMAIN h : a[h[j][1]] = h[j][2] <=> j = i
  BY MinHolesAssumption DEF TypeOK
<1>3. \A j \in DOMAIN h : Holds({h[j]}, a) <=> a[h[j][1]] = h[j][2]
  BY DEF Holds
<1>4. Value(h, a) \in DOMAIN h /\ Holds({h[Value(h, a)]}, a)
  BY <1>2, <1>3 DEF Value
<1> QED BY <1>1, <1>2, <1>3, <1>4

LEMMA ExcludingType ==
  ASSUME TypeOK, NEW a \in solutions
  PROVE  Excluding(a) \subseteq Clauses
<1>1. \A h \in MinHoles : \A i \in DOMAIN h : Neg(h[i]) \in Lits
  <2> SUFFICES ASSUME NEW h \in MinHoles, NEW i \in DOMAIN h
               PROVE  Neg(h[i]) \in Lits
    OBVIOUS
  <2>1. h[i] \in Lits
    BY MinHolesAssumption
  <2> QED BY <2>1 DEF Neg, Lits
<1>2. Greater(a) \subseteq Clauses
  <2> SUFFICES ASSUME NEW d \in Greater(a) PROVE d \in Clauses
    OBVIOUS
  <2>1. PICK h \in MinHoles : \E i \in DOMAIN h : d = {Neg(h[i])}
    BY DEF Greater
  <2> QED BY <1>1, <2>1 DEF Clauses
<1>3. Same(a) \in Clauses
  BY <1>1, ValueType DEF Same, Clauses
<1> QED BY <1>2, <1>3 DEF Excluding

(* A better solution satisfies all of them. *)
LEMMA ExcludingHolds ==
  ASSUME TypeOK, NEW a \in solutions, NEW b \in solutions, Better(b, a),
         NEW d \in Excluding(a)
  PROVE  Holds(d, b)
<1>1. \A h \in MinHoles : \A i \in DOMAIN h :
        i # Value(h, b) => b[Neg(h[i])[1]] = Neg(h[i])[2]
  <2> SUFFICES ASSUME NEW h \in MinHoles, NEW i \in DOMAIN h,
                      i # Value(h, b)
               PROVE  b[Neg(h[i])[1]] = Neg(h[i])[2]
    OBVIOUS
  <2>1. h[i] \in Lits /\ b \in Assignments
    BY MinHolesAssumption, SolutionsAssumption DEF TypeOK
  <2>2. b[h[i][1]] # h[i][2]
    BY ValueType
  <2>3. b[h[i][1]] \in BOOLEAN /\ h[i][2] \in BOOLEAN
    BY <2>1 DEF Lits, Assignments
  <2>4. b[h[i][1]] = ~ h[i][2]
    BY <2>2, <2>3
  <2> QED BY <2>4 DEF Neg
<1>2. \A h \in MinHoles : Value(h, a) \in Int /\ Value(h, b) \in Int
  <2> TAKE h \in MinHoles
  <2> QED BY ValueType
<1>3. CASE d \in Greater(a)
  <2>0. PICK h \in MinHoles :
          \E i \in DOMAIN h : i > Value(h, a) /\ d = {Neg(h[i])}
    BY <1>3 DEF Greater
  <2>1. PICK i \in DOMAIN h : i > Value(h, a) /\ d = {Neg(h[i])}
    BY <2>0
  <2>2. h \in Seq(Lits) /\ i \in Int
    BY <2>1, ValueType
  <2>3. i # Value(h, b)
    BY <1>2, <2>1, <2>2 DEF Better
  <2> QED BY <1>1, <2>1, <2>3 DEF Holds
<1>4. CASE d = Same(a)
  <2>1. PICK h \in MinHoles : Value(h, b) < Value(h, a)
    BY DEF Better
  <2>2. Value(h, a) \in DOMAIN h /\ Value(h, a) # Value(h, b)
    BY <1>2, <2>1, ValueType
  <2>3. Neg(h[Value(h, a)]) \in d
    BY <1>4 DEF Same
  <2> QED BY <1>1, <2>2, <2>3 DEF Holds
<1> QED BY <1>3, <1>4 DEF Excluding

(* The reader holds a header while it is past its first fread. *)
Header ==
  \A p \in Procs : pc[p] = "rest" => Len(buf[p]) >= 3

LEMMA InitTypeOK == Init => TypeOK /\ Header
<1> SUFFICES ASSUME Init PROVE TypeOK /\ Header
  OBVIOUS
<1>1. Unborn \in Solvers
  BY ClausesAssumption DEF Unborn, Solvers
<1>2. <<>> \in Seq(Publications)
  OBVIOUS
<1> QED BY <1>1, <1>2 DEF Init, TypeOK, Header, Places

LEMMA NextTypeOK == TypeOK /\ Header /\ [Next]_vars => TypeOK' /\ Header'
<1> SUFFICES ASSUME TypeOK, Header, [Next]_vars
             PROVE  TypeOK' /\ Header'
  OBVIOUS
<1> USE DEF fixed, success, locals, sets, input, output
<1>1. ASSUME NEW p \in Procs, Start(p) PROVE TypeOK' /\ Header'
  BY <1>1 DEF Start, TypeOK, Header, Places
<1>2. ASSUME NEW p \in Procs, Attempt(p) PROVE TypeOK' /\ Header'
  <2>1. CASE AttemptFails(p)
    <3>1. PICK c \in Lessons :
            solver' = [solver EXCEPT ![p] = AddClause(@, c)]
      BY <2>1 DEF AttemptFails
    <3>2. AddClause(solver[p], c) \in Solvers
      BY <3>1, AddClauseType, ClausesAssumption DEF TypeOK
    <3>3. solver' \in [Procs -> Solvers]
      BY <3>1, <3>2 DEF TypeOK
    <3> QED BY <2>1, <3>3
            DEF AttemptFails, WithoutSolution, TypeOK, Header, Places
  <2>2. CASE AttemptSucceeds(p)
    <3>1. PICK c \in Lessons, a \in solutions :
            /\ found' = found \cup {a}
            /\ \/ /\ left' = {b \in left : Holds(c, b) /\ Better(b, a)}
                  /\ solver' = [solver EXCEPT ![p] = AddClause(@, c)]
                  /\ todo' = [todo EXCEPT ![p] = Excluding(a)]
                  /\ pc' = [pc EXCEPT ![p] = "exclude"]
               \/ /\ pc' = [pc EXCEPT ![p] = "answered"]
                  /\ UNCHANGED <<left, solver, todo>>
      BY <2>2 DEF AttemptSucceeds
    <3>2. found' \subseteq solutions /\ left' \subseteq solutions
      BY <3>1 DEF TypeOK
    <3>3. AddClause(solver[p], c) \in Solvers
      BY AddClauseType, ClausesAssumption DEF TypeOK
    <3>4. solver' \in [Procs -> Solvers]
      BY <3>1, <3>3 DEF TypeOK
    <3>5. todo' \in [Procs -> SUBSET Clauses]
      BY <3>1, ExcludingType DEF TypeOK
    <3>6. /\ pc' \in [Procs -> Places]
          /\ \A q \in Procs : pc'[q] = "rest" => pc[q] = "rest"
      BY <3>1 DEF TypeOK, Places
    <3>7. good' \in [Procs -> BOOLEAN]
      BY <2>2 DEF AttemptSucceeds, TypeOK
    <3>8. UNCHANGED <<fixed, file, sets, input, output>>
      BY <2>2 DEF AttemptSucceeds
    <3>9. TypeOK'
      BY <3>2, <3>4, <3>5, <3>6, <3>7, <3>8 DEF TypeOK
    <3>10. Header'
      BY <3>6, <3>8 DEF Header
    <3> QED BY <3>9, <3>10
  <2>3. CASE Excluded(p)
    BY <2>3 DEF Excluded, TypeOK, Header, Places
  <2>4. CASE AttemptCutShort(p)
    BY <2>4 DEF AttemptCutShort, WithoutSolution, TypeOK, Header, Places
  <2> QED BY <1>2, <2>1, <2>2, <2>3, <2>4 DEF Attempt
<1>3. ASSUME NEW p \in Procs, Exchange(p) PROVE TypeOK' /\ Header'
  <2> DEFINE P == Shareable(solver[p])
  <2>1. P \in Publications
    BY DEF TypeOK, Shareable, Publications, Pairs, Solvers
  <2>2. BufSize(P) \in Nat
    BY <2>1, SizeType, SizesAssumption DEF BufSize
  <2>3. P.single \in SUBSET Lits /\ P.dble \in SUBSET Pairs
    BY <2>1 DEF Publications
  <2>4. /\ single' \in [Procs -> SUBSET Lits]
        /\ dble' \in [Procs -> SUBSET Pairs]
        /\ want' \in [Procs -> Nat]
        /\ push' \in [Procs -> BOOLEAN]
    BY <1>3, <2>2, <2>3 DEF Exchange, TypeOK
  <2> QED BY <1>3, <2>4 DEF Exchange, TypeOK, Header, Places
<1>4. ASSUME NEW p \in Procs, Read(p) PROVE TypeOK' /\ Header'
  <2>1. CASE ReadBlock(p)
    <3>1. buf[p] \o NextBlock(p) \in Seq(Publications)
      BY NextBlockType DEF TypeOK
    <3>2. Len(buf[p] \o NextBlock(p)) >= Len(buf[p])
      BY NextBlockType DEF TypeOK
    <3>3. buf' = [buf EXCEPT ![p] = buf[p] \o NextBlock(p)]
      BY <2>1 DEF ReadBlock
    <3>4. TypeOK'
      BY <2>1, <3>1, <3>3 DEF ReadBlock, TypeOK
    <3>5. Header'
      <4> SUFFICES ASSUME NEW q \in Procs, pc'[q] = "rest"
                   PROVE  Len(buf'[q]) >= 3
        BY DEF Header
      <4>1. Len(buf[q]) >= 3
        BY <2>1 DEF ReadBlock, Header
      <4>2. CASE q = p
        <5>1. buf'[q] = buf[p] \o NextBlock(p)
          BY <3>3, <4>2 DEF TypeOK
        <5>2. Len(buf[p]) \in Nat /\ Len(buf[p] \o NextBlock(p)) \in Nat
          BY NextBlockType DEF TypeOK
        <5> QED BY <3>2, <4>1, <4>2, <5>1, <5>2
      <4>3. CASE q # p
        BY <3>3, <4>1, <4>3 DEF TypeOK
      <4> QED BY <4>2, <4>3
    <3> QED BY <3>4, <3>5
  <2>2. CASE ReadMore(p)
    <3>1. Len(buf[p]) >= 3
      BY <2>2 DEF ReadMore, NeedsRest, RSize, TypeOK
    <3>2. RealSize(p) \in Nat
      BY <3>1, HeaderRead
    <3> QED BY <2>2, <3>1, <3>2 DEF ReadMore, TypeOK, Header, Places
  <2>3. CASE Reject(p) \/ ChecksumFails(p)
    <3>1. /\ want' = [want EXCEPT ![p] = 0]
          /\ buf' = [buf EXCEPT ![p] = <<>>]
          /\ \/ pc' = [pc EXCEPT ![p] = "open"]
             \/ pc' = [pc EXCEPT ![p] = "attempt"]
          /\ UNCHANGED <<fixed, success, file, solver, sets, todo, output>>
      BY <2>3 DEF Reject, ChecksumFails, Forget, AfterRead
    <3>2. pc' \in [Procs -> Places]
      BY <3>1 DEF TypeOK, Places
    <3>3. want' \in [Procs -> Nat] /\ buf' \in [Procs -> Seq(Publications)]
      BY <3>1 DEF TypeOK
    <3>4. \A q \in Procs : pc'[q] = "rest" => pc[q] = "rest" /\ q # p
      BY <3>1 DEF TypeOK
    <3>5. TypeOK'
      BY <3>1, <3>2, <3>3 DEF TypeOK
    <3>6. \A q \in Procs : q # p => buf'[q] = buf[q]
      BY <3>1 DEF TypeOK
    <3>7. Header'
      BY <3>4, <3>6 DEF Header
    <3> QED BY <3>5, <3>7
  <2>4. CASE Accept(p)
    <3>1. Len(buf[p]) >= 3
      BY <2>4 DEF Accept, Arrived, RSize, TypeOK, Header
    <3>2. buf[p][1] \in Publications
      BY <3>1, HeaderRead
    <3>3. /\ buf[p][1].single \subseteq Lits
          /\ buf[p][1].dble \subseteq Pairs
      BY <3>2 DEF Publications
    <3>4. News(p, buf[p][1]) \subseteq Clauses
      BY <3>3 DEF News, Clauses, Pairs
    <3>5. /\ single' \in [Procs -> SUBSET Lits]
          /\ dble' \in [Procs -> SUBSET Pairs]
          /\ todo' \in [Procs -> SUBSET Clauses]
      BY <2>4, <3>3, <3>4 DEF Accept, Take, TypeOK
    <3>6. pc' = [pc EXCEPT ![p] = "add"]
      BY <2>4 DEF Accept, Take
    <3> QED BY <2>4, <3>5, <3>6 DEF Accept, Forget, TypeOK, Header, Places
  <2>5. CASE AcceptMixed(p)
    BY <2>5 DEF AcceptMixed, TypeOK, Header, Places
  <2>6. CASE Add(p)
    <3>1. PICK c \in todo[p] :
            /\ solver' = [solver EXCEPT ![p] = AddClause(@, c)]
            /\ todo' = [todo EXCEPT ![p] = @ \ {c}]
      BY <2>6 DEF Add
    <3>2. AddClause(solver[p], c) \in Solvers
      BY <3>1, AddClauseType DEF TypeOK
    <3>3. /\ solver' \in [Procs -> Solvers]
          /\ todo' \in [Procs -> SUBSET Clauses]
      BY <3>1, <3>2 DEF TypeOK
    <3>4. pc' = pc \/ pc' = [pc EXCEPT ![p] = "short"]
      BY <2>6 DEF Add, TypeOK
    <3> QED BY <2>6, <3>3, <3>4 DEF Add, TypeOK, Header, Places
  <2>7. CASE Added(p)
    BY <2>7 DEF Added, AfterRead, TypeOK, Header, Places
  <2>8. CASE AddShort(p)
    BY <2>8 DEF AddShort, TypeOK, Header, Places
  <2> QED BY <1>4, <2>1, <2>2, <2>3, <2>4, <2>5, <2>6, <2>7, <2>8 DEF Read
<1>5. ASSUME NEW p \in Procs, Write(p) PROVE TypeOK' /\ Header'
  <2>1. CASE OpenWrite(p)
    BY <2>1 DEF OpenWrite, TypeOK, Header, Places
  <2>2. CASE WriteBlock(p)
    <3>1. Publication(p) \in Publications /\ Gap \in Publications
      BY DEF Publication, Publications, Gap, TypeOK
    <3>2. LastOf(p) \in Nat
      BY <3>1, SizeType, SizesAssumption DEF LastOf, TypeOK
    <3>3. file' \in Seq(Publications)
      <4> DEFINE n == IF LastOf(p) < Len(file) THEN Len(file) ELSE LastOf(p)
      <4>1. n \in Nat
        BY <3>2 DEF TypeOK
      <4>2. \A i \in 1 .. n :
              i <= Len(file) => file[i] \in Publications
        BY <4>1 DEF TypeOK
      <4>3. file' \in [1 .. n -> Publications]
        BY <2>2, <3>1, <4>2 DEF WriteBlock
      <4> QED BY <4>1, <4>3
    <3>4. /\ pc' = pc \/ pc' = [pc EXCEPT ![p] = "attempt"]
          /\ push' = push \/ push' = [push EXCEPT ![p] = FALSE]
          /\ \/ written' = [written EXCEPT ![p] = LastOf(p)]
             \/ written' = [written EXCEPT ![p] = 0]
          /\ UNCHANGED <<fixed, success, solver, sets, input, todo>>
      BY <2>2 DEF WriteBlock
    <3>5. /\ pc' \in [Procs -> Places]
          /\ \A q \in Procs : pc'[q] = "rest" => pc[q] = "rest"
      BY <3>4 DEF TypeOK, Places
    <3>6. push' \in [Procs -> BOOLEAN] /\ written' \in [Procs -> Nat]
      <4>1. push \in [Procs -> BOOLEAN] /\ written \in [Procs -> Nat]
        BY DEF TypeOK
      <4>2. push' \in [Procs -> BOOLEAN]
        BY <3>4, <4>1
      <4>3. CASE written' = [written EXCEPT ![p] = LastOf(p)]
        BY <3>2, <4>1, <4>2, <4>3
      <4>4. CASE written' = [written EXCEPT ![p] = 0]
        BY <4>1, <4>2, <4>4
      <4> QED BY <3>4, <4>3, <4>4
    <3>7. TypeOK'
      BY <3>3, <3>4, <3>5, <3>6 DEF TypeOK
    <3>8. Header'
      BY <3>4, <3>5 DEF Header
    <3> QED BY <3>7, <3>8
  <2> QED BY <1>5, <2>1, <2>2 DEF Write
<1>6. ASSUME NEW p \in Procs, Kill(p) PROVE TypeOK' /\ Header'
  <2>1. Unborn \in Solvers /\ <<>> \in Seq(Publications)
    BY ClausesAssumption DEF Unborn, Solvers
  <2> QED BY <1>6, <2>1 DEF Kill, Forget, TypeOK, Header, Places
<1>7. CASE UNCHANGED vars
  BY <1>7 DEF vars, TypeOK, Header
<1> QED BY <1>1, <1>2, <1>3, <1>4, <1>5, <1>6, <1>7 DEF Next

(* The exchanger's sets, the buffers and the file keep their types in      *)
(* every interleaving of readers and writers.                              *)
THEOREM TypeCorrect == Spec => []TypeOK
<1>1. Init => TypeOK /\ Header
  BY InitTypeOK
<1>2. TypeOK /\ Header /\ [Next]_vars => TypeOK' /\ Header'
  BY NextTypeOK
<1> QED BY <1>1, <1>2, PTL DEF Spec
-----------------------------------------------------------------------------
MsgSound(P) == /\ \A l \in P.single : Entailed({l})
               /\ \A c \in P.dble : Entailed(c)

(* Everything that is written down anywhere is entailed: in a solver, in   *)
(* an exchanger, in a reader's buffer or in the file.                      *)
Sound ==
  /\ \A p \in Procs : SolverSound(solver[p])
  /\ \A p \in Procs : \A c \in todo[p] : Entailed(c)
  /\ \A p \in Procs : MsgSound(Publication(p))
  /\ \A i \in 1 .. Len(file) : MsgSound(file[i])
  /\ \A p \in Procs : \A i \in 1 .. Len(buf[p]) : MsgSound(buf[p][i])
  /\ \A p \in Procs : pc[p] = "unsat" => left = {}
  /\ found = {} => left = solutions

LEMMA LeftType == TypeOK => left \subseteq Assignments
BY SolutionsAssumption DEF TypeOK

LEMMA UnbornSound == TypeOK => SolverSound(Unborn)
<1> SUFFICES ASSUME TypeOK PROVE SolverSound(Unborn)
  OBVIOUS
<1>1. \A c \in Initial : Entailed(c)
  BY SolutionsAssumption DEF TypeOK, Entailed, Holds
<1> QED BY <1>1, ClausesAssumption DEF SolverSound, Unborn, Solvers

LEMMA GapSound == MsgSound(Gap)
BY DEF MsgSound, Gap

(* While no solution was found, all of them are left. *)
LEMMA NothingFound ==
  ASSUME TypeOK, Sound, [Next]_vars
  PROVE  found' = {} => left' = solutions'
<1> USE DEF fixed, success, locals, sets, input, output
<1>1. CASE UNCHANGED vars
  BY <1>1 DEF vars, Sound
<1>2. ASSUME NEW p \in Procs, AttemptSucceeds(p) PROVE found' # {}
  BY <1>2 DEF AttemptSucceeds
<1>3. ASSUME NEW p \in Procs,
             \/ Start(p) \/ AttemptFails(p) \/ Excluded(p)
             \/ AttemptCutShort(p) \/ Exchange(p) \/ Read(p) \/ Write(p)
             \/ Kill(p)
      PROVE  UNCHANGED <<found, left, solutions>>
  BY <1>3
  DEF Start, AttemptFails, Excluded, AttemptCutShort, Exchange, Read,
      ReadBlock, ReadMore, Reject, Accept, ChecksumFails, AcceptMixed, Add,
      AddShort, Added, Write, OpenWrite, WriteBlock, Kill
<1> QED BY <1>1, <1>2, <1>3 DEF Next, Attempt, Sound

(* Fewer solutions are left after a step, so what is entailed stays so.    *)
LEMMA LeftShrinks ==
  ASSUME TypeOK, [Next]_vars
  PROVE  left' \subseteq left
<1> USE DEF fixed, success, locals, sets, input, output
<1>1. CASE UNCHANGED vars
  BY <1>1 DEF vars
<1>2. ASSUME NEW p \in Procs, AttemptSucceeds(p) PROVE left' \subseteq left
  BY <1>2 DEF AttemptSucceeds
<1>3. ASSUME NEW p \in Procs,
             \/ Start(p) \/ AttemptFails(p) \/ Excluded(p)
             \/ AttemptCutShort(p) \/ Exchange(p) \/ Read(p) \/ Write(p)
             \/ Kill(p)
      PROVE  left' \subseteq left
  BY <1>3
  DEF Start, AttemptFails, Excluded, AttemptCutShort, Exchange, Read,
      ReadBlock, ReadMore, Reject, Accept, ChecksumFails, AcceptMixed, Add,
      AddShort, Added, Write, OpenWrite, WriteBlock, Kill
<1> QED BY <1>1, <1>2, <1>3 DEF Next, Attempt

LEMMA StaysEntailed ==
  ASSUME TypeOK, [Next]_vars
  PROVE  /\ \A c : Entailed(c) => Entailed(c)'
         /\ \A s : SolverSound(s) => SolverSound(s)'
         /\ \A P : MsgSound(P) => MsgSound(P)'
         /\ left = {} => left' = {}
<1>1. \A c : Entailed(c) => Entailed(c)'
  BY LeftShrinks DEF Entailed
<1>2. \A s : SolverSound(s) => SolverSound(s)'
  BY LeftShrinks, <1>1 DEF SolverSound
<1>3. \A P : MsgSound(P) => MsgSound(P)'
  BY <1>1 DEF MsgSound
<1> QED BY <1>1, <1>2, <1>3, LeftShrinks

LEMMA InitSound == Init => Sound
<1> SUFFICES ASSUME Init PROVE Sound
  OBVIOUS
<1>1. \A p \in Procs : SolverSound(solver[p])
  BY UnbornSound, InitTypeOK DEF Init
<1>2. \A p \in Procs : MsgSound(Publication(p))
  BY DEF Init, MsgSound, Publication
<1> QED BY <1>1, <1>2 DEF Init, Sound

LEMMA NextSound ==
  ASSUME TypeOK, Header, Sound, [Next]_vars
  PROVE  Sound'
<1> USE DEF fixed, success, locals, sets, input, output
<1>0. found' = {} => left' = solutions'
  BY NothingFound
<1>1. ASSUME solver' = solver PROVE \A p \in Procs : SolverSound(solver[p])'
  BY <1>1, StaysEntailed DEF Sound
<1>2. ASSUME todo' = todo
      PROVE  \A p \in Procs : \A c \in todo'[p] : Entailed(c)'
  BY <1>2, StaysEntailed DEF Sound
<1>3. ASSUME single' = single, dble' = dble
      PROVE  \A p \in Procs : MsgSound(Publication(p))'
  <2>1. \A p \in Procs : MsgSound(Publication(p))
    BY DEF Sound
  <2> QED BY <1>3, <2>1, StaysEntailed DEF Publication, MsgSound
<1>4. ASSUME file' = file \/ file' = <<>>
      PROVE  \A i \in 1 .. Len(file') : MsgSound(file[i])'
  BY <1>4, StaysEntailed DEF Sound
<1>5. ASSUME NEW q \in Procs,
             buf' = buf \/ buf' = [buf EXCEPT ![q] = <<>>]
      PROVE  \A p \in Procs : \A i \in 1 .. Len(buf'[p]) : MsgSound(buf[p][i])'
  <2> SUFFICES ASSUME NEW p \in Procs, NEW i \in 1 .. Len(buf'[p])
               PROVE  MsgSound(buf[p][i])'
    OBVIOUS
  <2>1. buf'[p] = buf[p] \/ buf'[p] = <<>>
    BY <1>5 DEF TypeOK
  <2>2. buf'[p] = buf[p]
    BY <2>1
  <2> QED BY <2>2, StaysEntailed, <1>0 DEF Sound
<1>6. ASSUME \A p \in Procs : pc'[p] = "unsat" => pc[p] = "unsat"
      PROVE  \A p \in Procs : pc'[p] = "unsat" => left' = {}
  BY <1>6, StaysEntailed DEF Sound
<1>7. ASSUME NEW p \in Procs, Start(p) PROVE Sound'
  <2>1. \A q \in Procs : pc'[q] = "unsat" => pc[q] = "unsat"
    BY <1>7 DEF Start, TypeOK
  <2>2. /\ solver' = solver /\ todo' = todo /\ single' = single
        /\ dble' = dble /\ file' = <<>> /\ buf' = buf
    BY <1>7 DEF Start
  <2> QED BY <2>1, <2>2, <1>1, <1>2, <1>3, <1>4, <1>5, <1>6, <1>0 DEF Sound
<1>8. ASSUME NEW p \in Procs, AttemptFails(p) PROVE Sound'
  <2>1. PICK c \in Lessons :
          /\ \A a \in solutions : Allows(solver[p], a) => Holds(c, a)
          /\ solver' = [solver EXCEPT ![p] = AddClause(@, c)]
    BY <1>8 DEF AttemptFails
  <2>0. Entailed(c)
    <3>1. \A a \in left : a \in solutions /\ Allows(solver[p], a)
      BY DEF Sound, SolverSound, Entailed, Allows, TypeOK
    <3> QED BY <2>1, <3>1 DEF Entailed
  <2>2. SolverSound(AddClause(solver[p], c))
    BY <2>0, AddClauseSound, LeftType, ClausesAssumption DEF Sound
  <2>3. \A q \in Procs : SolverSound(solver'[q])
    BY <2>1, <2>2 DEF Sound, TypeOK
  <2>4. \A q \in Procs : SolverSound(solver[q])'
    BY <2>3, StaysEntailed
  <2>5. \A q \in Procs : pc'[q] = "unsat" => left' = {}
    <3> SUFFICES ASSUME NEW q \in Procs, pc'[q] = "unsat" PROVE left' = {}
      OBVIOUS
    <3>1. CASE q = p /\ ~ solver'[p].ok
      BY <2>4, <3>1 DEF SolverSound
    <3>2. CASE q # p \/ solver'[p].ok
      <4>1. pc[q] = "unsat"
        BY <1>8, <3>2 DEF AttemptFails, TypeOK
      <4> QED BY <4>1, StaysEntailed DEF Sound
    <3> QED BY <3>1, <3>2
  <2>6. /\ todo' = todo /\ single' = single
        /\ dble' = dble /\ file' = file /\ buf' = buf
    BY <1>8 DEF AttemptFails
  <2> QED BY <2>4, <2>5, <2>6, <1>2, <1>3, <1>4, <1>5, <1>0 DEF Sound
<1>9. ASSUME NEW p \in Procs, AttemptSucceeds(p) PROVE Sound'
  <2>1. \A q \in Procs : pc'[q] = "unsat" => pc[q] = "unsat"
    BY <1>9 DEF AttemptSucceeds, TypeOK
  <2>2. /\ single' = single /\ dble' = dble /\ file' = file /\ buf' = buf
    BY <1>9 DEF AttemptSucceeds
  <2>3. CASE solver' = solver /\ todo' = todo
    BY <2>1, <2>2, <2>3, <1>0, <1>1, <1>2, <1>3, <1>4, <1>5, <1>6 DEF Sound
  <2>4. CASE ~ (solver' = solver /\ todo' = todo)
    <3>1. PICK c \in Lessons, a \in solutions :
            /\ left' = {b \in left : Holds(c, b) /\ Better(b, a)}
            /\ solver' = [solver EXCEPT ![p] = AddClause(@, c)]
            /\ todo' = [todo EXCEPT ![p] = Excluding(a)]
      BY <1>9, <2>4 DEF AttemptSucceeds
    <3>2. Entailed(c)'
      BY <3>1 DEF Entailed
    <3>3. left' \subseteq Assignments /\ c \in Clauses
      BY LeftShrinks, LeftType, ClausesAssumption
    <3>4. SoundFor(left', AddClause(solver[p], c))
      <4>1. SoundFor(left', solver[p])
        BY LeftShrinks DEF Sound, SolverSound, SoundFor, Entailed, HoldsIn
      <4>2. HoldsIn(left', c)
        BY <3>2 DEF Entailed, HoldsIn
      <4> QED BY <3>3, <4>1, <4>2, AddClauseSoundFor
    <3>5. \A q \in Procs : SolverSound(solver[q])'
      <4> SUFFICES ASSUME NEW q \in Procs PROVE SolverSound(solver[q])'
        OBVIOUS
      <4>1. CASE q = p
        <5>1. solver'[q] = AddClause(solver[p], c)
          BY <3>1, <4>1 DEF TypeOK
        <5> QED BY <3>4, <5>1 DEF SolverSound, SoundFor, Entailed, HoldsIn
      <4>2. CASE q # p
        <5>1. solver'[q] = solver[q]
          BY <3>1, <4>2 DEF TypeOK
        <5>2. SolverSound(solver[q])
          BY DEF Sound
        <5>3. \A d : Entailed(d) => Entailed(d)'
          BY StaysEntailed
        <5> QED BY <5>1, <5>2, <5>3, LeftShrinks DEF SolverSound
      <4> QED BY <4>1, <4>2
    <3>6. \A q \in Procs : \A d \in todo'[q] : Entailed(d)'
      <4> SUFFICES ASSUME NEW q \in Procs, NEW d \in todo'[q]
                   PROVE  Entailed(d)'
        OBVIOUS
      <4>1. CASE q = p
        <5>1. d \in Excluding(a)
          BY <3>1, <4>1 DEF TypeOK
        <5>2. \A b \in left' : b \in solutions /\ Better(b, a)
          BY <3>1 DEF TypeOK
        <5> QED BY <5>1, <5>2, ExcludingHolds DEF Entailed
      <4>2. CASE q # p
        BY <3>1, <4>2, StaysEntailed DEF TypeOK, Sound
      <4> QED BY <4>1, <4>2
    <3> QED BY <2>1, <2>2, <3>5, <3>6, <1>0, <1>3, <1>4, <1>5, <1>6
            DEF Sound
  <2> QED BY <2>3, <2>4
<1>18. ASSUME NEW p \in Procs, AttemptCutShort(p) PROVE Sound'
  <2>1. /\ pc' = [pc EXCEPT ![p] = "answered"]
           \/ pc' = [pc EXCEPT ![p] = "unsat"]
        /\ ~ solver[p].ok
        /\ solver' = solver /\ todo' = todo /\ single' = single
        /\ dble' = dble /\ file' = file /\ buf' = buf
    BY <1>18 DEF AttemptCutShort, WithoutSolution
  <2>2. left' = {}
    BY <2>1, StaysEntailed DEF Sound, SolverSound
  <2> QED BY <2>1, <2>2, <1>0, <1>1, <1>2, <1>3, <1>4, <1>5 DEF Sound
<1>10. ASSUME NEW p \in Procs,
              Excluded(p) \/ ReadMore(p) \/ Reject(p)
              \/ ChecksumFails(p) \/ AcceptMixed(p) \/ AddShort(p)
              \/ Added(p) \/ OpenWrite(p)
       PROVE  Sound'
  <2>1. \A q \in Procs : pc'[q] = "unsat" => pc[q] = "unsat"
    BY <1>10 DEF Excluded, ReadMore, Reject, ChecksumFails,
                 AcceptMixed, AddShort, Added, OpenWrite, Shortens, AfterRead,
                 TypeOK
  <2>2. /\ solver' = solver /\ todo' = todo /\ single' = single
        /\ dble' = dble /\ (file' = file \/ file' = <<>>)
        /\ (buf' = buf \/ buf' = [buf EXCEPT ![p] = <<>>])
    BY <1>10 DEF Excluded, ReadMore, Reject, ChecksumFails,
                 AcceptMixed, AddShort, Added, OpenWrite, Forget
  <2> QED BY <2>1, <2>2, <1>1, <1>2, <1>3, <1>4, <1>5, <1>6, <1>0 DEF Sound
<1>11. ASSUME NEW p \in Procs, Exchange(p) PROVE Sound'
  <2>1. \A q \in Procs : pc'[q] = "unsat" => pc[q] = "unsat"
    BY <1>11 DEF Exchange, TypeOK
  <2>2. /\ solver' = solver /\ todo' = todo /\ file' = file /\ buf' = buf
        /\ single' = [single EXCEPT ![p] = Shareable(solver[p]).single]
        /\ dble' = [dble EXCEPT ![p] = Shareable(solver[p]).dble]
    BY <1>11 DEF Exchange
  <2>3. MsgSound(Shareable(solver[p]))
    BY DEF Sound, SolverSound, Shareable, MsgSound
  <2>4. \A q \in Procs : MsgSound(Publication(q))'
    <3> SUFFICES ASSUME NEW q \in Procs PROVE MsgSound(Publication(q))'
      OBVIOUS
    <3>1. MsgSound([single |-> single'[q], dble |-> dble'[q]])
      <4>1. CASE q = p
        BY <2>2, <2>3, <4>1 DEF TypeOK, MsgSound
      <4>2. CASE q # p
        <5>1. MsgSound(Publication(q))
          BY DEF Sound
        <5> QED BY <2>2, <4>2, <5>1 DEF TypeOK, MsgSound, Publication
      <4> QED BY <4>1, <4>2
    <3> QED BY <3>1, StaysEntailed DEF Publication, MsgSound
  <2> QED BY <2>1, <2>2, <2>4, <1>1, <1>2, <1>4, <1>5, <1>6, <1>0 DEF Sound
<1>12. ASSUME NEW p \in Procs, ReadBlock(p) PROVE Sound'
  <2>1. /\ solver' = solver /\ todo' = todo /\ single' = single
        /\ dble' = dble /\ file' = file /\ pc' = pc
        /\ buf' = [buf EXCEPT ![p] = buf[p] \o NextBlock(p)]
    BY <1>12 DEF ReadBlock
  <2>2. ASSUME NEW q \in Procs, NEW i \in 1 .. Len(buf'[q])
        PROVE  MsgSound(buf'[q][i])
    <3>1. CASE q # p
      BY <2>1, <2>2, <3>1 DEF Sound, TypeOK
    <3>2. CASE q = p
      <4> DEFINE m == Len(buf[p]) + 1
                 e == Len(buf[p]) + block
                 n == IF e < Len(file) THEN e ELSE Len(file)
      <4>1. /\ buf'[q] = buf[p] \o NextBlock(p)
            /\ buf[p] \in Seq(Publications)
            /\ NextBlock(p) \in Seq(Publications)
            /\ file \in Seq(Publications)
            /\ block \in Nat
        BY <2>1, <3>2, NextBlockType, SizesAssumption DEF TypeOK
      <4>2. CASE i \in 1 .. Len(buf[p])
        BY <4>1, <4>2 DEF Sound
      <4>3. CASE i \notin 1 .. Len(buf[p])
        <5>1. NextBlock(p) = SubSeq(file, m, n)
          BY DEF NextBlock
        <5>2. m \in Nat /\ n \in Nat /\ m >= 1 /\ n <= Len(file)
          BY <4>1
        <5>3. /\ i \in Nat /\ i > Len(buf[p])
              /\ i - Len(buf[p]) \in 1 .. Len(NextBlock(p))
              /\ buf'[q][i] = NextBlock(p)[i - Len(buf[p])]
          BY <2>2, <4>1, <4>3
        <5>4. \E j \in 1 .. Len(file) : buf'[q][i] = file[j]
          <6>1. \A k \in 1 .. Len(SubSeq(file, m, n)) :
                  /\ m + k - 1 \in 1 .. Len(file)
                  /\ SubSeq(file, m, n)[k] = file[m + k - 1]
            BY <4>1, <5>2
          <6>2. PICK k \in 1 .. Len(NextBlock(p)) :
                  buf'[q][i] = NextBlock(p)[k]
            BY <5>3
          <6>3. k \in 1 .. Len(SubSeq(file, m, n))
                /\ buf'[q][i] = SubSeq(file, m, n)[k]
            BY <5>1, <6>2, Zenon
          <6> HIDE DEF m, n
          <6> QED BY <6>1, <6>3
        <5> QED BY <5>4 DEF Sound
      <4> QED BY <4>2, <4>3
    <3> QED BY <3>1, <3>2
  <2>3. \A q \in Procs : \A i \in 1 .. Len(buf'[q]) : MsgSound(buf[q][i])'
    BY <2>2, StaysEntailed
  <2> QED BY <2>1, <2>3, <1>1, <1>2, <1>3, <1>4, <1>6, <1>0 DEF Sound
<1>13. ASSUME NEW p \in Procs, Accept(p) PROVE Sound'
  <2> DEFINE P == buf[p][1]
  <2>1. Len(buf[p]) >= 3
    BY <1>13 DEF Accept, Arrived, RSize, TypeOK, Header
  <2>2. MsgSound(P)
    BY <2>1 DEF Sound, TypeOK
  <2>3. \A c \in News(p, P) : Entailed(c)
    BY <2>2 DEF News, MsgSound
  <2>4. /\ solver' = solver /\ file' = file
        /\ buf' = [buf EXCEPT ![p] = <<>>]
        /\ single' = [single EXCEPT ![p] = @ \cup P.single]
        /\ dble' = [dble EXCEPT ![p] = @ \cup P.dble]
        /\ todo' = [todo EXCEPT ![p] = News(p, P)]
        /\ pc' = [pc EXCEPT ![p] = "add"]
    BY <1>13 DEF Accept, Take, Forget
  <2>5. \A q \in Procs : pc'[q] = "unsat" => pc[q] = "unsat"
    BY <2>4 DEF TypeOK
  <2>6. \A q \in Procs : \A c \in todo'[q] : Entailed(c)'
    <3>1. \A q \in Procs : \A c \in todo'[q] : Entailed(c)
      BY <2>3, <2>4 DEF TypeOK, Sound
    <3> QED BY <3>1, StaysEntailed
  <2>7. \A q \in Procs : MsgSound(Publication(q))'
    <3> SUFFICES ASSUME NEW q \in Procs PROVE MsgSound(Publication(q))'
      OBVIOUS
    <3>1. MsgSound([single |-> single'[q], dble |-> dble'[q]])
      <4>1. MsgSound(Publication(q))
        BY DEF Sound
      <4>2. CASE q = p
        BY <2>2, <2>4, <4>1, <4>2 DEF TypeOK, MsgSound, Publication
      <4>3. CASE q # p
        BY <2>4, <4>1, <4>3 DEF TypeOK, MsgSound, Publication
      <4> QED BY <4>2, <4>3
    <3> QED BY <3>1, StaysEntailed DEF Publication, MsgSound
  <2> QED BY <2>4, <2>5, <2>6, <2>7, <1>1, <1>4, <1>5, <1>6, <1>0 DEF Sound
<1>14. ASSUME NEW p \in Procs, Add(p) PROVE Sound'
  <2>1. PICK c \in todo[p] :
          /\ solver' = [solver EXCEPT ![p] = AddClause(@, c)]
          /\ todo' = [todo EXCEPT ![p] = @ \ {c}]
    BY <1>14 DEF Add
  <2>2. Entailed(c) /\ c \in Clauses
    BY DEF Sound, TypeOK
  <2>3. SolverSound(AddClause(solver[p], c))
    BY <2>2, AddClauseSound, LeftType DEF Sound
  <2>4. \A q \in Procs : SolverSound(solver'[q])
    BY <2>1, <2>3 DEF Sound, TypeOK
  <2>5. \A q \in Procs : SolverSound(solver[q])'
    BY <2>4, StaysEntailed
  <2>6. \A q \in Procs : \A d \in todo'[q] : Entailed(d)
    BY <2>1 DEF Sound, TypeOK
  <2>7. \A q \in Procs : \A d \in todo'[q] : Entailed(d)'
    BY <2>6, StaysEntailed
  <2>8. /\ single' = single /\ dble' = dble /\ file' = file /\ buf' = buf
        /\ (pc' = pc \/ pc' = [pc EXCEPT ![p] = "short"])
    BY <1>14 DEF Add, TypeOK
  <2>9. \A q \in Procs : pc'[q] = "unsat" => pc[q] = "unsat"
    BY <2>8 DEF TypeOK
  <2> QED BY <2>5, <2>7, <2>8, <2>9, <1>3, <1>4, <1>5, <1>6, <1>0 DEF Sound
<1>15. ASSUME NEW p \in Procs, WriteBlock(p) PROVE Sound'
  <2>1. \A q \in Procs : pc'[q] = "unsat" => pc[q] = "unsat"
    BY <1>15 DEF WriteBlock, TypeOK
  <2>2. /\ solver' = solver /\ todo' = todo /\ single' = single
        /\ dble' = dble /\ buf' = buf
    BY <1>15 DEF WriteBlock
  <2>3. ASSUME NEW i \in 1 .. Len(file') PROVE MsgSound(file[i])'
    <3> DEFINE n == IF LastOf(p) < Len(file) THEN Len(file) ELSE LastOf(p)
    <3>1. Publication(p) \in Publications
      BY DEF Publication, Publications, TypeOK
    <3>2. LastOf(p) \in Nat
      BY <3>1, SizeType, SizesAssumption DEF LastOf, TypeOK
    <3>3. n \in Nat
      BY <3>2 DEF TypeOK
    <3>4. /\ Len(file') = n
          /\ file'[i] = IF i \in (written[p] + 1) .. LastOf(p)
                        THEN Publication(p)
                        ELSE IF i <= Len(file) THEN file[i] ELSE Gap
      BY <1>15, <2>3, <3>3 DEF WriteBlock
    <3>5. MsgSound(file'[i])
      BY <2>3, <3>3, <3>4, GapSound DEF Sound, TypeOK
    <3> QED BY <3>5, StaysEntailed
  <2> QED BY <2>1, <2>2, <2>3, <1>1, <1>2, <1>3, <1>5, <1>6, <1>0 DEF Sound
<1>16. ASSUME NEW p \in Procs, Kill(p) PROVE Sound'
  <2>1. /\ file' = file
        /\ buf' = [buf EXCEPT ![p] = <<>>]
        /\ solver' = [solver EXCEPT ![p] = Unborn]
        /\ single' = [single EXCEPT ![p] = {}]
        /\ dble' = [dble EXCEPT ![p] = {}]
        /\ todo' = [todo EXCEPT ![p] = {}]
        /\ pc' = [pc EXCEPT ![p] = "killed"]
    BY <1>16 DEF Kill, Forget
  <2>2. \A q \in Procs : pc'[q] = "unsat" => pc[q] = "unsat"
    BY <2>1 DEF TypeOK
  <2>3. \A q \in Procs : SolverSound(solver'[q])
    BY <2>1, UnbornSound DEF Sound, TypeOK
  <2>4. \A q \in Procs : SolverSound(solver[q])'
    BY <2>3, StaysEntailed
  <2>5. \A q \in Procs : \A d \in todo'[q] : Entailed(d)'
    BY <2>1, StaysEntailed DEF Sound, TypeOK
  <2>6. \A q \in Procs : MsgSound(Publication(q))'
    <3> SUFFICES ASSUME NEW q \in Procs PROVE MsgSound(Publication(q))'
      OBVIOUS
    <3>1. MsgSound([single |-> single'[q], dble |-> dble'[q]])
      <4>1. MsgSound(Publication(q))
        BY DEF Sound
      <4> QED BY <2>1, <4>1 DEF TypeOK, MsgSound, Publication
    <3> QED BY <3>1, StaysEntailed DEF Publication, MsgSound
  <2> QED BY <2>1, <2>2, <2>4, <2>5, <2>6, <1>4, <1>5, <1>6, <1>0 DEF Sound
<1>17. CASE UNCHANGED vars
  <2>1. \A q \in Procs : pc'[q] = "unsat" => pc[q] = "unsat"
    BY <1>17 DEF vars
  <2>2. /\ solver' = solver /\ todo' = todo /\ single' = single
        /\ dble' = dble /\ file' = file /\ buf' = buf
    BY <1>17 DEF vars
  <2>3. \A p \in Procs : \A i \in 1 .. Len(buf'[p]) : MsgSound(buf[p][i])'
    BY <2>2, StaysEntailed DEF Sound
  <2> QED BY <2>1, <2>2, <2>3, <1>1, <1>2, <1>3, <1>4, <1>6, <1>0 DEF Sound
<1> QED BY <1>7, <1>8, <1>9, <1>10, <1>11, <1>12, <1>13, <1>14, <1>15, <1>16,
           <1>17, <1>18 DEF Next, Attempt, Read, Write

(* Whatever one process has taken from another, through a file that others *)
(* truncate and rewrite at any moment, is true of all solutions left.      *)
THEOREM KnowledgeStaysSound == Spec => []KnowledgeSound
<1>1. Init => TypeOK /\ Header /\ Sound
  BY InitTypeOK, InitSound
<1>2. TypeOK /\ Header /\ Sound /\ [Next]_vars
        => TypeOK' /\ Header' /\ Sound'
  BY NextTypeOK, NextSound
<1>3. Sound => KnowledgeSound
  BY DEF Sound, KnowledgeSound, SolverSound
<1> QED BY <1>1, <1>2, <1>3, PTL DEF Spec

(* A process gives up only when nothing is left to find.                   *)
THEOREM DoneIsJustified == Spec => []DoneJustified
<1>1. Init => TypeOK /\ Header /\ Sound
  BY InitTypeOK, InitSound
<1>2. TypeOK /\ Header /\ Sound /\ [Next]_vars
        => TypeOK' /\ Header' /\ Sound'
  BY NextTypeOK, NextSound
<1>3. Sound => DoneJustified
  BY DEF Sound, DoneJustified, SolverSound
<1> QED BY <1>1, <1>2, <1>3, PTL DEF Spec
-----------------------------------------------------------------------------
(* The sequence begins with a complete message. *)
Whole(s) == \E P \in Publications :
              Size(P) <= Len(s) /\ \A i \in 1 .. Size(P) : s[i] = P

(* With blocks that hold any message, a file is empty or begins with one   *)
(* message, and so does what a reader has of it.                           *)
WholeInv ==
  MostInts <= block =>
    /\ file = <<>> \/ Whole(file)
    /\ \A p \in Procs : buf[p] = <<>> \/ Whole(buf[p])
    /\ \A p \in Procs : written[p] = 0
    /\ \A p \in Procs : pc[p] # "misled"

LEMMA MostIntsType == MostInts \in Nat
BY FiniteLits, FS_CardinalityType DEF MostInts, SizeOf

LEMMA WholeMore ==
  ASSUME NEW s \in Seq(Publications), NEW t \in Seq(Publications), Whole(s)
  PROVE  Whole(s \o t)
<1>1. PICK P \in Publications :
        Size(P) <= Len(s) /\ \A i \in 1 .. Size(P) : s[i] = P
  BY DEF Whole
<1>2. Size(P) \in Nat
  BY SizeType
<1>3. Size(P) <= Len(s \o t)
  BY <1>1, <1>2
<1>4. \A i \in 1 .. Size(P) : (s \o t)[i] = P
  BY <1>1, <1>2
<1> QED BY <1>3, <1>4 DEF Whole

(* What passes the tests of readInfile is the one message at the front.    *)
LEMMA WholeIsOneWrite ==
  ASSUME TypeOK, NEW p \in Procs, Whole(buf[p])
  PROVE  OneWrite(p)
<1>1. PICK P \in Publications :
        /\ Size(P) <= Len(buf[p])
        /\ \A i \in 1 .. Size(P) : buf[p][i] = P
  BY DEF Whole
<1>2. Size(P) \in Nat /\ Size(P) >= 3 /\ Len(buf[p]) \in Nat
  BY SizeType DEF TypeOK
<1>3. buf[p][1] = P /\ buf[p][2] = P
  BY <1>1, <1>2
<1>4. RealSize(p) = Size(P)
  BY <1>3 DEF RealSize, Size
<1> QED BY <1>1, <1>2, <1>3, <1>4 DEF OneWrite

LEMMA NextWhole ==
  ASSUME TypeOK, Header, WholeInv, [Next]_vars
  PROVE  WholeInv'
<1> USE DEF fixed, success, locals, sets, input, output
<1>1. block' = block
  BY DEF Next, vars, Start, Attempt, AttemptFails, AttemptSucceeds, Excluded,
         AttemptCutShort, Exchange, Read, ReadBlock, ReadMore, Reject,
         Accept, ChecksumFails, AcceptMixed, Add, AddShort, Added, Write, OpenWrite,
         WriteBlock, Kill
<1> SUFFICES ASSUME MostInts <= block
             PROVE  /\ file' = <<>> \/ Whole(file')
                    /\ \A p \in Procs : buf'[p] = <<>> \/ Whole(buf'[p])
                    /\ \A p \in Procs : written'[p] = 0
                    /\ \A p \in Procs : pc'[p] # "misled"
  BY <1>1 DEF WholeInv, Whole
<1>2. /\ file = <<>> \/ Whole(file)
      /\ \A p \in Procs : buf[p] = <<>> \/ Whole(buf[p])
      /\ \A p \in Procs : written[p] = 0
      /\ \A p \in Procs : pc[p] # "misled"
  BY DEF WholeInv
<1>3. block \in Nat /\ block # 0
  BY SizesAssumption DEF TypeOK
<1>4. ASSUME NEW p \in Procs,
             \/ Start(p) \/ Attempt(p) \/ Exchange(p) \/ ReadMore(p)
             \/ Reject(p) \/ Accept(p) \/ ChecksumFails(p) \/ Add(p)
             \/ Added(p) \/ OpenWrite(p) \/ Kill(p)
      PROVE  /\ file' = file \/ file' = <<>>
             /\ \A q \in Procs : buf'[q] = buf[q] \/ buf'[q] = <<>>
             /\ \A q \in Procs : written'[q] = 0
             /\ \A q \in Procs : pc'[q] # "misled"
  <2>1. file' = file \/ file' = <<>>
    BY <1>4 DEF Start, Attempt, AttemptFails, AttemptSucceeds, Excluded,
                AttemptCutShort, Exchange, ReadMore, Reject, Accept,
                ChecksumFails, Add, Added, OpenWrite, Kill
  <2>2. buf' = buf \/ buf' = [buf EXCEPT ![p] = <<>>]
    BY <1>4 DEF Start, Attempt, AttemptFails, AttemptSucceeds, Excluded,
                AttemptCutShort, Exchange, ReadMore, Reject, Accept,
                ChecksumFails, Add, Added, OpenWrite, Kill, Forget
  <2>3. written' = written \/ written' = [written EXCEPT ![p] = 0]
    BY <1>4 DEF Start, Attempt, AttemptFails, AttemptSucceeds, Excluded,
                AttemptCutShort, Exchange, ReadMore, Reject, Accept,
                ChecksumFails, Add, Added, OpenWrite, Kill
  <2>4. \A q \in Procs : pc'[q] # "misled"
    <3>1. pc' = pc \/ \E x \in Places \ {"misled"} :
                        pc' = [pc EXCEPT ![p] = x]
      BY <1>2, <1>4
      DEF Start, Attempt, AttemptFails, AttemptSucceeds, Excluded,
          AttemptCutShort, Exchange, ReadMore, Reject, Accept, Take,
          ChecksumFails, Add, Added, OpenWrite, Kill, AfterRead,
          WithoutSolution, Places, TypeOK
    <3> QED BY <3>1, <1>2 DEF TypeOK
  <2>5. \A q \in Procs : buf'[q] = buf[q] \/ buf'[q] = <<>>
    BY <2>2 DEF TypeOK
  <2>6. \A q \in Procs : written'[q] = 0
    BY <2>3, <1>2 DEF TypeOK
  <2> QED BY <2>1, <2>4, <2>5, <2>6
<1>5. ASSUME NEW p \in Procs, ReadBlock(p)
      PROVE  \A q \in Procs : buf'[q] = <<>> \/ Whole(buf'[q])
  <2> SUFFICES ASSUME NEW q \in Procs
               PROVE  buf'[q] = <<>> \/ Whole(buf'[q])
    OBVIOUS
  <2>1. /\ buf' = [buf EXCEPT ![p] = buf[p] \o NextBlock(p)]
        /\ NextBlock(p) # <<>>
    BY <1>5 DEF ReadBlock
  <2>2. CASE q # p
    BY <1>2, <2>1, <2>2 DEF TypeOK
  <2>3. CASE q = p /\ Whole(buf[p])
    <3>1. Whole(buf[p] \o NextBlock(p))
      BY <2>3, WholeMore, NextBlockType DEF TypeOK
    <3> QED BY <2>1, <2>3, <3>1 DEF TypeOK
  <2>4. CASE q = p /\ buf[p] = <<>>
    <3> DEFINE n == IF block < Len(file) THEN block ELSE Len(file)
    <3>1. NextBlock(p) = SubSeq(file, 1, n)
      BY <1>3, <2>4 DEF NextBlock
    <3>2. file \in Seq(Publications)
      BY DEF TypeOK
    <3>3. Whole(file)
      <4>1. file # <<>>
        BY <2>1, <3>1, <3>2, <1>3
      <4> QED BY <4>1, <1>2
    <3>4. PICK P \in Publications :
            Size(P) <= Len(file) /\ \A i \in 1 .. Size(P) : file[i] = P
      BY <3>3 DEF Whole
    <3>5. Size(P) \in Nat /\ Size(P) <= block
      BY <1>3, SizeType, MostIntsType
    <3>6. n \in Nat /\ n <= Len(file) /\ Size(P) <= n
      BY <1>3, <3>2, <3>4, <3>5
    <3>7. /\ Len(SubSeq(file, 1, n)) = n
          /\ \A i \in 1 .. n : SubSeq(file, 1, n)[i] = file[i]
      BY <3>2, <3>6
    <3>8. Whole(SubSeq(file, 1, n))
      BY <3>4, <3>5, <3>6, <3>7 DEF Whole
    <3>9. buf'[q] = <<>> \o NextBlock(p)
      BY <2>1, <2>4 DEF TypeOK
    <3>10. buf'[q] = NextBlock(p)
      BY <3>9, NextBlockType
    <3> QED BY <3>1, <3>8, <3>10
  <2> QED BY <1>2, <2>2, <2>3, <2>4
<1>6. ASSUME NEW p \in Procs, WriteBlock(p)
      PROVE  Whole(file') /\ (\A q \in Procs : written'[q] = 0)
             /\ (\A q \in Procs : pc'[q] # "misled")
  <2> DEFINE P == Publication(p)
  <2>1. P \in Publications
    BY DEF Publication, Publications, TypeOK
  <2>2. Size(P) \in Nat /\ Size(P) <= block
    BY <1>3, <2>1, SizeType, MostIntsType
  <2>3. written[p] = 0
    BY <1>2
  <2>4. LastOf(p) = Size(P)
    BY <1>3, <2>2, <2>3 DEF LastOf
  <2>5. /\ written' = [written EXCEPT ![p] = 0]
        /\ pc' = [pc EXCEPT ![p] = "attempt"]
    BY <1>6, <2>2, <2>4 DEF WriteBlock
  <2>6. Whole(file')
    <3> DEFINE n == IF LastOf(p) < Len(file) THEN Len(file) ELSE LastOf(p)
    <3>1. n \in Nat /\ Size(P) <= n
      BY <2>2, <2>4 DEF TypeOK
    <3>2. file' = [i \in 1 .. n |->
                     IF i \in (written[p] + 1) .. LastOf(p) THEN P
                     ELSE IF i <= Len(file) THEN file[i] ELSE Gap]
      BY <1>6 DEF WriteBlock
    <3>3. Len(file') = n
      BY <3>1, <3>2
    <3>4. \A i \in 1 .. Size(P) : file'[i] = P
      BY <2>2, <2>3, <2>4, <3>1, <3>2
    <3> QED BY <2>1, <3>1, <3>3, <3>4 DEF Whole
  <2> QED BY <1>2, <2>5, <2>6 DEF TypeOK
<1>7. ASSUME NEW p \in Procs, AcceptMixed(p) PROVE FALSE
  <2>1. Len(buf[p]) >= 3
    BY <1>7 DEF AcceptMixed, Arrived, RSize, TypeOK, Header
  <2>2. Whole(buf[p])
    BY <1>2, <2>1
  <2> QED BY <1>7, <2>2, WholeIsOneWrite DEF AcceptMixed
<1>8. CASE UNCHANGED vars
  BY <1>2, <1>8 DEF vars
<1>12. ASSUME NEW p \in Procs, AddShort(p)
       PROVE  /\ file' = file /\ written' = written /\ buf' = buf
              /\ \A q \in Procs : pc'[q] # "misled"
  BY <1>12 DEF AddShort
<1>9. ASSUME NEW p \in Procs,
             \/ Start(p) \/ Attempt(p) \/ Exchange(p) \/ ReadMore(p)
             \/ Reject(p) \/ Accept(p) \/ ChecksumFails(p) \/ Add(p)
             \/ Added(p) \/ OpenWrite(p) \/ Kill(p)
      PROVE  /\ file' = <<>> \/ Whole(file')
             /\ \A q \in Procs : buf'[q] = <<>> \/ Whole(buf'[q])
             /\ \A q \in Procs : written'[q] = 0
             /\ \A q \in Procs : pc'[q] # "misled"
  BY <1>2, <1>4, <1>9
<1>10. ASSUME NEW p \in Procs, ReadBlock(p)
       PROVE  /\ file' = file /\ written' = written /\ pc' = pc
  BY <1>10 DEF ReadBlock
<1>11. ASSUME NEW p \in Procs, WriteBlock(p) PROVE buf' = buf
  BY <1>11 DEF WriteBlock
<1> QED BY <1>2, <1>5, <1>6, <1>7, <1>8, <1>9, <1>10, <1>11, <1>12
        DEF Next, Read, Write

(* A message that fits in a block is received as it was sent or not at     *)
(* all, although nothing locks the file.                                   *)
THEOREM MessagesStayWhole == Spec => []WholeMessages
<1>1. Init => TypeOK /\ Header /\ WholeInv
  <2> SUFFICES ASSUME Init PROVE WholeInv
    BY InitTypeOK
  <2> QED BY DEF Init, WholeInv
<1>2. TypeOK /\ Header /\ WholeInv /\ [Next]_vars
        => TypeOK' /\ Header' /\ WholeInv'
  BY NextTypeOK, NextWhole
<1>3. WholeInv => WholeMessages
  BY DEF WholeInv, WholeMessages, Misled
<1> QED BY <1>1, <1>2, <1>3, PTL DEF Spec
-----------------------------------------------------------------------------
(* Some clause that s shares implies c. *)
Covers(s, c) == \E d \in ClausesOf(Shareable(s)) : d \subseteq c

(* Whatever the exchanger of p holds and has handed to the solver is       *)
(* covered by what the solver would share.                                 *)
Covered ==
  \A p \in Procs : solver[p].ok =>
    \A c \in ClausesOf(Publication(p)) \ todo[p] : Covers(solver[p], c)

(* Clauses wait to be added only while they are being added.               *)
Waiting ==
  \A p \in Procs : todo[p] # {} => pc[p] \in {"add", "short", "exclude"} \cup Ended

LEMMA CoversUnit ==
  ASSUME NEW s, NEW c, NEW l \in s.units, l \in c
  PROVE  Covers(s, c)
<1>1. Shareable(s).single = s.units
  BY DEF Shareable
<1>2. {l} \in ClausesOf(Shareable(s)) /\ {l} \subseteq c
  BY <1>1 DEF ClausesOf
<1> QED BY <1>2 DEF Covers

LEMMA ClosureGrows ==
  ASSUME NEW C, NEW U \in SUBSET Lits
  PROVE  U \subseteq Closure(C, U)
BY DEF Closure

LEMMA AddClauseCovers ==
  ASSUME NEW s \in Solvers, NEW c \in Clauses,
         s.ok, AddClause(s, c).ok,
         c \in Pairs \/ \E l \in Lits : c = {l}
  PROVE  Covers(AddClause(s, c), c)
<1> DEFINE rest == Open(s, c)
           derived == Closure(s.clauses, s.units \cup rest)
           t == AddClause(s, c)
<1>1. rest \subseteq c /\ rest \subseteq Lits /\ c \subseteq Lits
  BY DEF Open, Clauses
<1>2. IsFiniteSet(c) /\ IsFiniteSet(rest)
  BY <1>1, FiniteLits, FS_Subset
<1>3. CASE c \cap s.units # {}
  <2>1. t = s
    BY <1>3 DEF AddClause
  <2> QED BY <1>3, <2>1, CoversUnit
<1>4. CASE c \cap s.units = {} /\ rest = {}
  <2>1. t = [s EXCEPT !.ok = FALSE]
    BY <1>4 DEF AddClause
  <2> QED BY <2>1 DEF Solvers
<1>5. CASE c \cap s.units = {} /\ rest # {} /\ Cardinality(rest) = 1
  <2>1. PICK x : rest = {x}
    BY <1>2, <1>5, FS_Singleton
  <2>2. CASE Contradictory(derived)
    <3>1. t = [s EXCEPT !.units = @ \cup rest, !.ok = FALSE]
      BY <1>5, <2>2 DEF AddClause
    <3> QED BY <3>1 DEF Solvers
  <2>3. CASE ~ Contradictory(derived)
    <3>1. t = [s EXCEPT !.units = derived]
      BY <1>5, <2>3 DEF AddClause
    <3>2. t.units = derived
      BY <3>1 DEF Solvers
    <3>3. x \in derived
      BY <1>1, <2>1, ClosureGrows DEF Solvers
    <3> QED BY <1>1, <2>1, <3>2, <3>3, CoversUnit
  <2> QED BY <2>2, <2>3
<1>6. CASE c \cap s.units = {} /\ rest # {} /\ Cardinality(rest) # 1
  <2>1. t = [s EXCEPT !.clauses = @ \cup {rest}]
    BY <1>6 DEF AddClause
  <2>2. /\ Cardinality(rest) \in Nat /\ Cardinality(c) \in Nat
        /\ Cardinality(rest) <= Cardinality(c)
        /\ Cardinality(rest) # 0
        /\ Cardinality(rest) = Cardinality(c) => rest = c
    BY <1>1, <1>2, <1>6, FS_CardinalityType, FS_Subset, FS_EmptySet
  <2>3. CASE c \in Pairs
    <3>1. Cardinality(c) = 2 /\ c \notin Initial
      BY <2>3 DEF Pairs
    <3>2. rest = c
      BY <1>6, <2>2, <3>1
    <3>3. c \in t.clauses
      BY <2>1, <3>2 DEF Solvers
    <3> QED BY <3>1, <3>3 DEF Covers, ClausesOf, Shareable
  <2>4. CASE \E l \in Lits : c = {l}
    <3>1. Cardinality(c) = 1
      BY <2>4, FS_Singleton
    <3> QED BY <1>6, <2>2, <3>1
  <2> QED BY <2>3, <2>4
<1> QED BY <1>3, <1>4, <1>5, <1>6

LEMMA AddClauseKeeps ==
  ASSUME NEW s \in Solvers, NEW c \in Clauses, AddClause(s, c).ok,
         NEW d, Covers(s, d)
  PROVE  s.ok /\ Covers(AddClause(s, c), d)
<1> DEFINE rest == Open(s, c)
           derived == Closure(s.clauses, s.units \cup rest)
           t == AddClause(s, c)
<1>1. rest \subseteq Lits /\ s.units \subseteq Lits
  BY DEF Open, Clauses, Solvers
<1>2. \/ t = s
      \/ s.ok /\ t = [s EXCEPT !.ok = FALSE]
      \/ s.ok /\ t = [s EXCEPT !.units = @ \cup rest, !.ok = FALSE]
      \/ s.ok /\ t = [s EXCEPT !.units = derived]
      \/ s.ok /\ t = [s EXCEPT !.clauses = @ \cup {rest}]
  BY DEF AddClause
<1>3. s.ok /\ s.units \subseteq t.units /\ s.clauses \subseteq t.clauses
  <2>1. CASE t = s
    BY <2>1
  <2>2. CASE t = [s EXCEPT !.ok = FALSE]
    BY <2>2 DEF Solvers
  <2>3. CASE t = [s EXCEPT !.units = @ \cup rest, !.ok = FALSE]
    BY <2>3 DEF Solvers
  <2>4. CASE s.ok /\ t = [s EXCEPT !.units = derived]
    <3>1. s.units \cup rest \subseteq derived
      BY <1>1, ClosureGrows
    <3> QED BY <2>4, <3>1 DEF Solvers
  <2>5. CASE s.ok /\ t = [s EXCEPT !.clauses = @ \cup {rest}]
    BY <2>5 DEF Solvers
  <2> QED BY <1>2, <2>1, <2>2, <2>3, <2>4, <2>5
<1>4. PICK e \in ClausesOf(Shareable(s)) : e \subseteq d
  BY DEF Covers
<1>5. e \in ClausesOf(Shareable(t))
  BY <1>3, <1>4 DEF ClausesOf, Shareable
<1> QED BY <1>3, <1>4, <1>5 DEF Covers

(* A clause that p has taken is a unit or one of the pairs. *)
LEMMA PublicationClauses ==
  ASSUME TypeOK, NEW p \in Procs, NEW c \in ClausesOf(Publication(p))
  PROVE  c \in Clauses /\ (c \in Pairs \/ \E l \in Lits : c = {l})
BY DEF ClausesOf, Publication, TypeOK, Pairs, Clauses

LEMMA NextCovered ==
  ASSUME TypeOK, Header, Waiting, Covered, [Next]_vars
  PROVE  Covered'
<1> USE DEF fixed, success, locals, sets, input, output
<1> SUFFICES ASSUME NEW q \in Procs, solver'[q].ok,
                    NEW c \in ClausesOf([single |-> single'[q],
                                         dble |-> dble'[q]]),
                    c \notin todo'[q]
             PROVE  Covers(solver'[q], c)
  BY DEF Covered, Covers, Publication
<1>1. ASSUME solver'[q] = solver[q], todo'[q] = todo[q],
             single'[q] = single[q], dble'[q] = dble[q]
      PROVE  Covers(solver'[q], c)
  BY <1>1 DEF Covered, Publication
<1>2. ASSUME NEW p \in Procs,
             \/ AttemptFails(p) \/ Add(p)
             \/ AttemptSucceeds(p) /\ ~ UNCHANGED <<solver, todo>>
      PROVE  Covers(solver'[q], c)
  <2>1. PICK d \in Clauses :
          /\ solver' = [solver EXCEPT ![p] = AddClause(@, d)]
          /\ \/ todo' = todo
             \/ todo' = [todo EXCEPT ![p] = @ \ {d}]
             \/ todo[p] = {} /\ \E S : todo' = [todo EXCEPT ![p] = S]
          /\ single' = single /\ dble' = dble
    <3>1. CASE AttemptFails(p)
      BY <3>1, ClausesAssumption DEF AttemptFails
    <3>2. CASE Add(p)
      BY <3>2 DEF Add, TypeOK
    <3>3. CASE AttemptSucceeds(p) /\ ~ UNCHANGED <<solver, todo>>
      <4>1. todo[p] = {}
        BY <3>3 DEF AttemptSucceeds, Waiting, Ended
      <4> QED BY <3>3, <4>1, ClausesAssumption DEF AttemptSucceeds
    <3> QED BY <1>2, <3>1, <3>2, <3>3
  <2>2. c \in ClausesOf(Publication(q))
    BY <2>1 DEF Publication
  <2>3. CASE q # p
    BY <1>1, <2>1, <2>3 DEF TypeOK
  <2>4. CASE q = p
    <3>1. /\ solver[q] \in Solvers
          /\ solver'[q] = AddClause(solver[q], d)
          /\ AddClause(solver[q], d).ok
      BY <2>1, <2>4 DEF TypeOK
    <3>2. solver[q].ok
      BY <3>1 DEF AddClause
    <3>3. c \notin todo[q] \/ c = d
      BY <2>1, <2>4 DEF TypeOK
    <3>4. CASE c \notin todo[q]
      <4>1. Covers(solver[q], c)
        BY <2>2, <3>2, <3>4 DEF Covered
      <4> QED BY <3>1, <4>1, AddClauseKeeps
    <3>5. CASE c = d
      BY <2>2, <3>1, <3>2, <3>5, AddClauseCovers, PublicationClauses
    <3> QED BY <3>3, <3>4, <3>5
  <2> QED BY <2>3, <2>4
<1>3. ASSUME NEW p \in Procs, AttemptSucceeds(p), UNCHANGED <<solver, todo>>
      PROVE  Covers(solver'[q], c)
  BY <1>1, <1>3 DEF AttemptSucceeds
<1>4. ASSUME NEW p \in Procs, Exchange(p)
      PROVE  Covers(solver'[q], c)
  <2>1. /\ solver' = solver /\ todo' = todo
        /\ single' = [single EXCEPT ![p] = Shareable(solver[p]).single]
        /\ dble' = [dble EXCEPT ![p] = Shareable(solver[p]).dble]
    BY <1>4 DEF Exchange
  <2>2. CASE q = p
    <3>1. c \in ClausesOf(Shareable(solver[q]))
      BY <2>1, <2>2 DEF TypeOK, ClausesOf
    <3> QED BY <2>1, <3>1 DEF Covers
  <2>3. CASE q # p
    BY <1>1, <2>1, <2>3 DEF TypeOK
  <2> QED BY <2>2, <2>3
<1>5. ASSUME NEW p \in Procs, Accept(p)
      PROVE  Covers(solver'[q], c)
  <2> DEFINE P == buf[p][1]
  <2>1. /\ solver' = solver
        /\ single' = [single EXCEPT ![p] = @ \cup P.single]
        /\ dble' = [dble EXCEPT ![p] = @ \cup P.dble]
        /\ todo' = [todo EXCEPT ![p] = News(p, P)]
        /\ pc[p] \in {"read", "rest"}
    BY <1>5 DEF Accept, Take
  <2>2. CASE q = p
    <3>1. c \in ClausesOf(Publication(q))
      BY <2>1, <2>2 DEF TypeOK, ClausesOf, Publication, News
    <3>2. c \notin todo[q]
      BY <2>1, <2>2 DEF Waiting, Ended
    <3> QED BY <2>1, <3>1, <3>2 DEF Covered
  <2>3. CASE q # p
    BY <1>1, <2>1, <2>3 DEF TypeOK
  <2> QED BY <2>2, <2>3
<1>6. ASSUME NEW p \in Procs, Kill(p)
      PROVE  Covers(solver'[q], c)
  <2>1. CASE q = p
    BY <1>6, <2>1 DEF Kill, TypeOK, ClausesOf
  <2>2. CASE q # p
    BY <1>1, <1>6, <2>2 DEF Kill, TypeOK
  <2> QED BY <2>1, <2>2
<1>7. ASSUME NEW p \in Procs,
             \/ Start(p) \/ Excluded(p) \/ AttemptCutShort(p)
             \/ ReadBlock(p) \/ ReadMore(p) \/ Reject(p) \/ ChecksumFails(p)
             \/ AcceptMixed(p) \/ AddShort(p) \/ Added(p) \/ Write(p)
      PROVE  Covers(solver'[q], c)
  <2>1. /\ solver' = solver /\ todo' = todo
        /\ single' = single /\ dble' = dble
    BY <1>7
    DEF Start, Excluded, AttemptCutShort, ReadBlock, ReadMore, Reject,
        ChecksumFails, AcceptMixed, AddShort, Added, Write, OpenWrite,
        WriteBlock
  <2> QED BY <1>1, <2>1
<1>8. CASE UNCHANGED vars
  BY <1>1, <1>8 DEF vars
<1> QED BY <1>2, <1>3, <1>4, <1>5, <1>6, <1>7, <1>8 DEF Next, Attempt, Read

LEMMA NextWaiting ==
  ASSUME TypeOK, Waiting, [Next]_vars
  PROVE  Waiting'
<1> USE DEF fixed, success, locals, sets, input, output
<1> SUFFICES ASSUME NEW q \in Procs, todo'[q] # {}
             PROVE  pc'[q] \in {"add", "short", "exclude"} \cup Ended
  BY DEF Waiting, Ended
<1>1. todo[q] # {} => pc[q] \in {"add", "short", "exclude"} \cup Ended
  BY DEF Waiting
<1>2. ASSUME NEW p \in Procs, AttemptSucceeds(p)
      PROVE  pc'[q] \in {"add", "short", "exclude"} \cup Ended
  BY <1>1, <1>2 DEF AttemptSucceeds, TypeOK, Ended
<1>3. ASSUME NEW p \in Procs, Accept(p)
      PROVE  pc'[q] \in {"add", "short", "exclude"} \cup Ended
  BY <1>1, <1>3 DEF Accept, Take, TypeOK, Ended
<1>4. ASSUME NEW p \in Procs, AcceptMixed(p) \/ AddShort(p)
      PROVE  pc'[q] \in {"add", "short", "exclude"} \cup Ended
  BY <1>4 DEF AcceptMixed, AddShort, Ended
<1>5. ASSUME NEW p \in Procs, Add(p)
      PROVE  pc'[q] \in {"add", "short", "exclude"} \cup Ended
  <2>1. (pc' = pc \/ pc' = [pc EXCEPT ![p] = "short"]) /\ todo[q] # {}
    BY <1>5 DEF Add, TypeOK
  <2> QED BY <1>1, <2>1 DEF TypeOK
<1>6. ASSUME NEW p \in Procs, Kill(p)
      PROVE  pc'[q] \in {"add", "short", "exclude"} \cup Ended
  BY <1>1, <1>6 DEF Kill, TypeOK, Ended
<1>7. ASSUME NEW p \in Procs,
             \/ Start(p) \/ AttemptFails(p) \/ Excluded(p)
             \/ AttemptCutShort(p) \/ Exchange(p) \/ ReadBlock(p)
             \/ ReadMore(p) \/ Reject(p) \/ ChecksumFails(p) \/ Added(p)
             \/ Write(p)
      PROVE  pc'[q] \in {"add", "short", "exclude"} \cup Ended
  <2>1. todo' = todo
    BY <1>7
    DEF Start, AttemptFails, Excluded, AttemptCutShort, Exchange, ReadBlock,
        ReadMore, Reject, ChecksumFails, Added, Write, OpenWrite, WriteBlock
  <2>2. pc[q] \in {"add", "short", "exclude"} \cup Ended
    BY <1>1, <2>1
  <2>3. CASE q # p
    BY <1>7, <2>2, <2>3
    DEF Start, AttemptFails, Excluded, AttemptCutShort, Exchange, ReadBlock,
        ReadMore, Reject, ChecksumFails, Added, Write, OpenWrite, WriteBlock,
        TypeOK
  <2>4. CASE q = p
    BY <1>7, <2>1, <2>2, <2>4
    DEF Start, AttemptFails, Excluded, AttemptCutShort, Exchange, ReadBlock,
        ReadMore, Reject, ChecksumFails, Added, Write, OpenWrite, WriteBlock,
        Ended
  <2> QED BY <2>3, <2>4
<1>8. CASE UNCHANGED vars
  BY <1>1, <1>8 DEF vars
<1> QED BY <1>2, <1>3, <1>4, <1>5, <1>6, <1>7, <1>8
        DEF Next, Attempt, Read

LEMMA InitCovered == Init => Waiting /\ Covered
BY DEF Init, Waiting, Covered, ClausesOf, Publication

(* What a process shares never becomes weaker, so a publication that       *)
(* another process has overwritten is repeated or strengthened.            *)
THEOREM PublicationsNeverWeaken == Spec => PublicationsGrow
<1> DEFINE I == TypeOK /\ Header /\ Waiting /\ Covered
           A == \A p \in Procs : pc[p] = "attempt" /\ pc'[p] = "read" =>
                  \A c \in ClausesOf(Publication(p)) :
                    \E d \in ClausesOf(Publication(p)') : d \subseteq c
<1>1. Init => I
  BY InitTypeOK, InitCovered
<1>2. I /\ [Next]_vars => I'
  BY NextTypeOK, NextWaiting, NextCovered
<1>3. I /\ [Next]_vars => [A]_vars
  <2> SUFFICES ASSUME I, Next,
                      NEW p \in Procs, pc[p] = "attempt", pc'[p] = "read",
                      NEW c \in ClausesOf(Publication(p))
               PROVE  \E d \in ClausesOf(Publication(p)') : d \subseteq c
    OBVIOUS
  <2>1. Exchange(p)
    <3>1. PICK q \in Procs : \/ Start(q) \/ Attempt(q) \/ Exchange(q)
                             \/ Read(q) \/ Write(q) \/ Kill(q)
      BY DEF Next
    <3>2. CASE Start(q)
      BY <3>2 DEF Start, TypeOK
    <3>3. CASE Attempt(q)
      BY <3>3
      DEF Attempt, AttemptFails, AttemptSucceeds, Excluded, AttemptCutShort,
          WithoutSolution, TypeOK
    <3>4. CASE Exchange(q)
      BY <3>4 DEF Exchange, TypeOK
    <3>5. CASE Read(q)
      BY <3>5
      DEF Read, ReadBlock, ReadMore, Reject, Accept, Take, ChecksumFails,
          AcceptMixed, Add, AddShort, Added, AfterRead, TypeOK
    <3>6. CASE Write(q)
      BY <3>6 DEF Write, OpenWrite, WriteBlock, TypeOK
    <3>7. CASE Kill(q)
      BY <3>7 DEF Kill, TypeOK
    <3> QED BY <3>1, <3>2, <3>3, <3>4, <3>5, <3>6, <3>7
  <2>2. c \notin todo[p]
    BY DEF Waiting, Ended
  <2>3. Covers(solver[p], c)
    BY <2>1, <2>2 DEF Covered, Exchange
  <2>4. Publication(p)' = Shareable(solver[p])
    BY <2>1 DEF Exchange, Publication, Shareable, TypeOK
  <2> QED BY <2>3, <2>4 DEF Covers
<1> QED BY <1>1, <1>2, <1>3, PTL DEF Spec, PublicationsGrow
=============================================================================
