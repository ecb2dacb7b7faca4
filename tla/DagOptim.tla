------------------------------ MODULE DagOptim ------------------------------
(***************************************************************************)
(* DagOptim rewrites the DAG of a harness before it is searched or turned  *)
(* into clauses: process() takes the nodes in order, visits each with the  *)
(* rules of its type, merges it with an equal node (DagCSE), and drops or  *)
(* strengthens assertions.  The parents of a node have been processed      *)
(* before it, and equal nodes are one node: two pointers are equal when    *)
(* the terms are.                                                          *)
(*                                                                         *)
(* Left out: arrays, tuples, floats and calls as nodes, and with them the  *)
(* rules that only match those; --assumebcheck; inputs that are            *)
(* specialized; and integers are unbounded (the rules on sums assume that  *)
(* nothing overflows).                                                     *)
(***************************************************************************)
EXTENDS DagNodes

CONSTANTS
  Shapes,       \* kinds of DAG: the nodes each starts with, and what follows
  AlterArraccs  \* the values of ALTER_ARRACS: the inliner sets it

VARIABLES
  shape,    \* the kind of DAG
  left,     \* nodes still to come
  alter,    \* ALTER_ARRACS
  nodes,    \* the nodes of the optimized DAG, which are those DagCSE knows
  origin,   \* the node that process is at, None between two nodes
  work,     \* what it has become so far; New marks what optAdd has to visit
  target,   \* the assertion whose condition is to be replaced, or 0
  source,   \* the assertions and assumptions as they came
  asserts,  \* those of the optimized DAG, in its order
  triples,  \* testAsserts: the assertions that are clauses of three literals
  failed,   \* failedAssert # NULL
  jumped,   \* an assertion was merged with one before an assumption
  corpse    \* an assertion was merged with one that had been deleted

vars == <<shape, left, alter, nodes, origin, work, target, source,
          asserts, triples, failed, jumped, corpse>>

-----------------------------------------------------------------------------
(* computeCSE: the node that DagCSE has for the code of n, or n. *)
CSE(n) ==
  LET same == {o \in nodes : SameCode(n, o)}
  IN IF same = {} THEN n ELSE CHOOSE o \in same : TRUE

NegOfEachOther(m, f) ==
  \/ Is(m, "NEG") /\ Mother(m) = f
  \/ Is(f, "NEG") /\ Mother(f) = m
NotOfEachOther(m, f) ==
  \/ Is(m, "NOT") /\ Mother(m) = f
  \/ Is(f, "NOT") /\ Mother(f) = m

(* n, a sum of a constant and something else, as that constant and that    *)
(* something (the father is the something unless it is constant).          *)
Split(n) == IF IsConst(Father(n)) THEN <<Father(n), Mother(n)>>
            ELSE <<Mother(n), Father(n)>>

(* Bug: the comparison of the constants is turned around.                  *)
TwoBoundsTurned(f, m) ==
  LET a == Mother(f)
      b == Mother(m)
  IN IF Father(f) = Father(m) /\ IsConst(a) /\ IsConst(b)
     THEN IF a.k < b.k THEN f ELSE m ELSE None

(* a < x and b < x, where a and b differ by a constant: the stronger.      *)
TwoBounds(f, m) ==
  LET a == Mother(f)
      b == Mother(m)
      stronger(p, q) == IF p < q THEN m ELSE f
      sum(n) == Is(n, "PLUS") /\ IsConst(Split(n)[1])
  IN IF Father(f) # Father(m) THEN None
     ELSE IF IsConst(a) /\ IsConst(b) THEN stronger(a.k, b.k)
     ELSE IF sum(a) /\ sum(b) /\ Split(a)[2] = Split(b)[2]
     THEN stronger(Split(a)[1].k, Split(b)[1].k)
     ELSE IF sum(b) /\ a = Split(b)[2] THEN stronger(0, Split(b)[1].k)
     ELSE None

(* The rules.  Each returns the node that is to replace n.  A node that a  *)
(* rule makes and passes to optAdd, to be visited in turn, is New.         *)
VisitAND(n) ==
  LET m == Mother(n)
      f == Father(n)
      refutes(p, q) == Is(p, "AND") /\ \E x \in Parents(p) :
                                         NotOfEachOther(q, x)
      bounds == IF Is(f, "LT") /\ Is(m, "LT") THEN TwoBounds(f, m) ELSE None
      bound == IF Is(f, "AND") THEN Mother(f) ELSE None
  IN IF f = m THEN f
     ELSE IF NotOfEachOther(f, m) THEN Cnode(0)
     ELSE IF IsConst(f) THEN IF f.k = 0 THEN Cnode(0)
                             ELSE IF IsConst(m) THEN Truth(m.k # 0) ELSE m
     ELSE IF IsConst(m) THEN IF m.k = 0 THEN Cnode(0) ELSE f
     ELSE IF refutes(m, f) \/ refutes(f, m) THEN Cnode(0)
     ELSE IF bounds # None THEN bounds
     ELSE IF /\ Is(f, "LT") /\ Is(m, "LT")
             /\ Father(f) = Mother(m) /\ Father(m) = Mother(f)
     THEN Cnode(0)
     ELSE IF /\ Is(bound, "LT") /\ Is(m, "LT") /\ Father(bound) = Father(m)
             /\ IsConst(Mother(bound)) /\ IsConst(Mother(m))
     THEN IF Mother(bound).k < Mother(m).k
          THEN New(Bin("AND", m, Father(f))) ELSE f
     ELSE n

VisitOR(n) ==
  LET m == Mother(n)
      f == Father(n)
      below == IF Is(f, "NOT") THEN Mother(f) ELSE None
  IN IF f = m THEN f
     ELSE IF NotOfEachOther(f, m) THEN Cnode(1)
     ELSE IF IsConst(f) THEN IF f.k # 0 THEN Cnode(1)
                             ELSE IF IsConst(m) THEN Truth(m.k # 0) ELSE m
     ELSE IF IsConst(m) THEN IF m.k # 0 THEN Cnode(1) ELSE f
     ELSE IF Is(f, "NOT") /\ Is(m, "NOT")
     THEN New(Un("NOT", New(Bin("AND", Mother(m), Mother(f)))))
     ELSE IF /\ Is(m, "LT") /\ Is(below, "LT") /\ Father(m) = Father(below)
             /\ IsConst(Mother(m)) /\ IsConst(Mother(below))
             /\ Mother(m).k <= Mother(below).k
     THEN Cnode(1)
     ELSE n

VisitXOR(n) ==
  LET m == Mother(n)
      f == Father(n)
  IN IF f = m THEN Cnode(0)
     ELSE IF NotOfEachOther(f, m) THEN Cnode(1)
     ELSE IF IsConst(f) /\ IsConst(m) THEN Truth((f.k # 0) # (m.k # 0))
     ELSE n

VisitNOT(n) ==
  LET m == Mother(n)
  IN IF IsConst(m) THEN Truth(m.k = 0)
     ELSE IF Is(m, "NOT") THEN Mother(m)
     ELSE n

(* p + (x + -x), in any order, is p: s is the sum, t the other operand.    *)
Cancel(s, t) ==
  LET t1 == Father(s)
      t2 == Mother(s)
  IN IF ~ Is(s, "PLUS") THEN None
     ELSE IF NegOfEachOther(t1, t2) THEN t
     ELSE IF NegOfEachOther(t1, t) THEN t2
     ELSE IF NegOfEachOther(t2, t) THEN t1
     ELSE None

VisitPLUS(n) ==
  LET m == Mother(n)
      f == Father(n)
      c == IF IsConst(f) THEN f ELSE m  \* the constant, when there is one
      e == IF IsConst(f) THEN m ELSE f
      fold(i, j) == New(Bin("PLUS", Cnode(e.ps[i].k + c.k), e.ps[j]))
      cancelF == IF Is(f, "PLUS") THEN Cancel(f, m) ELSE None
      cancelM == IF Is(m, "PLUS") THEN Cancel(m, f) ELSE None
  IN IF IsConst(m) /\ IsConst(f) THEN Cnode(m.k + f.k)
     ELSE IF IsConst(c) /\ c.k = 0 THEN e
     ELSE IF IsConst(c) /\ Is(e, "PLUS") /\ IsConst(Father(e)) THEN fold(2, 1)
     ELSE IF IsConst(c) /\ Is(e, "PLUS") /\ IsConst(Mother(e)) THEN fold(1, 2)
     ELSE IF NegOfEachOther(m, f) THEN Cnode(0)
     ELSE IF cancelF # None THEN cancelF
     ELSE IF cancelM # None THEN cancelM
     ELSE n

VisitTIMES(n) ==
  LET m == Mother(n)
      f == Father(n)
      bare(p) == IF Is(p, "NEG") THEN Mother(p) ELSE p
      product == New(Bin("TIMES", bare(m), bare(f)))
  IN IF IsConst(m) /\ IsConst(f) THEN Cnode(m.k * f.k)
     ELSE IF IsConst(m) /\ m.k \in {0, 1} THEN IF m.k = 0 THEN m ELSE f
     ELSE IF IsConst(f) /\ f.k \in {0, 1} THEN IF f.k = 0 THEN f ELSE m
     ELSE IF Is(m, "NEG") /\ Is(f, "NEG") THEN product
     ELSE IF Is(m, "NEG") \/ Is(f, "NEG") THEN New(Un("NEG", product))
     ELSE n

VisitDIV(n) ==
  LET m == Mother(n)
      f == Father(n)
  IN IF IsConst(m) /\ IsConst(f) THEN Cnode(CDiv(m.k, f.k))
     ELSE IF Is(m, "MOD") /\ Father(m) = f THEN Cnode(0)
     ELSE n

VisitMOD(n) ==
  LET m == Mother(n)
      f == Father(n)
  IN IF IsConst(m) /\ IsConst(f) THEN Cnode(CMod(m.k, f.k))
     ELSE IF Is(m, "MOD") /\ Father(m) = f THEN m
     ELSE n

VisitNEG(n) ==
  LET m == Mother(n)
  IN IF IsConst(m) THEN Cnode(-m.k)
     ELSE IF Is(m, "NEG") THEN Mother(m)
     ELSE n

(* compSymplification: the rules that LT and EQ share, or None. *)
Simplified(op, m, f, mem) ==
  LET again(p, q) == New(Bin(op, p, q))
      shared == {p \in (1 .. 2) \X (1 .. 2) : m.ps[p[1]] = f.ps[p[2]]}
      less(p, q) == IF p = q THEN Cnode(0) ELSE Cnode(q.k - p.k)
      (* The operand of s that can move to the other side, q. *)
      side(s, q, const) == IF s.ps[2] = q \/ (const /\ IsConst(s.ps[2]))
                           THEN 2 ELSE 1
      moves(s, q, i) == s.ps[i] = q \/ (IsConst(s.ps[i]) /\ IsConst(q))
      mi == side(m, f, FALSE)
      fi == side(f, m, IsConst(m))
      certain == IF IsConst(m) /\ StaticCompare(op, f, m.k, TRUE, mem) # 0
                 THEN StaticCompare(op, f, m.k, TRUE, mem)
                 ELSE IF IsConst(f)
                 THEN StaticCompare(op, m, f.k, FALSE, mem) ELSE 0
  IN IF Is(m, "PLUS") /\ Is(f, "PLUS") /\ shared # {}
     THEN LET p == CHOOSE p \in shared : TRUE
          IN again(m.ps[3 - p[1]], f.ps[3 - p[2]])
     ELSE IF Is(m, "PLUS") /\ moves(m, f, mi)
     THEN again(m.ps[3 - mi], less(m.ps[mi], f))
     ELSE IF Is(f, "PLUS") /\ moves(f, m, fi)
     THEN again(less(f.ps[fi], m), f.ps[3 - fi])
     ELSE IF certain # 0 THEN Truth(certain = 1)
     ELSE None

VisitLT(n, mem) ==
  LET m == Mother(n)
      f == Father(n)
      r == Simplified("LT", m, f, mem)
  IN IF IsConst(m) /\ IsConst(f) THEN Truth(m.k < f.k)
     ELSE IF m = f THEN Cnode(0)
     ELSE IF r # None THEN r ELSE n

VisitEQ(n, mem) ==
  LET m == Mother(n)
      f == Father(n)
      equals(p, c) == IF c = 1 THEN p ELSE New(Un("NOT", p))
      r == Simplified("EQ", m, f, mem)
  IN IF m = f THEN Cnode(1)
     ELSE IF IsConst(m) /\ IsConst(f) THEN Truth(m.k = f.k)
     ELSE IF IsConst(m) /\ IsBool(f) /\ m.k \in {0, 1} THEN equals(f, m.k)
     ELSE IF IsConst(f) /\ IsBool(m) /\ f.k \in {0, 1} THEN equals(m, f.k)
     ELSE IF IsBool(m) /\ IsBool(f)
     THEN New(Un("NOT", New(Bin("XOR", m, f))))
     ELSE IF r # None THEN r ELSE n

(* m >= f *)
AddGE(m, f) == New(Un("NOT", New(Bin("LT", m, f))))

(* optimizeMMsize2: a choice between two by a bit.  mem.shared: the inner  *)
(* choice has other children.                                              *)
Choice(n, mem) ==
  LET c == Mother(n)
      x0 == n.ps[2]
      x1 == n.ps[3]
      eq == IF Is(c, "NOT") THEN Mother(c) ELSE c
      again(d, y0, y1) == New(Access(d, <<y0, y1>>))
      inner(x) == Is(x, "ARRACC") /\ Len(x.ps) > 2
      alike(p, q) == /\ IsConst(p) /\ IsConst(q)
                     /\ p.k \in {0, 1} /\ q.k \in {0, 1}
      assign ==
        LET const == IF IsConst(Mother(eq)) THEN 1 ELSE 2
        IN New(Assign(eq.ps[3 - const], eq.ps[const].k,
                         IF Is(c, "NOT") THEN x1 ELSE x0,
                         IF Is(c, "NOT") THEN x0 ELSE x1))
  IN IF alike(x0, x1)
     THEN IF x0.k = 0 THEN c ELSE New(Un("NOT", c))
     ELSE IF IsConst(x0) /\ x0.k = 0 /\ IsBool(x1) /\ alter
     THEN New(Bin("AND", c, x1))
     ELSE IF IsConst(x0) /\ x0.k = 1 /\ x1 = c THEN Cnode(1)
     ELSE IF IsConst(x1) /\ x1.k = 1 /\ IsBool(x0) /\ alter
     THEN New(Bin("OR", c, x0))
     ELSE IF c = x0 /\ IsBool(x1) /\ alter THEN New(Bin("AND", c, x1))
     ELSE IF NotOfEachOther(c, x0) /\ IsBool(x1) /\ alter
     THEN New(Bin("OR", x0, x1))
     ELSE IF Is(eq, "EQ") /\ (IsConst(Mother(eq)) \/ IsConst(Father(eq)))
     THEN assign
     ELSE IF inner(x1) /\ x0 = x1.ps[2] /\ IsBool(Mother(x1))
     THEN again(New(Bin("AND", c, Mother(x1))), x0, x1.ps[3])
     ELSE IF inner(x1) /\ c = Mother(x1)
     THEN Access(c, <<x0, x1.ps[3]>>)
     ELSE IF /\ inner(x0) /\ x1 = x0.ps[3] /\ IsBool(Mother(x0))
             /\ ~ mem.shared
     THEN again(New(Bin("OR", c, Mother(x0))), x0.ps[2], x1)
     ELSE IF inner(x0) /\ c = Mother(x0)
     THEN Access(c, <<x0.ps[2], x1>>)
     ELSE IF Is(c, "NOT") THEN again(Mother(c), x1, x0)
     ELSE n

(* An access by a number: an index that a bit picks from two constants,    *)
(* and what is known of the index's range.                                 *)
AccessByNumber(n, mem) ==
  LET m == Mother(n)
      nargs == Len(n.ps) - 1
      const(i) == Is(m, "ARRACC") /\ IsBool(Mother(m)) /\ Len(m.ps) = 3
                  /\ IsConst(m.ps[i])
      (* The constant is checked against nargs, not against 0: -1 picks    *)
      (* the parent before the arguments, the index.                       *)
      at(c) == IF c < nargs THEN n.ps[c + 2] ELSE Cnode(0)
      v == Value(m, mem.junk)
      (* h + 1 is compared with nargs as an unsigned number. *)
      size == IF v.hi + 1 \in 0 .. (nargs - 1) THEN v.hi + 1 ELSE nargs
      kept == {i \in 0 .. (size - 1) : i >= v.lo
                                       /\ (v.st = "LIST" => i \in v.vals)}
      cut == Access(m, [i \in 1 .. size |-> IF i - 1 \in kept
                                            THEN n.ps[i + 1] ELSE Cnode(0)])
      values == {n.ps[i + 2] : i \in kept}
      within == v.hi \in 0 .. (nargs - 1) /\ v.lo >= 0
  IN IF const(2) /\ const(3)
     THEN New(Access(Mother(m), <<at(m.ps[2].k), at(m.ps[3].k)>>))
     ELSE IF v.st = "TOP" \/ (v.hi >= nargs - 1 /\ v.lo <= 0) THEN n
     ELSE IF size = 0 \/ (within /\ values = {}) THEN Cnode(0)
     ELSE IF within /\ Cardinality(values) = 1
     THEN CHOOSE x \in values : TRUE
     ELSE IF size # nargs THEN New(cut) ELSE cut

VisitARRACC(n, mem) ==
  LET m == Mother(n)
      nargs == Len(n.ps) - 1
      x == n.ps[2]
      bit == nargs = 2 /\ IsBool(m)
      same == \A i \in 2 .. Len(n.ps) : n.ps[i] = x
      upper == New(Access(New(Bin("LT", m, Cnode(nargs))),
                             <<Cnode(0), x>>))
  IN IF IsConst(m)
     THEN IF m.k \in 0 .. (nargs - 1) THEN n.ps[m.k + 2] ELSE Cnode(0)
     ELSE IF same /\ bit THEN x
     ELSE IF same /\ IsConst(x) /\ x.k = 0 THEN Cnode(0)
     ELSE IF same
     THEN New(Access(AddGE(m, Cnode(0)), <<Cnode(0), upper>>))
     ELSE IF bit THEN Choice(n, mem) ELSE AccessByNumber(n, mem)

(* checkArrass: the values for quant, quant + 1, ..., then the old value.  *)
RECURSIVE Chain(_)
Chain(n) ==
  LET o == OldVal(n)
  IN <<NewVal(n)>> \o (IF /\ Is(o, "ARRASS") /\ o.k = n.k + 1
                         /\ Mother(o) = Mother(n)
                       THEN Chain(o) ELSE <<o>>)

VisitARRASS(n, mem) ==
  LET m == Mother(n)
      o == OldVal(n)
      w == NewVal(n)
      chain == Chain(n)
      eq == New(Bin("EQ", m, Cnode(n.k)))
      isThisTest == \E i \in {1, 2} : /\ o.ps[i] = m
                                     /\ o.ps[3 - i] = Cnode(n.k)
      sc == StaticCompare("EQ", m, n.k, TRUE, mem)
  IN IF IsConst(m) THEN IF n.k = m.k THEN w ELSE o
     ELSE IF o = w THEN o
     ELSE IF n.k = 0 /\ Len(chain) > 3
     THEN New(Access(New(Bin("LT", m, Cnode(Len(chain)))),
                        <<chain[Len(chain)], Access(m, chain)>>))
     ELSE IF Is(m, "PLUS") /\ \E p \in Parents(m) : IsConst(p)
     THEN LET i == IF IsConst(m.ps[1]) THEN 1 ELSE 2
          IN New(Assign(m.ps[3 - i], n.k - m.ps[i].k, o, w))
     ELSE IF Is(o, "EQ") /\ isThisTest
     THEN New(Assign(m, n.k, Cnode(0), w))
     ELSE IF o = Cnode(0) /\ w = Cnode(1) THEN eq
     ELSE IF o = Cnode(1) /\ w = Cnode(0) THEN New(Un("NOT", eq))
     ELSE IF sc = 1 THEN w
     ELSE IF sc = -1 THEN o
     ELSE n

-----------------------------------------------------------------------------
(* What a visit of n may find in memory: that nodes have been compared     *)
(* before, the unset dropped flag, and that an inner choice has children   *)
(* among the nodes still to come.                                          *)
Memories(n) ==
  LET accesses == {q \in Below(n) \ {n} : Is(q, "ARRACC")}
      when(c) == IF c THEN BOOLEAN ELSE {FALSE}
  IN [cached : BOOLEAN, junk : when(accesses # {}),
      shared : when(accesses # {} /\ Is(n, "ARRACC"))]

Init ==
  /\ shape \in Shapes
  /\ left = shape.size
  /\ alter \in AlterArraccs
  /\ nodes = UNION {Below(n) : n \in shape.start}
  /\ origin = None /\ work = None /\ target = 0
  /\ source = <<>>
  /\ asserts = <<>>
  /\ triples = {}
  /\ failed = FALSE /\ jumped = FALSE /\ corpse = FALSE

Running == work = None /\ left > 0 /\ ~ corpse

(* process comes to a node that is not an assertion: computeOptim.         *)
Arrive(n) ==
  /\ origin' = n
  /\ work' = New(n)
  /\ left' = left - 1
  /\ UNCHANGED <<shape, alter, nodes, target, source, asserts, triples,
                 failed, jumped, corpse>>

ProcessNode ==
  LET bools == {n \in nodes : IsBool(n)}
      ops(S) == S \cap shape.ops
  IN /\ Running /\ ~ failed
     /\ \/ \E op \in ops({"AND", "OR", "XOR"}), m \in bools, f \in bools :
             Arrive(Bin(op, m, f))
        \/ \E op \in ops({"LT", "EQ", "PLUS", "TIMES", "DIV", "MOD"}),
              m \in nodes, f \in nodes : Arrive(Bin(op, m, f))
        \/ \E op \in ops({"NOT"}), m \in bools : Arrive(Un(op, m))
        \/ \E op \in ops({"NEG"}), m \in nodes : Arrive(Un(op, m))
        \/ \E op \in ops({"ARRACC"}), m \in nodes,
              args \in [1 .. shape.args -> nodes] : Arrive(Access(m, args))
        \/ \E op \in ops({"ARRASS"}), m \in nodes, quant \in 0 .. 2,
              o \in nodes, w \in nodes : Arrive(Assign(m, quant, o, w))

(* Bug: of the nodes that a rule made only the last is added.              *)
BecomesAlone(n, result) ==
  /\ work' = Replaced(work, New(n), IF IsNew(result) THEN result
                                    ELSE CSE(result))
  /\ nodes' = IF IsNew(result) THEN nodes ELSE nodes \cup {CSE(result)}
  /\ UNCHANGED <<shape, left, alter, origin, target, source, asserts,
                 triples, failed, jumped, corpse>>

(* optAdd of n: its rule is applied, and an equal node taken if there is   *)
(* one.  The rule may have made nodes that have to be visited first.       *)
Becomes(n, result) ==
  \E r \in {result} :
    /\ IF IsNew(r)
       THEN work' = Replaced(work, New(n), r) /\ UNCHANGED nodes
       ELSE \E o \in {CSE(r)} : /\ work' = Replaced(work, New(n), o)
                                /\ nodes' = nodes \cup Below(o)
    /\ UNCHANGED <<shape, left, alter, origin, target, source, asserts,
                   triples, failed, jumped, corpse>>

Awaiting(op) == {n \in Ready(work) : Is(n, op)}

OptimizeAND == \E n \in Awaiting("AND") : Becomes(n, VisitAND(n))
OptimizeOR == \E n \in Awaiting("OR") : Becomes(n, VisitOR(n))
OptimizeXOR == \E n \in Awaiting("XOR") : Becomes(n, VisitXOR(n))
OptimizeNOT == \E n \in Awaiting("NOT") : Becomes(n, VisitNOT(n))
OptimizePLUS == \E n \in Awaiting("PLUS") : Becomes(n, VisitPLUS(n))
OptimizeTIMES == \E n \in Awaiting("TIMES") : Becomes(n, VisitTIMES(n))
OptimizeDIV == \E n \in Awaiting("DIV") : Becomes(n, VisitDIV(n))
OptimizeMOD == \E n \in Awaiting("MOD") : Becomes(n, VisitMOD(n))
OptimizeNEG == \E n \in Awaiting("NEG") : Becomes(n, VisitNEG(n))
OptimizeLT ==
  \E n \in Awaiting("LT") : \E mem \in Memories(n) : Becomes(n, VisitLT(n, mem))
OptimizeEQ ==
  \E n \in Awaiting("EQ") : \E mem \in Memories(n) : Becomes(n, VisitEQ(n, mem))
OptimizeARRACC ==
  \E n \in Awaiting("ARRACC") : \E mem \in Memories(n) :
    Becomes(n, VisitARRACC(n, mem))
OptimizeARRASS ==
  \E n \in Awaiting("ARRASS") : \E mem \in Memories(n) :
    Becomes(n, VisitARRASS(n, mem))

(* replace: what the node has become takes its place, in the DAG or as the *)
(* condition of the assertion it was made for.                             *)
Replace ==
  /\ work # None /\ ~ IsNew(work)
  /\ asserts' = IF target = 0 THEN asserts
                ELSE [asserts EXCEPT ![target].cond = work]
  /\ origin' = None /\ work' = None /\ target' = 0
  /\ UNCHANGED <<shape, left, alter, nodes, source, triples, failed, jumped,
                 corpse>>

-----------------------------------------------------------------------------
Literal(p, negated) ==
  IF Is(p, "NOT") THEN <<Mother(p), ~ negated>> ELSE <<p, negated>>

(* The three literals of an assertion, or none.                            *)
Literals(c) ==
  LET f == IF Is(c, "OR") THEN Father(c) ELSE None
      pair == IF Is(f, "OR") THEN f
              ELSE IF Is(f, "NOT") /\ Is(Mother(f), "AND") THEN Mother(f)
              ELSE None
  IN IF pair = None THEN <<>>
     ELSE <<Literal(Mother(c), FALSE), Literal(Mother(pair), Is(f, "NOT")),
            Literal(Father(pair), Is(f, "NOT"))>>

(* DagCSE takes assertions of one condition for one, whatever their type.  *)
Known(c) == \E i \in DOMAIN asserts : asserts[i].key = c
Kept(type, c) ==
  IF Known(c) THEN asserts
  ELSE Append(asserts, [type |-> type, cond |-> c, key |-> c])

(* Bug: the later assertion is dropped when it is the stronger.            *)
StrongerDropped(l, k) ==
  LET p == l[1]
      q == k[1]
  IN /\ l[2] /\ k[2] /\ Is(p, "LT") /\ Is(q, "LT") /\ Father(p) = Father(q)
     /\ IsConst(Mother(p)) /\ IsConst(Mother(q))
     /\ Mother(q).k <= Mother(p).k

(* u | !(a < x) | v makes u | !(b < x) | v unnecessary when a <= b.        *)
Weaker(l, k) ==
  LET p == l[1]
      q == k[1]
  IN /\ l[2] /\ k[2] /\ Is(p, "LT") /\ Is(q, "LT") /\ Father(p) = Father(q)
     /\ IsConst(Mother(p)) /\ IsConst(Mother(q))
     /\ Mother(p).k <= Mother(q).k

(* visit(ASSERT_node&) for an assertion that is not constant: u | t | v    *)
(* and an earlier u | !t | v become u | v, in the place of the earlier.    *)
VisitClause(c) ==
  LET lits == Literals(c)
      known == {t \in triples : /\ lits # <<>>
                                /\ t.lits[1] = lits[1] /\ t.lits[3] = lits[3]}
      opposite(t) == t.lits[2][1] = lits[2][1] /\ t.lits[2][2] # lits[2][2]
      implied(t) == t.lits[2][1] # lits[2][1] /\ Weaker(t.lits[2], lits[2])
      triple == [lits |-> lits, modified |-> FALSE,
                 main |-> IF Known(c) THEN 0 ELSE Len(asserts) + 1]
      merged(t, not) == Bin("OR", Mother(c), IF t.lits[3][2]
                                             THEN not ELSE t.lits[3][1])
      noMerge == UNCHANGED <<origin, work, target, jumped, corpse>>
  IN \/ /\ known = {}
        /\ asserts' = Kept("assert", c)
        /\ triples' = IF lits = <<>> THEN triples ELSE triples \cup {triple}
        /\ noMerge
     \/ \E t \in known :
          /\ ~ opposite(t)
          /\ asserts' = IF implied(t) THEN asserts ELSE Kept("assert", c)
          /\ noMerge /\ UNCHANGED triples
     \/ \E t \in known :
          /\ opposite(t) /\ t.modified
          /\ noMerge /\ UNCHANGED <<asserts, triples>>
     \/ \E t \in known :
          /\ opposite(t) /\ ~ t.modified /\ t.main = 0
          /\ corpse' = TRUE
          /\ UNCHANGED <<origin, work, target, asserts, triples, jumped>>
     \/ \E t \in known :
          /\ opposite(t) /\ ~ t.modified /\ t.main # 0
          /\ origin' = merged(t, Un("NOT", t.lits[3][1]))
          /\ work' = New(merged(t, New(Un("NOT", t.lits[3][1]))))
          /\ target' = t.main
          /\ triples' = (triples \ {t}) \cup {[t EXCEPT !.modified = TRUE]}
          /\ jumped' = (jumped \/ \E i \in DOMAIN asserts :
                           i > t.main /\ asserts[i].type = "assume")
          /\ UNCHANGED <<asserts, corpse>>

(* process comes to an assertion or an assumption. *)
ProcessAssert(type, c) ==
  /\ Running
  /\ source' = Append(source, [type |-> type, cond |-> c])
  /\ left' = left - 1
  /\ UNCHANGED <<shape, alter, nodes>>
  /\ \/ /\ failed \/ c = Cnode(1)
        /\ UNCHANGED <<asserts, failed>>
        /\ UNCHANGED <<origin, work, target, triples, jumped, corpse>>
     \/ /\ ~ failed /\ c # Cnode(1) /\ (c = Cnode(0) \/ type = "assume")
        /\ asserts' = Kept(type, c)
        /\ failed' = (c = Cnode(0))
        /\ UNCHANGED <<origin, work, target, triples, jumped, corpse>>
     \/ /\ ~ failed /\ ~ IsConst(c) /\ type = "assert"
        /\ VisitClause(c)
        /\ UNCHANGED failed

Next ==
  \/ ProcessNode
  \/ OptimizeAND \/ OptimizeOR \/ OptimizeXOR \/ OptimizeNOT
  \/ OptimizePLUS \/ OptimizeTIMES \/ OptimizeDIV \/ OptimizeMOD
  \/ OptimizeNEG \/ OptimizeLT \/ OptimizeEQ
  \/ OptimizeARRACC \/ OptimizeARRASS
  \/ Replace
  \/ \E type \in {"assert", "assume"}, c \in shape.conds :
       ProcessAssert(type, c)

Spec == Init /\ [][Next]_vars

-----------------------------------------------------------------------------
(* Every parent of a node, and every condition, is a node of the DAG; the  *)
(* triples name assertions that exist.                                     *)
TypeOK ==
  /\ left \in 0 .. shape.size
  /\ \A n \in nodes : Parents(n) \subseteq nodes
  /\ \A i \in DOMAIN asserts : /\ asserts[i].type \in {"assert", "assume"}
                               /\ asserts[i].cond \in nodes
  /\ \A t \in triples : t.main \in 0 .. Len(asserts)
  /\ {failed, jumped, corpse, alter} \subseteq BOOLEAN

Leaves(n) == {l \in Below(n) : l.op \in {"SRC", "CTRL"}}
Environments(S) ==
  {e \in [S -> 0 .. 3] : \A l \in S : e[l] < 2 ^ l.k}

(* Where the rules are wrong, and NodeMeaning is not claimed: a range that *)
(* is scaled by a negative constant; a chain of ARRASS whose index is      *)
(* negative, which becomes an access, and so 0; and an index that a bit    *)
(* picks from constants of which one is negative.                          *)
ScaledDown(t, junk) ==
  /\ Is(t, "TIMES")
  /\ \E i \in {1, 2} :
       LET c == t.ps[i].k
           v == Value(t.ps[3 - i], junk)
       IN IsConst(t.ps[i]) /\ c < 0 /\ v.st # "TOP" /\ v.lo < c * v.hi
NegativeChain(t, e) ==
  Is(t, "ARRASS") /\ Len(Chain(t)) > 2 /\ Eval(Mother(t), e) < 0
NegativePick(t) ==
  /\ Is(t, "ARRACC") /\ Is(Mother(t), "ARRACC")
  /\ \E p \in Parents(Mother(t)) : IsConst(p) /\ p.k < 0
Regular(n) == \A t \in Below(n) : ~ ScaledDown(t, FALSE) /\ ~ NegativePick(t)
InRange(n, e) == \A t \in Below(n) : ~ NegativeChain(t, e)

(* Optimization keeps the meaning of every node (process, optAdd): each    *)
(* rule that matches, the rules that are called on the nodes it makes, and *)
(* DagCSE's merge with an equal node give a node of the same value for     *)
(* every value of the inputs and the holes, as NodeEvaluator computes it.  *)
NodeMeaning ==
  work \notin {None, New(origin)} /\ Regular(origin) =>
    \A e \in Environments(Leaves(origin)) :
      InRange(origin, e) => Eval(work, e) = Eval(origin, e)

(* "return 1 means I know for sure the comparison is true": what the table *)
(* anv of staticCompare holds of a node covers every value that the node   *)
(* can have, however often a rule has cut its arguments, so a comparison   *)
(* or an argument that is decided from it is decided rightly.              *)
ValuesCovered ==
  work # None /\ ~ IsNew(work) /\ Regular(work) =>
    \A junk \in BOOLEAN :
      LET v == Value(work, junk)
          seen == {Eval(work, e) : e \in Environments(Leaves(work))}
      IN CASE v.st = "LIST" -> seen \subseteq v.vals
           [] v.st = "RANGE" -> seen \subseteq v.lo .. v.hi
           [] OTHER -> v.st = "TOP"

(* What a DAG says of an input is what its first condition that is false   *)
(* says: asserts "can fail evne if the assume fails" that comes later      *)
(* (MiniSATSolver::assumeVarClause).                                       *)
Verdict(program, e) ==
  LET false == {i \in DOMAIN program : Eval(program[i].cond, e) = 0}
  IN IF false = {} THEN "ok" ELSE program[Min(false)].type

(* Merging and dropping assertions (visit(ASSERT_node&), DagCSE) changes   *)
(* no verdict: an input that violates an assertion of the source violates  *)
(* one of the optimized DAG, and one that violates one of these violates   *)
(* one of the source, unless an assertion was merged with one that is      *)
(* before an assumption: then an input that the assumption refuses may     *)
(* violate the merged one.                                                 *)
VerdictKept ==
  work = None /\ ~ corpse =>
    \A e \in Environments(UNION {Leaves(n) : n \in nodes}) :
      LET before == Verdict(source, e) = "assert"
          after == Verdict(asserts, e) = "assert"
      IN (before => after) /\ (after => before \/ jumped)
=============================================================================
