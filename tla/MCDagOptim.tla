----------------------------- MODULE MCDagOptim -----------------------------
(* Instances of DagOptim for TLC. *)
EXTENDS DagOptim

(* Inputs and holes, of two bits and of one. *)
x == Leaf("SRC", "x", 2)
h == Leaf("CTRL", "h", 2)
b == Leaf("SRC", "b", 1)
d == Leaf("CTRL", "d", 1)
u == Leaf("SRC", "u", 1)

C(c) == Cnode(c)
Lt(p, q) == Bin("LT", p, q)
Plus(p, q) == Bin("PLUS", p, q)
Or(p, q) == Bin("OR", p, q)
And(p, q) == Bin("AND", p, q)
Not(p) == Un("NOT", p)
Neg(p) == Un("NEG", p)

(* Nodes that the optimizer has made, followed by size more of the given   *)
(* types or assertions of the given conditions.                            *)
Shape(start, ops, size) ==
  [start |-> start, ops |-> ops, size |-> size, args |-> 2, conds |-> {}]

(* Truth tables, and comparisons of two bounds.                            *)
Bits == {"AND", "OR", "XOR", "NOT"}
Logic == Shape({b, d, Lt(C(1), x), Lt(C(2), x)}, Bits, 2)
Bounds == Shape({Not(b), And(b, d), Lt(C(1), x), Not(Lt(C(2), x)), Lt(x, h),
                 Lt(h, x), Lt(Plus(C(1), h), x), Lt(Plus(C(2), h), x),
                 And(Lt(C(2), x), d), And(Lt(C(1), x), d)}, Bits, 1)

(* Sums whose parts cancel, and comparisons of them.                       *)
Sums == Shape({x, C(1), Neg(x)}, {"PLUS", "NEG", "LT", "EQ"}, 2)
Cancelled == Shape({Plus(C(1), x), Plus(x, h), C(-1), Plus(h, Neg(x)), C(2), b,
                    Plus(C(2), x), Plus(h, d)}, {"PLUS", "LT", "EQ"}, 1)

(* Products and quotients of numbers of both signs.                        *)
Products == Shape({x, C(2), C(-1), Plus(C(-6), h), Neg(h), Bin("MOD", x, h),
                   Bin("TIMES", C(2), h), Plus(C(1), d)},
                  {"TIMES", "NEG", "DIV", "MOD"}, 1)

(* Comparisons that are decided from what is known of a range.             *)
Ranges == Shape({d, C(-1), C(2), h}, {"TIMES", "PLUS", "LT"}, 2)
Mixed == Shape({x, b, C(2)}, {"EQ", "ARRACC"}, 2)

(* Choices by a bit, nested choices, choices by a test.                    *)
Ites == Shape({Not(b), Access(b, <<x, h>>)}, {"ARRACC"}, 1)
Inner == Shape({b, C(1), Access(d, <<x, h>>)}, {"ARRACC"}, 1)
Tests == Shape({C(0), Bin("EQ", x, C(1)), Not(Bin("EQ", x, C(2)))},
               {"ARRACC"}, 1)

(* Accesses by a number whose range is known, partly or not at all.        *)
Three(start) == [Shape(start, {"ARRACC"}, 1) EXCEPT !.args = 3]
Tables == Three({x, Plus(C(1), d), Plus(C(-2), d)})
Picks == Three({x, Access(b, <<C(0), C(2)>>)})

(* One assignment, and chains of three: the last for a negative index.     *)
Rest(i, o) == Assign(i, 1, Assign(i, 2, o, C(2)), h)
Sets == Shape({C(0), Bin("EQ", x, C(1)), Plus(C(2), h)}, {"ARRASS"}, 1)
Chains == Shape({Rest(x, C(0))}, {"ARRASS"}, 1)
Negative == Shape({Rest(Neg(h), h)}, {"ARRASS"}, 1)

(* Three assertions or assumptions, of clauses that merge or imply others. *)
Clauses ==
  LET three(p, t, q) == Or(p, Or(t, q))
      conds == {three(u, b, d), three(u, Not(b), d),
                Or(u, Not(And(b, d))),
                three(u, Not(Lt(C(1), x)), d), three(u, Not(Lt(C(2), x)), d),
                Or(u, d), C(0), C(1), b}
  IN [start |-> conds, ops |-> {}, size |-> 3, args |-> 2, conds |-> conds]

MCShapes ==
  {Logic, Bounds, Sums, Cancelled, Products, Ranges, Mixed, Ites, Inner,
   Tests, Tables, Picks, Sets, Chains, Negative, Clauses}
=============================================================================
