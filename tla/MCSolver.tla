------------------------------ MODULE MCSolver ------------------------------
(* Instances of Solver for TLC. *)
EXTENDS Solver

Pos(v) == <<v, TRUE>>
No(v) == <<v, FALSE>>

Clause(ls) == [op |-> "clause", lits |-> ls]
Single(ls) == [op |-> "single", lits |-> ls]
Pair(k, l) == [op |-> "pair", lits |-> <<k, l>>]
Try(l) == [op |-> "try", lits |-> <<l>>]
FixIt(l) == [op |-> "assert", lits |-> <<l>>]
Check(l) == [op |-> "check", lits |-> <<l>>]
PopIt == [op |-> "pop", lits |-> << >>]
ResetIt == [op |-> "reset", lits |-> << >>]
LightIt == [op |-> "light", lits |-> << >>]
SolveWith(ls) == [op |-> "solve", lits |-> ls]

(* Clauses whose search learns, an assumption, and the model ruled out. *)
Learning ==
  [vars |-> 0 .. 5, calls |->
    <<Clause(<<Pos(0), Pos(1), Pos(2)>>), Clause(<<Pos(0), Pos(1), No(2)>>),
      Clause(<<Pos(0), No(1), Pos(3)>>), Clause(<<Pos(0), No(1), No(3), Pos(4)>>),
      Pair(No(4), Pos(5)), Clause(<<No(5), No(3), Pos(0)>>),
      SolveWith(<<No(0)>>), SolveWith(<< >>),
      Clause(<<No(0), Pos(1), Pos(3)>>), SolveWith(<<Pos(0), No(1)>>),
      Clause(<<No(0)>>), SolveWith(<< >>)>>]

(* The values 0, 1, 2 of a hole and 3, 4, 5 of another, as HoleHardcoder   *)
(* tries them, in any order, and rules the outcome out.                    *)
Holes ==
  <<Single(<<No(0), No(1), No(2)>>), Clause(<<Pos(0), Pos(1), Pos(2)>>),
    Single(<<No(3), No(4), No(5)>>), Clause(<<Pos(3), Pos(4), Pos(5)>>),
    Pair(No(0), No(3)), Clause(<<No(0), No(4), Pos(1)>>), Clause(<<No(1), No(5)>>)>>
Hardcoding(a, b, c) ==
  [vars |-> 0 .. 5, calls |-> Holes \o
    <<Try(Pos(a)), Try(Pos(b)), ResetIt,
      Clause(<<No(2), No(3)>>), Try(Pos(b)), Try(Pos(c)), Try(Pos(a)), ResetIt,
      Clause(<<No(1), No(c)>>), Try(Pos(c)), Try(Pos(a)), ResetIt,
      SolveWith(<<Pos(b)>>), SolveWith(<< >>)>>]

(* The same choice without guesses: a value that cannot be becomes a fact. *)
Fixing(a, b) ==
  [vars |-> 0 .. 5, calls |->
    <<Single(<<No(0), No(1), No(2)>>), Clause(<<Pos(0), Pos(1), Pos(2)>>),
      Clause(<<No(0), Pos(3), Pos(4)>>), Clause(<<No(0), Pos(3), No(4)>>),
      Clause(<<No(0), No(3), Pos(5)>>), Clause(<<No(0), No(3), No(5)>>),
      Pair(Pos(1), Pos(3)), Pair(Pos(3), Pos(1)), FixIt(No(1)), FixIt(a), FixIt(b),
      SolveWith(<< >>), Clause(<<No(2), Pos(4)>>),
      SolveWith(<<No(5), Pos(4)>>), Clause(<<No(4), Pos(5)>>), FixIt(Neg(a)),
      Clause(<<Pos(3), Pos(0)>>), SolveWith(<< >>)>>]

(* One literal of a single set is a fact, two are still open. *)
Halved ==
  [vars |-> 0 .. 3, calls |->
    <<Single(<<No(0), No(1), No(2)>>), Clause(<<Pos(0), Pos(3)>>),
      Clause(<<Pos(2), No(3)>>), FixIt(No(1)), SolveWith(<< >>),
      SolveWith(<<Pos(0), Pos(2)>>)>>]

(* Two attempts inside one another, as for two lists of guarded values.    *)
Nested(a, b, c) ==
  [vars |-> 0 .. 5, calls |->
    <<Clause(<<No(0), No(1), No(2)>>), Clause(<<No(0), Pos(1), Pos(3)>>),
      Single(<<No(1), No(3), No(4)>>), Clause(<<No(0), No(3), No(5), Pos(4)>>),
      Clause(<<No(0), No(3), Pos(5), Pos(4)>>),
      Check(Pos(0)), Check(a), PopIt, Check(b), PopIt, PopIt,
      Check(a), Check(b), Check(c), PopIt, PopIt, PopIt,
      Clause(<<c, Pos(0)>>), SolveWith(<<a>>)>>]

(* Every assignment is ruled out: the refutation learns at each level.     *)
Refuted ==
  [vars |-> 0 .. 3, calls |->
    <<Clause(<<Pos(0), Pos(1), Pos(2)>>), Clause(<<Pos(0), Pos(1), No(2)>>),
      Clause(<<Pos(0), No(1), Pos(3)>>), Clause(<<Pos(0), No(1), No(3)>>),
      Clause(<<No(0), Pos(1), Pos(2)>>), Clause(<<No(0), Pos(1), No(2)>>),
      Clause(<<No(0), No(1), Pos(3)>>), Clause(<<No(0), No(1), No(3), Pos(2)>>),
      Clause(<<No(0), No(1), No(3), No(2)>>),
      SolveWith(<< >>), Try(Pos(0)), SolveWith(<<Pos(1)>>)>>]

(* -lightverif: the solve may be given up, the solver is not used again;   *)
(* the finder turns it on when it has a value to minimize.                 *)
Light(n, assumps) ==
  [Refuted EXCEPT !.calls =
     SubSeq(@, 1, n) \o <<SolveWith(<< >>), LightIt, SolveWith(assumps)>>]
LightAtOnce(n) ==
  [Refuted EXCEPT !.calls = <<LightIt>> \o SubSeq(@, 1, n)
                            \o <<SolveWith(<< >>)>>]

(* Literals that follow at a lower level: some are in the learnt clause,    *)
(* some are redundant there, 5 by way of 4.                                *)
Deeper ==
  [vars |-> 0 .. 5, calls |->
    <<Pair(Pos(0), Pos(1)), Pair(No(1), Pos(4)), Pair(No(4), Pos(5)),
      Clause(<<No(1), Pos(2), Pos(3)>>), Clause(<<No(5), No(1), Pos(2), No(3)>>),
      SolveWith(<< >>), Clause(<<No(0), No(2)>>), SolveWith(<<Pos(0)>>)>>]

(* Under the assumption every clause of three literals: it becomes false   *)
(* when the solve has already taken too long.                              *)
Full ==
  [i \in 1 .. 8 |->
     Clause(<<Pos(0), <<1, i % 2 = 0>>, <<2, (i \div 2) % 2 = 0>>, <<3, i > 4>>>>)]
Assumed(first) ==
  [vars |-> 0 .. 3, calls |-> first \o Full \o <<SolveWith(<<No(0)>>)>>]

(* An attempt that finds that there is no model.                           *)
Refusing(attempt) ==
  [vars |-> 0 .. 1, calls |->
    <<Clause(<<Pos(0), Pos(1)>>), Clause(<<Pos(0), No(1)>>), Clause(<<No(0), Pos(1)>>),
      Clause(<<No(0), No(1)>>), attempt, Try(Pos(1)), SolveWith(<< >>)>>]

(* A conflict of three literals of a single set: the search goes on with   *)
(* one of them false that is watched and was dealt with.                   *)
Third ==
  [vars |-> 0 .. 4, calls |->
    <<Single(<<No(1), No(2), No(3)>>), Clause(<<No(4), Pos(0), Pos(1)>>),
      Clause(<<No(4), Pos(0), Pos(2)>>), Pair(No(0), Pos(1)),
      SolveWith(<<Pos(3), Pos(4)>>)>>]

(* An attempt leaves a false literal behind that is watched; with another, *)
(* as a fact, the single set would be dropped.                             *)
Dropped ==
  [vars |-> 0 .. 2, calls |->
    <<Single(<<Pos(0), Pos(1), Pos(2)>>), Clause(<<No(2)>>), Check(No(0)), PopIt,
      Clause(<<No(0)>>), Clause(<<Pos(1)>>), SolveWith(<< >>)>>]

(* Three literals of a single set of four are false when two of them clash: *)
(* the third is watched, and dealt with, when the attempt goes on.         *)
Fourth ==
  [vars |-> 0 .. 4, calls |->
    <<Single(<<Pos(0), Pos(1), Pos(3), Pos(4)>>), Clause(<<Pos(0), Pos(2), No(3)>>),
      Clause(<<Pos(0), Pos(2), No(4)>>), Try(No(0)), Try(No(1)), Try(No(2)),
      Try(No(3)), ResetIt, SolveWith(<< >>)>>]

(* Facts that are known when a clause comes: it is dropped, or shortened,  *)
(* or forces literals, or there is no model.                               *)
Facts(a, b) ==
  [vars |-> 0 .. 5, calls |->
    <<Single(<<No(1), No(2), No(3)>>), Clause(<<Pos(0)>>),
      Pair(Pos(4), Pos(2)), Pair(No(0), Pos(1)), Pair(a, No(1)),
      Single(<<No(0), Pos(5), Pos(4)>>), b, Pair(No(1), No(0)),
      Clause(<<Pos(1), Pos(4)>>), SolveWith(<<Pos(2)>>), Try(Pos(2))>>]

(* A conflict takes back an attempt that was begun before a fact was        *)
(* propagated; a single set with a literal that is known to be false; and  *)
(* a solver that goes on after a solve was given up at a conflict of facts.*)
Rushed ==
  [vars |-> 0 .. 4, calls |->
    <<Clause(<<Pos(3)>>), Pair(No(0), Pos(1)), Pair(No(4), No(1)),
      Pair(No(3), Pos(0)), FixIt(Pos(4)), SolveWith(<<No(1)>>)>>]
Mistaken ==
  [vars |-> 0 .. 2, calls |->
    <<Clause(<<No(1)>>), Single(<<Pos(0), Pos(1), Pos(2)>>), SolveWith(<<No(0)>>)>>]
GivenUp(n) == [LightAtOnce(n) EXCEPT !.calls = Append(@, SolveWith(<< >>))]

(* Two literals of a single set become false by a fact. *)
Clashing ==
  [vars |-> 0 .. 5, calls |->
    <<Single(<<No(1), No(2), No(3)>>), Pair(No(5), Pos(1)),
      Pair(No(5), Pos(2)), Pair(Pos(5), Pos(0)), Clause(<<Pos(5)>>),
      SolveWith(<<Pos(0)>>)>>]

(* A single set with a literal and its opposite: one of the two is false,  *)
(* so the third is true at once.                                           *)
Opposite ==
  [vars |-> 0 .. 2, calls |->
    <<Single(<<Pos(0), Pos(1), No(0)>>), Clause(<<No(1), Pos(2)>>),
      Try(No(0)), ResetIt, SolveWith(<<Pos(2)>>)>>]

(* The clauses contradict one another before the attempt, which fails all  *)
(* the same, and the last of them was not kept.                            *)
Revived ==
  [vars |-> 0 .. 2, calls |->
    <<Clause(<<No(0), Pos(2)>>), Clause(<<No(0), No(2)>>), Clause(<<Pos(1)>>),
      Clause(<<No(1)>>), FixIt(Pos(0)), SolveWith(<< >>), Try(Pos(2))>>]
(* The conflict of facts takes a single set from a list, the attempt lets  *)
(* the solver go on with it.                                               *)
RevivedSingle ==
  [vars |-> 0 .. 5, calls |->
    <<Single(<<No(1), No(2), No(3)>>), Pair(No(5), Pos(1)), Pair(No(5), Pos(2)),
      Pair(No(0), Pos(4)), Pair(No(0), No(4)), Clause(<<Pos(5)>>),
      FixIt(Pos(0)), Clause(<<Pos(3), Pos(4)>>), Check(No(3)), PopIt,
      SolveWith(<<Pos(4)>>)>>]

MCLearntLimit == -4

MCJobs == {Revived, RevivedSingle, Opposite, Rushed, Mistaken, GivenUp(9), Third, Fourth, Dropped, Clashing, Facts(No(3), Clause(<<No(0)>>)), Facts(No(0), Clause(<<No(4), No(5)>>)),
           Facts(No(3), Single(<<Pos(3), Pos(3), Pos(4)>>)),
           Facts(No(3), Single(<<Pos(0), Pos(4), No(1)>>)),
           Facts(No(0), Single(<<Pos(5), Pos(0), Pos(4)>>)),
           Facts(No(0), Single(<<Pos(5), No(0), Pos(4)>>)),
           Facts(Pos(3), Single(<<No(2), Pos(2), Pos(3)>>)),
           Facts(No(0), Clause(<<No(0), No(4), No(5)>>)),
           Learning, Deeper, Refuted, Halved,
           Assumed(<< >>), Assumed(<<LightIt>>),
           Refusing(Try(No(0))), Refusing(FixIt(Pos(0))),
           LightAtOnce(5), LightAtOnce(7), LightAtOnce(9),
           Light(3, <<No(0), No(1)>>), Light(6, <<No(0), Pos(1)>>),
           Light(8, <<Pos(2), No(0), No(1)>>)}
          \cup {Hardcoding(a, b, c) : a \in 0 .. 1, b \in 3 .. 4, c \in {2, 5}}
          \cup {Fixing(a, b) : a, b \in {Pos(0), Pos(2), No(4)}}
          \cup {Nested(a, b, c) : a \in {Pos(1), Pos(3)}, b \in {Pos(2), Pos(4), No(5)},
                                  c \in {No(1), Pos(5)}}
ThirdJobs == {Third}
RevivedJobs == {Revived}
=============================================================================
