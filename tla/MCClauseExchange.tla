--------------------------- MODULE MCClauseExchange ---------------------------
(***************************************************************************)
(* Model-checking instances for ClauseExchange: two processes, three guard *)
(* variables, and lessons that are unsatisfiable together, so that two     *)
(* processes may finish a proof that neither has alone.                    *)
(***************************************************************************)
EXTENDS ClauseExchange, TLC

MCVars == {1, 2, 3}
Pos(v) == <<v, TRUE>>
Not(v) == <<v, FALSE>>

(* 1, 1 => 2 => not 3 and 1 => 3 are contradictory; {}: no hole was        *)
(* concretized.                                                            *)
MCLessons == {{Not(1), Pos(2)}, {Not(2), Not(3)}, {Pos(1)}, {}}
MCInitial == {{Not(1), Pos(3)}}

Assign(a, b, c) == [v \in MCVars |-> <<a, b, c>>[v]]
MCSolutions == {{}, {Assign(TRUE, TRUE, TRUE), Assign(TRUE, FALSE, TRUE),
                     Assign(FALSE, TRUE, TRUE)}}

(* Two holes of one bit: 1 and 2 are the guards of their values 1.  Of the *)
(* solutions, the last two are better than the first.                      *)
MCMinHoles == {<<Not(1), Pos(1)>>, <<Not(2), Pos(2)>>}

Symmetry == Permutations(Procs)
=============================================================================
