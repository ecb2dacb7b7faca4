---------------------------- MODULE MCConcretize ----------------------------
(* Instances of Concretize for TLC. *)
EXTENDS Concretize

CONSTANTS a, b

MCVals == {0, 1}

(* One harness with both holes; two, the first with one of them and the    *)
(* second with both; three, of which two have one and the last the other,  *)
(* or the first two have one each and the last has both.                   *)
UsesOne == [i \in {0} |-> {a, b}]
UsesTwo == [i \in {0, 1} |-> IF i = 0 THEN {a} ELSE {a, b}]
UsesThree == [i \in 0 .. 2 |-> IF i = 2 THEN {b} ELSE {a}]
UsesBoth ==
  [i \in 0 .. 2 |-> CASE i = 0 -> {a} [] i = 1 -> {b} [] i = 2 -> {a, b}]

(* Every sketch with these harnesses. *)
SketchesOf(uses) ==
  LET all == UNION {SUBSET [uses[i] -> MCVals] : i \in DOMAIN uses}
  IN {s \in [DOMAIN uses -> all] :
        \A i \in DOMAIN uses : s[i] \subseteq [uses[i] -> MCVals]}

AllOne == SketchesOf(UsesOne)
AllTwo == SketchesOf(UsesTwo)
AllThree == SketchesOf(UsesThree)
EasyFirst == {s \in SketchesOf(UsesBoth) : s[0] = [{a} -> MCVals]}
=============================================================================
