------------------------------- MODULE MCCEGIS -------------------------------
(* Instances of CEGIS for TLC. *)
EXTENDS CEGIS, TLC

CONSTANTS i1, i2, i3

(* With NINPUTS = 3: an input that can be written from the start, one that *)
(* can be after growing, and one that only a file can hold.                *)
MCWidth == i1 :> 2 @@ i2 :> 3 @@ i3 :> 4

(* Controls 0, 1, 2: the value of the hole to be minimized.  find, when it *)
(* is called without a new input, "claims" that the solution is optimal.   *)
OptimalClaim ==
  phase = "idle" /\ added > 0 =>
    \A c \in Controls : (\A h \in 0 .. (added - 1) : Passes(h, c)) => ctrl <= c
==============================================================================
