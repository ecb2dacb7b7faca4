------------------------------ MODULE Synthesis ------------------------------
(***************************************************************************)
(* What the back end promises to the front end, without its mechanism.     *)
(*                                                                         *)
(* A sketch is a list of harnesses that share their holes.  The harnesses  *)
(* are asserted one at a time; after each of them the solver either        *)
(* answers with values for the holes under which every harness asserted so *)
(* far passes all its inputs, or refuses, because there are no such        *)
(* values.  A refusal is final.                                            *)
(*                                                                         *)
(* CEGIS implements this specification; see the property Implements there. *)
(***************************************************************************)
EXTENDS Naturals

CONSTANTS Problems,     \* how many harnesses the sketch has
          Controls,     \* the assignments of values to the holes
          Inputs        \* the inputs of a harness

VARIABLES fails,        \* the sketch: the <<harness, control, input>> that fail
          asked,        \* how many harnesses were asserted
          verdict,      \* "open" while the last of them is being solved
          answer        \* {the assignment answered}, or {} while there is none

vars == <<fails, asked, verdict, answer>>

Harnesses == 0 .. (Problems - 1)

(* Control c passes every input of the first n harnesses. *)
Correct(c, n) ==
  \A h \in 0 .. (n - 1), i \in Inputs : <<h, c, i>> \notin fails

Init ==
  /\ fails \in SUBSET (Harnesses \X Controls \X Inputs)
  /\ asked = 0
  /\ verdict = "answered"
  /\ answer = {}

(* A harness may be asserted only while all earlier ones are answered. *)
Ask ==
  /\ verdict = "answered"
  /\ asked < Problems
  /\ asked' = asked + 1
  /\ verdict' = "open"
  /\ answer' = {}
  /\ UNCHANGED fails

Answer(c) ==
  /\ verdict = "open"
  /\ Correct(c, asked)
  /\ answer' = {c}
  /\ verdict' = "answered"
  /\ UNCHANGED <<fails, asked>>

Refuse ==
  /\ verdict = "open"
  /\ \A c \in Controls : ~ Correct(c, asked)
  /\ verdict' = "refused"
  /\ UNCHANGED <<fails, asked, answer>>

Next == Ask \/ Refuse \/ (\E c \in Controls : Answer(c))

Spec == Init /\ [][Next]_vars
==============================================================================
