------------------------------ MODULE SatSearch ------------------------------
(***************************************************************************)
(* What the SAT solver promises, without its mechanism: the assignment     *)
(* trail and the clauses it keeps are all that its answers depend on.      *)
(* MSsolverNS::Solver (module Solver) implements this specification.       *)
(*                                                                         *)
(* The caller gives clauses; the solver guesses literals, adds what its    *)
(* clauses imply, learns clauses that follow from them, takes guesses      *)
(* back, drops clauses that it can do without, and in the end answers.     *)
(* Nothing here says which clause is learnt or when: that is the code's    *)
(* choice, and every choice allowed here gives right answers               *)
(* (SatSearchProofs).                                                      *)
(***************************************************************************)
EXTENDS Integers, Sequences

CONSTANT Vars           \* the propositional variables

Lits == Vars \X BOOLEAN
Neg(l) == <<l[1], ~ l[2]>>
Clauses == SUBSET Lits
Assignments == [Vars -> BOOLEAN]

Holds(a, l) == a[l[1]] = l[2]
Satisfies(a, c) == \E l \in c : Holds(a, l)
Models(F) == {a \in Assignments : \A c \in F : Satisfies(a, c)}
(* The models of K in which the literals of T hold. *)
ModelsIn(K, T) == {a \in Models(K) : \A l \in T : Holds(a, l)}

VARIABLES
  input,    \* the clauses the caller has given and not the solver
  known,    \* the clauses the solver works with
  trail,    \* the literals it holds true, in the order it found them
  refuted,  \* the clauses have no model: ~ ok in the code
  assumed,  \* the assumptions of the present solve
  answer,   \* of the last solve, "none" when something happened since
  model     \* the assignment that goes with "sat"

vars == <<input, known, trail, refuted, assumed, answer, model>>

Answers == {"none", "sat", "unsat", "undef"}
Entries == [lit : Lits, guess : BOOLEAN]

True(t) == {t[i].lit : i \in DOMAIN t}
False(t) == {Neg(l) : l \in True(t)}
Guesses(t) == {i \in DOMAIN t : t[i].guess}

(* The part of the trail below the first guess, decision level zero. *)
Facts(t) == {t[i].lit : i \in {j \in DOMAIN t :
                                 \A k \in 1 .. j : ~ t[k].guess}}

(* Every assignment with the literals of T that satisfies K satisfies c. *)
Entails(K, T, c) ==
  \A a \in Assignments : /\ \A l \in T : Holds(a, l)
                         /\ \A k \in K : Satisfies(a, k)
                         => Satisfies(a, c)

(* Every literal of the trail that was not guessed follows, for a, from    *)
(* the guesses before it.                                                  *)
Respects(a, t) ==
  \A i \in DOMAIN t :
    /\ ~ t[i].guess
    /\ \A j \in 1 .. i - 1 : t[j].guess => Holds(a, t[j].lit)
    => Holds(a, t[i].lit)

(* Trail u is t, and literals after it that are not guessed. *)
Continues(t, u) ==
  /\ Len(t) <= Len(u)
  /\ \A i \in 1 .. Len(t) : u[i] = t[i]
  /\ \A i \in Len(t) + 1 .. Len(u) : ~ u[i].guess

(* Each of them is the only literal of some clause of K that the trail     *)
(* before it does not make false.                                          *)
Extends(t, u, K) ==
  /\ Continues(t, u)
  /\ \A i \in Len(t) + 1 .. Len(u) :
       \E c \in K : \A l \in c \ {u[i].lit} :
         \E j \in 1 .. i - 1 : u[j].lit = Neg(l)

(* Trail u is t, or t up to before one of its guesses. *)
CutAtGuess(t, u) == \/ u = t
                    \/ \E i \in Guesses(t) : u = SubSeq(t, 1, i - 1)

Falsified(K, t) == \E c \in K : c \subseteq False(t)

---------------------------------------------------------------------------
TypeOK ==
  /\ input \subseteq Clauses /\ known \subseteq Clauses
  /\ trail \in Seq(Entries)
  /\ refuted \in BOOLEAN
  /\ assumed \subseteq Lits
  /\ answer \in Answers
  /\ model \in Assignments

Init == /\ input = {} /\ known = {} /\ trail = << >>
        /\ refuted = FALSE /\ assumed = {} /\ answer = "none"
        /\ model \in Assignments

(* Clauses C are given between two solves.  They may be shortened, become  *)
(* facts or be left out, in any way that does not change the models: what  *)
(* is kept, with the facts, says what it said before, and C; when that has *)
(* no model the solver may find it out.                                    *)
Give(C) ==
  /\ C \subseteq Clauses
  /\ Guesses(trail) = {}
  /\ input' = input \cup C
  /\ known' \subseteq Clauses
  /\ trail' \in Seq(Entries) /\ Continues(trail, trail')
  /\ LET before == ModelsIn(known \cup C, Facts(trail))
     IN  \/ refuted' = refuted /\ ModelsIn(known', Facts(trail')) = before
         \/ refuted' = TRUE /\ (refuted \/ before = {})
  /\ answer' = "none"
  /\ UNCHANGED <<assumed, model>>

Imply == /\ Extends(trail, trail', known)
         /\ trail' \in Seq(Entries)
         /\ UNCHANGED <<input, known, refuted, assumed, answer, model>>

Guess(l) == /\ {l, Neg(l)} \cap True(trail) = {}
            /\ trail' = Append(trail, [lit |-> l, guess |-> TRUE])
            /\ UNCHANGED <<input, known, refuted, assumed, answer, model>>

(* A conflict: clause c is learnt, guesses are taken back, and c gives the *)
(* one literal of it that is then open.                                    *)
Learn(c) == /\ c \in Clauses
            /\ Entails(known, Facts(trail), c)
            /\ known' \subseteq known \cup {c} /\ known \subseteq known'
            /\ \/ Extends(trail, trail', {c})
               \/ \E i \in Guesses(trail) :
                    Extends(SubSeq(trail, 1, i - 1), trail', {c})
            /\ trail' \in Seq(Entries)
            /\ UNCHANGED <<input, refuted, assumed, answer, model>>

TakeBack == /\ CutAtGuess(trail, trail')
            /\ UNCHANGED <<input, known, refuted, assumed, answer, model>>

(* Clauses that follow from the others and the facts may go. *)
Forget == /\ known' \subseteq known
          /\ \A c \in known \ known' : Entails(known', Facts(trail), c)
          /\ UNCHANGED <<input, trail, refuted, assumed, answer, model>>

(* The caller wants the first guess for good: it becomes a clause of his,  *)
(* and all that follows from it becomes fact.                              *)
Adopt == \E i \in Guesses(trail) :
  /\ Guesses(trail) = {i}
  /\ input' = input \cup {{trail[i].lit}}
  /\ trail' = [trail EXCEPT ![i].guess = FALSE]
  /\ answer' = "none"
  /\ UNCHANGED <<known, refuted, assumed, model>>

(* A conflict that no guess is part of. *)
Refute == /\ Guesses(trail) = {}
          /\ Falsified(known, trail)
          /\ refuted' = TRUE
          /\ UNCHANGED <<input, known, trail, assumed, answer, model>>

Solve(A) == /\ A \subseteq Lits
            /\ assumed' = A
            /\ answer' = "none"
            /\ UNCHANGED <<input, known, trail, refuted, model>>

(* The answers.  The guesses of the search are taken back with them. *)
Answer(what) == /\ answer' = what
                /\ CutAtGuess(trail, trail')
                /\ UNCHANGED <<input, known, assumed>>

AnswerSat == /\ Answer("sat") /\ UNCHANGED refuted
             /\ ~ refuted
             /\ True(trail) \cap False(trail) = {}
             /\ \A c \in known : c \cap True(trail) # {}
             /\ assumed \subseteq True(trail)
             /\ model' = [v \in Vars |-> <<v, TRUE>> \in True(trail)]

AnswerUnsat == /\ Answer("unsat")
               /\ refuted' \in BOOLEAN
               /\ \/ refuted /\ refuted'
                  \/ /\ Falsified(known, trail) /\ Guesses(trail) = {}
                     /\ refuted'
                  \/ /\ UNCHANGED refuted
                     /\ \A i \in Guesses(trail) : trail[i].lit \in assumed
                     /\ assumed \cap False(trail) # {}
               /\ UNCHANGED model

AnswerUndef == Answer("undef") /\ UNCHANGED <<refuted, model>>

Next == \/ \E C \in SUBSET Clauses : Give(C)
        \/ Imply
        \/ \E l \in Lits : Guess(l)
        \/ \E c \in Clauses : Learn(c)
        \/ TakeBack
        \/ Forget
        \/ Adopt
        \/ Refute
        \/ \E A \in SUBSET Lits : Solve(A)
        \/ AnswerSat \/ AnswerUnsat \/ AnswerUndef

Spec == Init /\ [][Next]_vars

---------------------------------------------------------------------------
(* What the solver keeps follows from what it was given: a model of the    *)
(* input satisfies every kept clause, and every literal of the trail whose *)
(* earlier guesses it agrees with.                                         *)
KnownFollows ==
  \A a \in Models(input) :
    /\ ~ refuted
    /\ \A c \in known : Satisfies(a, c)
    /\ Respects(a, trail)

(* Nothing the caller gave is lost: unless the solver has given up, an     *)
(* assignment that satisfies the kept clauses and the facts satisfies the  *)
(* input, whatever was simplified, shrunk or deleted on the way.           *)
NothingLost ==
  \A a \in Assignments :
    /\ ~ refuted
    /\ \A c \in known : Satisfies(a, c)
    /\ \A l \in Facts(trail) : Holds(a, l)
    => a \in Models(input)

(* The answers are right: a model satisfies the clauses the caller gave    *)
(* and his assumptions, and after "unsat" no assignment does.              *)
AnswersRight ==
  /\ answer = "sat" => /\ model \in Models(input)
                       /\ \A l \in assumed : Holds(model, l)
  /\ answer = "unsat" => \A a \in Models(input) :
                           \E l \in assumed : ~ Holds(a, l)
=============================================================================
