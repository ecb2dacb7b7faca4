------------------------------ MODULE DagNodes ------------------------------
(***************************************************************************)
(* The nodes of a DAG: what they mean, when DagCSE takes two for one, and  *)
(* what DagOptim knows of their values without running them.  A node is    *)
(* the term it stands for.                                                 *)
(***************************************************************************)
EXTENDS Integers, Sequences, FiniteSets, FiniteSetsExt

CONSTANTS
  IsTopLevel,  \* isTopLevel: an input is known to be small
  NINPUTS      \* bits of an input

-----------------------------------------------------------------------------
(* Nodes.  ps holds the parents, the mother first; k the value of a        *)
(* constant, the quant of an ARRASS, or the bits of an input or a hole.    *)

Node(op, ps, k) == [op |-> op, ps |-> ps, k |-> k, name |-> ""]
Leaf(op, name, bits) == [op |-> op, ps |-> <<>>, k |-> bits, name |-> name]
Un(op, m) == Node(op, <<m>>, 0)
Bin(op, m, f) == Node(op, <<m, f>>, 0)
Cnode(c) == Node("CONST", <<>>, c)
Truth(b) == Cnode(IF b THEN 1 ELSE 0)
Access(index, args) == Node("ARRACC", <<index>> \o args, 0)
Assign(index, quant, old, new) == Node("ARRASS", <<index, old, new>>, quant)
None == Leaf("NONE", "", 0)

Mother(n) == n.ps[1]
Father(n) == n.ps[2]
Args(n) == Tail(n.ps)
OldVal(n) == n.ps[2]
NewVal(n) == n.ps[3]
IsConst(n) == n.op = "CONST"
Is(n, op) == n.op = op
Parents(n) == {n.ps[i] : i \in DOMAIN n.ps}

RECURSIVE Below(_)
Below(n) == {n} \cup UNION {Below(p) : p \in Parents(n)}

RECURSIVE IsBool(_)
IsBool(n) ==
  CASE n.op \in {"AND", "OR", "XOR", "NOT", "LT", "EQ"} -> TRUE
    [] n.op \in {"PLUS", "TIMES", "DIV", "MOD", "NEG"} -> FALSE
    [] n.op = "CONST" -> n.k \in {0, 1}
    [] n.op \in {"SRC", "CTRL"} -> n.k = 1
    [] n.op \in {"ARRACC", "ARRASS"} ->
         \A i \in 2 .. Len(n.ps) : IsBool(n.ps[i])

(* A node that a rule has made and optAdd has not visited yet.             *)
New(n) == Un("NEW", n)
RECURSIVE IsNew(_)
IsNew(n) == Is(n, "NEW") \/ \E p \in Parents(n) : IsNew(p)
(* Those whose parents have been visited: they are visited next.           *)
RECURSIVE Ready(_)
Ready(n) ==
  IF Is(n, "NEW") /\ ~ IsNew(Mother(n)) THEN {Mother(n)}
  ELSE UNION {Ready(p) : p \in Parents(n)}
RECURSIVE Replaced(_, _, _)
Replaced(n, old, new) ==
  IF n = old THEN new
  ELSE [n EXCEPT !.ps = [i \in DOMAIN @ |-> Replaced(@[i], old, new)]]

-----------------------------------------------------------------------------
(* What a node means (NodeEvaluator), for values of the inputs and holes.  *)

Abs(a) == IF a < 0 THEN -a ELSE a
(* Division in C rounds to zero; here, dividing by zero gives zero. *)
CDiv(a, b) ==
  IF b = 0 THEN 0
  ELSE IF (a < 0) = (b < 0) THEN Abs(a) \div Abs(b) ELSE -(Abs(a) \div Abs(b))
CMod(a, b) == IF b = 0 THEN 0 ELSE a - b * CDiv(a, b)

Int01(b) == IF b THEN 1 ELSE 0

RECURSIVE Eval(_, _)
Eval(n, env) ==
  LET v(i) == Eval(n.ps[i], env)
      b(i) == v(i) # 0
  IN CASE n.op = "CONST" -> n.k
       [] n.op \in {"SRC", "CTRL"} -> env[n]
       [] n.op = "NEW" -> v(1)
       [] n.op = "AND" -> Int01(b(1) /\ b(2))
       [] n.op = "OR" -> Int01(b(1) \/ b(2))
       [] n.op = "XOR" -> Int01(b(1) # b(2))
       [] n.op = "NOT" -> Int01(~ b(1))
       [] n.op = "PLUS" -> v(1) + v(2)
       [] n.op = "TIMES" -> v(1) * v(2)
       [] n.op = "DIV" -> CDiv(v(1), v(2))
       [] n.op = "MOD" -> CMod(v(1), v(2))
       [] n.op = "NEG" -> -v(1)
       [] n.op = "LT" -> Int01(v(1) < v(2))
       [] n.op = "EQ" -> Int01(v(1) = v(2))
       [] n.op = "ARRACC" ->
            IF v(1) \in 0 .. (Len(n.ps) - 2) THEN v(v(1) + 2) ELSE 0
       [] n.op = "ARRASS" -> IF v(1) = n.k THEN v(3) ELSE v(2)

-----------------------------------------------------------------------------
(* DagCSE: two nodes are one when their codes are equal. *)

Commutes == {"AND", "OR", "XOR", "PLUS", "TIMES", "EQ"}
Operands(n) ==
  IF Is(n, "TIMES") /\ Is(Mother(n), "TIMES")
  THEN Mother(n).ps \o <<Father(n)>> ELSE n.ps
Permuted(s, t) ==
  /\ Len(s) = Len(t)
  /\ \A i \in DOMAIN s :
       Cardinality({j \in DOMAIN s : s[j] = s[i]}) =
         Cardinality({j \in DOMAIN t : t[j] = s[i]})
SameCode(n, o) ==
  /\ n.op = o.op /\ n.k = o.k /\ n.name = o.name
  /\ IF n.op \in Commutes THEN Permuted(Operands(n), Operands(o))
     ELSE n.ps = o.ps

-----------------------------------------------------------------------------
(* AbstractNodeValue: what is known of the values of a node. *)

Top == [st |-> "TOP", lo |-> 0, hi |-> -1, vals |-> {}]
Between(lo, hi) == [st |-> "RANGE", lo |-> lo, hi |-> hi, vals |-> {}]
ListOf(S) == [st |-> "LIST", lo |-> Min(S), hi |-> Max(S), vals |-> S]

(* insert, one after the other, into a value that is Bottom. *)
Joined(S) ==
  LET list == \A v \in S : v.st = "LIST"
  IN IF S = {} \/ \E v \in S : v.st = "TOP" THEN Top
     ELSE [st |-> IF list THEN "LIST" ELSE "RANGE",
           lo |-> Min({v.lo : v \in S}), hi |-> Max({v.hi : v \in S}),
           vals |-> IF list THEN UNION {v.vals : v \in S} ELSE {}]

(* Bug: the bounds of a sum are those of its two parts.                    *)
AddJoined(v, w) ==
  IF w.st = "TOP" \/ v.st = "TOP" THEN Top
  ELSE Between(Min({v.lo, w.lo}), Max({v.hi, w.hi}))

Add(v, w) ==
  IF w.st = "TOP" \/ v.st = "TOP" THEN Top
  ELSE LET list == /\ v.st = "LIST" /\ w.st = "LIST"
                   /\ Cardinality(v.vals) * Cardinality(w.vals) <= 10
       IN [st |-> IF list THEN "LIST" ELSE "RANGE",
           lo |-> v.lo + w.lo, hi |-> v.hi + w.hi,
           vals |-> IF list THEN {x + y : x \in v.vals, y \in w.vals}
                    ELSE {}]

(* By a negative number: high is computed from the new low. *)
Scale(v, c) ==
  IF v.st = "TOP" THEN v
  ELSE LET lo == IF c >= 0 THEN v.lo * c ELSE c * v.hi
           hi == IF c >= 0 THEN v.hi * c ELSE c * lo
       IN [v EXCEPT !.lo = lo, !.hi = hi, !.vals = {x * c : x \in v.vals}]

Compare(op, a, b) == IF op = "LT" THEN a < b ELSE a = b

(* 1: certainly true; -1: certainly false; 0: not known. *)
CompareValue(op, v, c, reverse) ==
  LET results == {IF reverse THEN Compare(op, c, x) ELSE Compare(op, x, c) :
                    x \in v.vals}
      false == IF op = "EQ" THEN c > v.hi \/ c < v.lo
               ELSE IF reverse THEN c >= v.hi ELSE c <= v.lo
      true == IF op = "EQ" THEN c = v.lo /\ c = v.hi
              ELSE IF reverse THEN c < v.lo ELSE v.hi < c
  IN CASE v.st = "LIST" -> IF results = {TRUE} THEN 1
                           ELSE IF results = {FALSE} THEN -1 ELSE 0
       [] v.st = "RANGE" -> IF false THEN -1 ELSE IF true THEN 1 ELSE 0
       [] OTHER -> 0

(* The arguments that an access or an ARRASS may yield when v is known of  *)
(* its index, and whether it may be out of bounds.  The iterator over a    *)
(* range leaves dropped unset when the range is within bounds: junk is     *)
(* what it holds then.                                                     *)
Picked(n, v) ==
  {i \in 2 .. Len(n.ps) :
     \/ Is(n, "ARRASS") \/ v.st = "TOP"
     \/ v.st = "LIST" /\ i - 2 \in v.vals
     \/ v.st = "RANGE" /\ i - 2 \in v.lo .. v.hi}
Dropped(n, v, junk) ==
  /\ Is(n, "ARRACC")
  /\ CASE v.st = "TOP" -> ~ IsBool(Mother(n)) \/ Len(n.ps) < 3
       [] v.st = "LIST" -> ~ v.vals \subseteq 0 .. (Len(n.ps) - 2)
       [] OTHER -> v.lo < 0 \/ v.hi > Len(n.ps) - 2 \/ junk

(* anv[n]. *)
RECURSIVE Value(_, _)
Value(n, junk) ==
  LET of(i) == Value(n.ps[i], junk)
      choice(v) == Joined({of(i) : i \in Picked(n, v)} \cup
                          (IF Dropped(n, v, junk) THEN {ListOf({0})} ELSE {}))
  IN CASE n.op = "CONST" -> ListOf({n.k})
       [] n.op = "NOT" -> of(1)
       [] n.op \notin {"CONST", "NOT"} /\ IsBool(n) -> ListOf({0, 1})
       [] n.op = "CTRL" /\ n.k > 1 -> Between(0, 2 ^ n.k)
       [] n.op = "SRC" /\ n.k > 1 ->
            IF IsTopLevel THEN Between(0, 4 * 2 ^ Max({n.k, NINPUTS})) ELSE Top
       [] n.op = "TIMES" /\ IsConst(n.ps[1]) -> Scale(of(2), n.ps[1].k)
       [] n.op = "TIMES" /\ IsConst(n.ps[2]) -> Scale(of(1), n.ps[2].k)
       [] n.op = "PLUS" -> Add(of(1), of(2))
       [] n.op \in {"ARRACC", "ARRASS"} /\ ~ IsBool(n) -> choice(of(1))
       [] OTHER -> Top

(* staticCompare.  What it answers of a node that it has seen before       *)
(* (cached) depends on anv alone; the first time, it knows nothing of an   *)
(* input or a hole, and answers for a choice what all the values say.      *)
RECURSIVE StaticCompare(_, _, _, _, _)
StaticCompare(op, n, c, reverse, mem) ==
  IF mem.cached THEN CompareValue(op, Value(n, mem.junk), c, reverse)
  ELSE IF n.op \in {"SRC", "CTRL"} /\ ~ IsBool(n) THEN 0
  ELSE IF Is(n, "NOT") THEN StaticCompare(op, Mother(n), c, reverse, mem)
  ELSE IF n.op \in {"ARRACC", "ARRASS"} /\ ~ IsBool(n)
  THEN LET v == Value(Mother(n), mem.junk)
           zero == IF Dropped(n, v, mem.junk)
                   THEN {StaticCompare(op, Cnode(0), c, reverse, mem)} ELSE {}
           results == zero \cup {StaticCompare(op, n.ps[i], c, reverse, mem) :
                                   i \in Picked(n, v)}
       IN IF results = {1} THEN 1 ELSE IF results = {-1} THEN -1 ELSE 0
  ELSE CompareValue(op, Value(n, mem.junk), c, reverse)
=============================================================================
