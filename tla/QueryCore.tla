------------------------------ MODULE QueryCore ------------------------------
(***************************************************************************)
(* The core as the query builders of Query.tla use it: what it makes of an *)
(* AST, of the dict of a `select` or an `update`, of a sort and a `take`.  *)
(* The C core is not part of the repository; this is read from the         *)
(* builders in rayforce/src/query.rs, their tests and their guide.         *)
(*                                                                         *)
(* A table is a function from column names to sequences of one length, its *)
(* cells integers, with 1 and 0 for the booleans.                          *)
(***************************************************************************)
EXTENDS Expr

CONSTANT Null    \* the null of the integers, which no cell is below

ASSUME NullAssumption == Null \in Int

\* What an AST evaluates to
Scalar(x) == [is |-> "scalar", cells |-> <<x>>]
Vector(s) == [is |-> "vector", cells |-> s]
Whole(t)  == [is |-> "table", table |-> t]
Error     == [is |-> "error"]

IsError(v) == v.is = "error"
Bit(b) == IF b THEN 1 ELSE 0

\* The members of S among 1..n, in order.
Ascending(S, n) ==
  LET upto[k \in Nat] ==
        IF k = 0 THEN <<>> ELSE IF k \in S THEN Append(upto[k - 1], k) ELSE upto[k - 1]
  IN  upto[n]

-----------------------------------------------------------------------------
(* The builtins an expression calls.                                       *)

Cellwise == {">", "<", "==", "+", "and", "not", "if", "double"}
Reductions == {"sum", "count", "max"}

Arity(name) ==
  IF name \in {"not", "double"} \cup Reductions THEN 1 ELSE IF name = "if" THEN 3 ELSE 2

Cell(name, x) ==
  CASE name = ">"      -> Bit(x[1] > x[2])
    [] name = "<"      -> Bit(x[1] < x[2])
    [] name = "=="     -> Bit(x[1] = x[2])
    [] name = "+"      -> x[1] + x[2]
    [] name = "and"    -> Bit(x[1] # 0 /\ x[2] # 0)
    [] name = "not"    -> Bit(x[1] = 0)
    [] name = "if"     -> IF x[1] # 0 THEN x[2] ELSE x[3]
    [] name = "double" -> 2 * x[1]     \* a lambda of the program's

\* Cell by cell over vectors of one length, scalars standing for each cell.
Pointed(name, vs) ==
  LET long  == {i \in DOMAIN vs : vs[i].is = "vector"}
      len   == IF long = {} THEN 1 ELSE Len(vs[CHOOSE i \in long : TRUE].cells)
      cells == [k \in 1..len |->
                  Cell(name, [i \in DOMAIN vs |-> vs[i].cells[IF i \in long THEN k ELSE 1]])]
  IN  IF \E i \in long : Len(vs[i].cells) # len THEN Error
      ELSE IF long = {} THEN Scalar(cells[1]) ELSE Vector(cells)

\* One cell more under a reduction; what there is of none.
Taking(name, acc, x) ==
  CASE name = "sum"   -> acc + x
    [] name = "count" -> acc + 1
    [] name = "max"   -> IF x > acc THEN x ELSE acc

OfNone(name) == IF name = "max" THEN Null ELSE 0

Reduced(name, s) ==
  LET upto[k \in 0..Len(s)] == IF k = 0 THEN OfNone(name) ELSE Taking(name, upto[k - 1], s[k])
  IN  upto[Len(s)]

\* The cells of s whose numbers are in the sequence `at`, in its order.
Picked(s, at) == [k \in 1..Len(at) |-> s[at[k]]]

Filtered(v, mask) ==
  IF v.is = "vector" /\ mask.is = "vector" /\ Len(v.cells) = Len(mask.cells)
  THEN Vector(Picked(v.cells, Ascending({i \in DOMAIN v.cells : mask.cells[i] # 0},
                                        Len(v.cells))))
  ELSE Error

\* "`filter` isn't DAG-lowerable" (query.rs:30): of the two ways to evaluate,
\* "eval" and the "query" path of a select, only the first has it.
Apply(name, vs, path) ==
  IF Len(vs) # Arity(name) \/ \E i \in DOMAIN vs : IsError(vs[i]) THEN Error
  ELSE IF name \in Cellwise THEN Pointed(name, vs)
  ELSE IF name \in Reductions THEN Scalar(Reduced(name, vs[1].cells))
  ELSE IF name = "filter" /\ path = "eval" THEN Filtered(vs[1], vs[2])
  ELSE Error

\* Names are the columns of the table at hand, or the globals.
EvalAst(a, names, path) ==
  LET value[x \in Asts] ==
        IF x.ast = "list" THEN Apply(x.head, [i \in DOMAIN x.args |-> value[x.args[i]]], path)
        ELSE IF x.ast = "atom" THEN Scalar(x.val)
        ELSE IF x.name \in DOMAIN names THEN Vector(names[x.name]) ELSE Error
  IN  value[a]

-----------------------------------------------------------------------------
(* Tables.                                                                 *)

NRows(t) == IF DOMAIN t = {} THEN 0 ELSE Len(t[CHOOSE c \in DOMAIN t : TRUE])

\* Columns of cells, all as many.
IsTable(t) ==
  /\ t = [c \in DOMAIN t |-> t[c]]
  /\ \A c \in DOMAIN t : t[c] \in Seq(Int) /\ Len(t[c]) = NRows(t)

Rows(t, at) == [c \in DOMAIN t |-> Picked(t[c], at)]

\* A value as a column of n cells.
Stretched(v, n) == IF v.is = "vector" THEN v.cells ELSE [i \in 1..n |-> v.cells[1]]

\* The rows a mask lets pass.
Kept(mask, n) == {r \in 1..n : Stretched(mask, n)[r] # 0}

\* The projections of a select without groups: one row if all are scalars.
Spread(vs) ==
  LET lens == {Len(vs[c].cells) : c \in {d \in DOMAIN vs : vs[d].is = "vector"}}
      n    == IF lens = {} THEN 1 ELSE CHOOSE l \in lens : TRUE
  IN  IF (\E c \in DOMAIN vs : IsError(vs[c])) \/ (\E l \in lens : l # n) THEN Error
      ELSE Whole([c \in DOMAIN vs |-> Stretched(vs[c], n)])

\* Groups: the rows of one key, under the first of them.
Key(keys, n, r) == [c \in DOMAIN keys |-> Stretched(keys[c], n)[r]]
Firsts(keys, n) ==
  Ascending({r \in 1..n : \A q \in 1..(r - 1) : Key(keys, n, q) # Key(keys, n, r)}, n)
Group(keys, n, r) == Ascending({q \in 1..n : Key(keys, n, q) = Key(keys, n, r)}, n)

\* One row for each group, in the order the groups come up; vals[c][g] is what
\* the projection c is in the group g.
Gathered(keys, n, vals) ==
  LET first == Firsts(keys, n)
  IN  IF \E c \in DOMAIN vals : \E g \in DOMAIN first : vals[c][g].is # "scalar" THEN Error
      ELSE Whole([c \in DOMAIN keys \cup DOMAIN vals |-> [g \in DOMAIN first |->
                    IF c \in DOMAIN keys THEN Key(keys, n, first[g])[c]
                    ELSE vals[c][g].cells[1]]])

Grouped(t, proj, by, Ev(_, _)) ==
  LET n    == NRows(t)
      keys == [c \in DOMAIN by |-> Ev(by[c], t)]
      vals == [c \in DOMAIN proj |-> [g \in DOMAIN Firsts(keys, n) |->
                 Ev(proj[c], Rows(t, Group(keys, n, Firsts(keys, n)[g])))]]
  IN  IF \E c \in DOMAIN keys : IsError(keys[c]) THEN Error ELSE Gathered(keys, n, vals)

Answer(t, proj, by, Ev(_, _)) ==
  IF DOMAIN by # {} THEN Grouped(t, proj, by, Ev)
  ELSE IF DOMAIN proj = {} THEN Whole(t)
  ELSE Spread([c \in DOMAIN proj |-> Ev(proj[c], t)])

\* Row p of a table goes before row q in a sort by several columns; in a tie
\* the sort is stable.
Before(t, names, desc, p, q) ==
  \/ \E i \in DOMAIN names :
       /\ \A j \in 1..(i - 1) : t[names[j]][p] = t[names[j]][q]
       /\ IF desc THEN t[names[i]][p] > t[names[i]][q] ELSE t[names[i]][p] < t[names[i]][q]
  \/ p < q /\ \A i \in DOMAIN names : t[names[i]][p] = t[names[i]][q]

Sorted(v, names, desc) ==
  LET t == v.table
      n == NRows(t)
  IN  IF IsError(v) THEN v
      ELSE IF \E i \in DOMAIN names : names[i] \notin DOMAIN t THEN Error
      ELSE Whole(Rows(t, CHOOSE at \in [1..n -> 1..n] :
                           \A p, q \in 1..n : p < q => Before(t, names, desc, at[p], at[q])))

\* The first n rows, or the last -n.
Taken(v, n) ==
  LET t    == v.table
      rows == NRows(t)
  IN  IF IsError(v) THEN v
      ELSE Whole([c \in DOMAIN t |->
                    IF n >= 0 THEN SubSeq(t[c], 1, IF n < rows THEN n ELSE rows)
                    ELSE SubSeq(t[c], IF rows + n >= 0 THEN rows + n + 1 ELSE 1, rows)])

-----------------------------------------------------------------------------
(* The dict of a select or an update: the projections by name, the keys,   *)
(* the table, and the condition if there is one.                           *)

Lowered(a, t) == EvalAst(a, t, "query")

MaskOf(d) == IF d.where = <<>> THEN Scalar(1) ELSE Lowered(d.where[1], d.from)

SelectWith(d) ==
  LET n == NRows(d.from)
  IN  IF IsError(MaskOf(d)) THEN Error
      ELSE Answer(Rows(d.from, Ascending(Kept(MaskOf(d), n), n)), d.proj, d.by, Lowered)

\* Each named column is written in the rows given; in the others an old column
\* keeps its cells and a new one has nulls.
Rewritten(t, rows, new) ==
  [c \in DOMAIN t \cup DOMAIN new |-> [r \in 1..NRows(t) |->
     IF c \in DOMAIN new /\ r \in rows THEN Stretched(new[c], NRows(t))[r]
     ELSE IF c \in DOMAIN t THEN t[c][r] ELSE Null]]

UpdateWith(d) ==
  LET new == [c \in DOMAIN d.proj |-> Lowered(d.proj[c], d.from)]
  IN  IF IsError(MaskOf(d)) \/ \E c \in DOMAIN new : IsError(new[c]) THEN Error
      ELSE Whole(Rewritten(d.from, Kept(MaskOf(d), NRows(d.from)), new))
=============================================================================
