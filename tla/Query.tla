-------------------------------- MODULE Query --------------------------------
(***************************************************************************)
(* The query builders of rayforce/src/query.rs over the expressions of     *)
(* Expr.tla.                                                               *)
(*                                                                         *)
(* A program builds a `select` or an `update` call by call and executes    *)
(* it: the builder lowers each expression to an AST, having rewritten the  *)
(* reductions of filters which the core's query path cannot run, folds the *)
(* filters into one, puts all in one dict under the names of the columns   *)
(* and of the clauses, and wraps the whole in a sort.  `calls` is what the *)
(* program said; the properties compare the answer with what that means,   *)
(* read from the calls with the expressions as they were written.          *)
(*                                                                         *)
(* Which of two columns of one name wins is the core's business, and so is *)
(* their order: the named expressions of a builder are a function.         *)
(***************************************************************************)
EXTENDS QueryCore

CONSTANTS
  Tables,     \* tables a query starts from
  Preds,      \* expressions a program filters with
  Aggs,       \* <<name, expression>> pairs it projects
  Sets,       \* <<name, expression>> pairs it updates
  Keys,       \* <<name, expression>> pairs it groups by
  Orders,     \* <<names, descending>> pairs it sorts by
  MaxCalls,   \* bound: calls on one builder
  MinI64      \* the least i64, which has no magnitude

\* The filters of one query, folded into one expression, nest deeper by one each.
ASSUME CallsAssumption ==
  /\ MaxCalls \in Nat /\ MaxCalls <= MaxHeight
  /\ Preds \subseteq Nested("expr", MaxHeight - MaxCalls)
  /\ \A p \in Aggs \cup Sets \cup Keys : p[2] \in Exprs
ASSUME TablesAssumption == \A t \in Tables : IsTable(t)
ASSUME OrdersAssumption == \A o \in Orders : o[2] \in BOOLEAN
ASSUME MinAssumption == MinI64 \in Int /\ \A t \in Tables : NRows(t) < -MinI64

VARIABLES
  table,      \* the Table in hand
  builder,    \* the fields of the builder, or NoBuilder
  calls,      \* history: the calls made on it, as <<method, argument>>
  out         \* what execute, head, tail or take returned last, or Nothing

vars == <<table, builder, calls, out>>

NoBuilder == [kind |-> "none"]
Nothing == [is |-> "nothing"]

-----------------------------------------------------------------------------
(* Lowering.                                                               *)

is_aggregation(op) == op \in {"Sum", "Count", "Max"}

IsOp(e, op, n) == e.expr = "op" /\ e.op = op /\ Len(e.args) = n
Masks(e, op) == IsOp(e, op, 1) /\ IsOp(e.args[1], "Filter", 2)

\* Slip: the tree is not recursed into.
dag_rewriteTopOnly(e) ==
  IF Masks(e, "Sum")
  THEN Op("Sum", <<Op("If", <<e.args[1].args[2], e.args[1].args[1], Lit(0)>>)>>)
  ELSE IF Masks(e, "Count")
  THEN Op("Sum", <<Op("If", <<e.args[1].args[2], Lit(1), Lit(0)>>)>>)
  ELSE e

\* (sum (filter c m)) becomes (sum (if m c 0)), (count (filter c m)) becomes
\* (sum (if m 1 0)), wherever they stand.
dag_rewrite(e) ==
  LET new[x \in Exprs] ==
        IF Masks(x, "Sum")
        THEN Op("Sum", <<Op("If", <<new[x.args[1].args[2]], new[x.args[1].args[1]], Lit(0)>>)>>)
        ELSE IF Masks(x, "Count")
        THEN Op("Sum", <<Op("If", <<new[x.args[1].args[2]], Lit(1), Lit(0)>>)>>)
        ELSE IF x.expr \in {"op", "call"}
             THEN [x EXCEPT !.args = [i \in DOMAIN @ |-> new[@[i]]]]
             ELSE x
  IN  new[e]

compile_query_expr(e) == compile(dag_rewrite(e))

\* Slip: the fold starts over with each filter.
CombinedLast(wheres) == wheres[Len(wheres)]

\* The filters, folded with And from the left.
Combined(wheres) ==
  LET upto[k \in 1..Len(wheres)] ==
        IF k = 1 THEN wheres[1] ELSE Op("And", <<upto[k - 1], wheres[k]>>)
  IN  upto[Len(wheres)]

-----------------------------------------------------------------------------
(* The builders.                                                           *)

NoExprs == [n \in {} |-> Null]
With(named, p) == [n \in DOMAIN named \cup {p[1]} |-> IF n = p[1] THEN p[2] ELSE named[n]]

\* from Table::select, Select::new and Table::update, Update::new.
NewSelect == [kind |-> "select", from |-> table, proj |-> NoExprs, wheres |-> <<>>,
              by |-> NoExprs, order |-> <<>>]
NewUpdate == [kind |-> "update", from |-> table, sets |-> NoExprs, wheres |-> <<>>]

Compiled(named) == [n \in DOMAIN named |-> compile_query_expr(named[n])]
Where(b) == IF b.wheres = <<>> THEN <<>> ELSE <<compile_query_expr(Combined(b.wheres))>>

\* Select::compile_dict and Update::compile_dict.
select_dict(b) ==
  [proj |-> Compiled(b.proj), by |-> Compiled(b.by), from |-> b.from, where |-> Where(b)]
update_dict(b) == [proj |-> Compiled(b.sets), from |-> b.from, where |-> Where(b)]

\* Slip: a grouped select of aggregates is taken for one summary row.
is_aggregation_onlyGrouped(b) ==
  /\ DOMAIN b.proj # {}
  /\ \A n \in DOMAIN b.proj : b.proj[n].expr = "op" /\ is_aggregation(b.proj[n].op)

is_aggregation_only(b) ==
  /\ DOMAIN b.by = {} /\ DOMAIN b.proj # {}
  /\ \A n \in DOMAIN b.proj : b.proj[n].expr = "op" /\ is_aggregation(b.proj[n].op)

\* (take value n), unless evaluating the value failed.
take_rows(v, n) == Taken(v, n)

\* Select::execute: (xasc (select dict) names), (xdesc ...) or (select dict).
select_execute(b) ==
  LET sel == SelectWith(select_dict(b))
      res == IF b.order = <<>> THEN sel ELSE Sorted(sel, b.order[1][1], b.order[1][2])
  IN  IF is_aggregation_only(b) THEN take_rows(res, 1) ELSE res

\* The magnitude of a count of rows, or Error.
take_magnitude(n) ==
  IF n = MinI64 THEN Error ELSE Scalar(IF n < 0 THEN -n ELSE n)

head(t, n) ==
  IF IsError(take_magnitude(n)) THEN Error ELSE take_rows(Whole(t), take_magnitude(n).cells[1])

\* Slip: the sign is left as it is.
tailSigned(t, n) == take_rows(Whole(t), n)

tail(t, n) ==
  IF IsError(take_magnitude(n)) THEN Error ELSE take_rows(Whole(t), -take_magnitude(n).cells[1])

-----------------------------------------------------------------------------
(* Actions: the calls of the program.                                      *)

Init ==
  /\ table \in Tables
  /\ builder = NoBuilder /\ calls = <<>> /\ out = Nothing

Idle == builder = NoBuilder
Building(kind) == builder.kind = kind /\ Len(calls) < MaxCalls

Made(method, arg) == calls' = Append(calls, <<method, arg>>)

\* The names of the result's columns differ.
FreshName(n) ==
  \A i \in DOMAIN calls : calls[i][1] \in {"agg", "by", "set"} => calls[i][2][1] # n

BeginSelect ==
  /\ Idle
  /\ builder' = NewSelect /\ calls' = <<>> /\ out' = Nothing
  /\ UNCHANGED table

BeginUpdate ==
  /\ Idle
  /\ builder' = NewUpdate /\ calls' = <<>> /\ out' = Nothing
  /\ UNCHANGED table

\* col, cols and agg; a column is projected as the expression of its name.
Agg(p) ==
  /\ Building("select") /\ FreshName(p[1])
  /\ builder' = [builder EXCEPT !.proj = With(@, p)]
  /\ Made("agg", p) /\ out' = Nothing
  /\ UNCHANGED table

\* filter, of both builders.
Filter(e) ==
  /\ Building("select") \/ Building("update")
  /\ builder' = [builder EXCEPT !.wheres = Append(@, e)]
  /\ Made("filter", e) /\ out' = Nothing
  /\ UNCHANGED table

\* by and by_expr.
By(p) ==
  /\ Building("select") /\ FreshName(p[1])
  /\ builder' = [builder EXCEPT !.by = With(@, p)]
  /\ Made("by", p) /\ out' = Nothing
  /\ UNCHANGED table

OrderBy(o) ==
  /\ Building("select")
  /\ builder' = [builder EXCEPT !.order = <<o>>]
  /\ Made("order_by", o) /\ out' = Nothing
  /\ UNCHANGED table

Set(p) ==
  /\ Building("update") /\ FreshName(p[1])
  /\ builder' = [builder EXCEPT !.sets = With(@, p)]
  /\ Made("set", p) /\ out' = Nothing
  /\ UNCHANGED table

\* Groups need projections: what the core answers without is its own business.
ExecuteSelect ==
  /\ builder.kind = "select"
  /\ DOMAIN builder.by # {} => DOMAIN builder.proj # {}
  /\ out' = select_execute(builder)
  /\ UNCHANGED <<table, builder, calls>>

ExecuteUpdate ==
  /\ builder.kind = "update"
  /\ out' = UpdateWith(update_dict(builder))
  /\ UNCHANGED <<table, builder, calls>>

\* A builder is a value: the program lets it go.
Drop ==
  /\ ~Idle
  /\ builder' = NoBuilder /\ calls' = <<>> /\ out' = Nothing
  /\ UNCHANGED table

\* head, tail and take of the table in hand.
Sliced(method, n, v) ==
  /\ Idle
  /\ calls' = <<<<method, n>>>> /\ out' = v
  /\ UNCHANGED <<table, builder>>

Counts == (-NRows(table))..NRows(table)

Next ==
  \/ BeginSelect \/ BeginUpdate
  \/ \E p \in Aggs : Agg(p)
  \/ \E e \in Preds : Filter(e)
  \/ \E p \in Keys : By(p)
  \/ \E o \in Orders : OrderBy(o)
  \/ \E p \in Sets : Set(p)
  \/ ExecuteSelect \/ ExecuteUpdate \/ Drop
  \/ \E n \in Counts \cup {MinI64} : Sliced("head", n, head(table, n))
  \/ \E n \in Counts \cup {MinI64} : Sliced("tail", n, tail(table, n))
  \/ \E n \in Counts : Sliced("take", n, take_rows(Whole(table), n))

Spec == Init /\ [][Next]_vars

-----------------------------------------------------------------------------
(* What the calls mean.                                                    *)

\* The value of an expression as it was written, filters and all.
Denotes(e, names) == EvalAst(compile(e), names, "eval")

Said(method) == {calls[i][2] : i \in {j \in DOMAIN calls : calls[j][1] = method}}
SaidNamed(method) ==
  [n \in {p[1] : p \in Said(method)} |-> (CHOOSE p \in Said(method) : p[1] = n)[2]]
SaidLast(method) ==
  calls[CHOOSE i \in DOMAIN calls : calls[i][1] = method
                                    /\ \A j \in DOMAIN calls : calls[j][1] = method => j <= i][2]

PredsFail == \E e \in Said("filter") : IsError(Denotes(e, table))

\* A row passes if every filter holds for it in the table as it is.
Passes(r) == \A e \in Said("filter") : Stretched(Denotes(e, table), NRows(table))[r] # 0

MeantSelect ==
  LET n   == NRows(table)
      ans == Answer(Rows(table, Ascending({r \in 1..n : Passes(r)}, n)),
                    SaidNamed("agg"), SaidNamed("by"), Denotes)
  IN  IF PredsFail THEN Error
      ELSE IF Said("order_by") = {} THEN ans
      ELSE Sorted(ans, SaidLast("order_by")[1], SaidLast("order_by")[2])

\* Every filter stands right under a sum or a count.
OnlyMasks(e) ==
  LET ok[x \in Exprs] ==
        \/ x.expr \in {"col", "lit"}
        \/ (Masks(x, "Sum") \/ Masks(x, "Count")) /\ \A i \in 1..2 : ok[x.args[1].args[i]]
        \/ /\ \/ x.expr = "op" /\ x.op # "Filter"
              \/ x.expr = "call" /\ x.name # "filter"
           /\ \A i \in DOMAIN x.args : ok[x.args[i]]
  IN  ok[e]

SaidExprs == Said("filter") \cup {p[2] : p \in Said("agg") \cup Said("by")}

-----------------------------------------------------------------------------
(* Properties.                                                             *)

(* query.rs:157-218.  A select never answers with another table than its   *)
(* calls mean, read with each expression as it was written, every filter a *)
(* condition of its own and the last sort the one that counts: the masks   *)
(* the rewrite puts for filters, the fold of the filters, the clauses of   *)
(* the dict, the sort around it and the single row of a summary together.  *)
SelectMeansCalls ==
  builder.kind = "select" /\ out.is = "table" /\ ~IsError(MeantSelect)
    => out.table = MeantSelect.table

(* query.rs:29-74.  A select whose filters all stand right under a sum or  *)
(* a count, at any depth, is one the core's query path can run.            *)
MaskedSumsAnswered ==
  (/\ builder.kind = "select" /\ out # Nothing
   /\ ~IsError(MeantSelect) /\ \A e \in SaidExprs : OnlyMasks(e))
  => ~IsError(out)

(* query.rs:249-276.  An update writes the cells of the rows that pass all *)
(* filters and no other cell.                                              *)
UpdateMeansCalls ==
  LET new == SaidNamed("set") IN
  (/\ builder.kind = "update" /\ out.is = "table" /\ ~PredsFail
   /\ \A c \in DOMAIN new : ~IsError(Denotes(new[c], table)))
  => \A c \in DOMAIN table \cup DOMAIN new, r \in 1..NRows(table) :
       out.table[c][r] =
         IF c \in DOMAIN new /\ Passes(r)
         THEN Stretched(Denotes(new[c], table), NRows(table))[r]
         ELSE IF c \in DOMAIN table THEN table[c][r] ELSE Null

(* query.rs:324-331 and 371-374.  The first n rows and the last of the     *)
(* rest make up the table, a count and its negation give the same rows,    *)
(* and the one count without a magnitude is refused by both.               *)
HeadTailSplit ==
  /\ \A n \in 0..NRows(table), c \in DOMAIN table :
       head(table, n).table[c] \o tail(table, NRows(table) - n).table[c] = table[c]
  /\ \A n \in Counts : head(table, n) = head(table, -n) /\ tail(table, n) = tail(table, -n)
  /\ IsError(head(table, MinI64)) /\ IsError(tail(table, MinI64))
=============================================================================
