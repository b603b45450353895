-------------------------------- MODULE Expr --------------------------------
(***************************************************************************)
(* The expressions of rayforce/src/expr.rs over the operations of ops.rs,  *)
(* and the ASTs they compile to: Values of the core, in which an operation *)
(* is a list headed by the name of a builtin.                              *)
(*                                                                         *)
(* Both are trees, taken to a bounded height so that they form a set; an   *)
(* operator that follows their recursion is a recursive function on it.    *)
(***************************************************************************)
EXTENDS Integers, Sequences

CONSTANTS
  Syms,         \* the names of columns, globals and functions
  MaxHeight     \* bound: how deep an expression nests

ASSUME HeightAssumption == MaxHeight \in Nat

\* The builtin an operation names; the operations a query's shape turns on.
BuiltinOf ==
  [GreaterThan |-> ">", LessThan |-> "<", Equals |-> "==", Add |-> "+", And |-> "and",
   Not |-> "not", If |-> "if", Filter |-> "filter", Sum |-> "sum", Count |-> "count",
   Max |-> "max"]

Operations == DOMAIN BuiltinOf
as_str(op) == BuiltinOf[op]
Heads == Syms \cup {as_str(op) : op \in Operations}

\* Expressions
Col(n)        == [expr |-> "col", name |-> n]
Lit(x)        == [expr |-> "lit", val |-> x]
Op(op, args)  == [expr |-> "op", op |-> op, args |-> args]
Call(n, args) == [expr |-> "call", name |-> n, args |-> args]

\* ASTs
NameRef(n)       == [ast |-> "name", name |-> n]
Atom(x)          == [ast |-> "atom", val |-> x]
ListOf(hd, args) == [ast |-> "list", head |-> hd, args |-> args]

-----------------------------------------------------------------------------
Leaves(kind) ==
  IF kind = "expr" THEN [expr : {"col"}, name : Syms] \cup [expr : {"lit"}, val : Int]
  ELSE [ast : {"name"}, name : Syms] \cup [ast : {"atom"}, val : Int]

Branches(kind, S) ==
  IF kind = "expr" THEN [expr : {"op"}, op : Operations, args : Seq(S)]
                        \cup [expr : {"call"}, name : Syms, args : Seq(S)]
  ELSE [ast : {"list"}, head : Heads, args : Seq(S)]

\* The trees of one kind whose branches nest at most h deep.
Nested(kind, h) ==
  LET upto[i \in Nat] ==
        IF i = 0 THEN Leaves(kind) ELSE upto[i - 1] \cup Branches(kind, upto[i - 1])
  IN  upto[h]

Exprs == Nested("expr", MaxHeight)
Asts  == Nested("ast", MaxHeight)

\* Expr::compile.
compile(e) ==
  LET ast[x \in Exprs] ==
        IF x.expr = "col" THEN NameRef(x.name)
        ELSE IF x.expr = "lit" THEN Atom(x.val)
        ELSE ListOf(IF x.expr = "op" THEN as_str(x.op) ELSE x.name,
                    [i \in DOMAIN x.args |-> ast[x.args[i]]])
  IN  ast[e]
=============================================================================
