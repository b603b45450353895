------------------------------- MODULE MCQuery -------------------------------
(* Query.tla with tables of three rows and expressions of every shape the  *)
(* rewrite tells apart.                                                    *)
EXTENDS Query

MCSyms == {"a", "b", "m", "s", "n", "d", "i", "f", "g", "y", "z", "k", "double"}

MCTables ==
  {[a |-> <<1, 2, 1>>, b |-> <<0, 1, 2>>], [a |-> <<2, 2, 0>>, b |-> <<1, 0, 1>>],
   [a |-> <<0, 1, 3>>, b |-> <<1, 1, 1>>]}

Big    == Op("GreaterThan", <<Col("a"), Lit(1)>>)
BIsOne == Op("Equals", <<Col("b"), Lit(1)>>)
BelowMax == Op("LessThan", <<Col("a"), Op("Max", <<Col("a")>>)>>)
Masked(red, e, mask) == Op(red, <<Op("Filter", <<e, mask>>)>>)

MCPreds ==
  {Big, Op("Not", <<BIsOne>>), BelowMax,
   Op("LessThan", <<Masked("Count", Col("b"), Big), Col("a")>>)}

MCAggs ==
  {<<"a", Col("a")>>,
   <<"m", Op("Max", <<Col("b")>>)>>,
   <<"s", Masked("Sum", Col("a"), BIsOne)>>,
   <<"n", Masked("Count", Col("a"), BelowMax)>>,
   <<"d", Call("double", <<Op("Add", <<Masked("Sum", Col("b"), Big), Masked("Count", Col("b"), Big)>>)>>)>>,
   <<"i", Masked("Sum", Col("a"), Op("LessThan", <<Col("a"), Masked("Sum", Col("b"), BIsOne)>>))>>,
   <<"f", Masked("Sum", Op("Filter", <<Col("a"), Big>>), BIsOne)>>,
   <<"g", Masked("Count", Op("Filter", <<Col("a"), Big>>), BIsOne)>>}

MCSets == {<<"a", Op("Add", <<Col("a"), Col("b")>>)>>, <<"y", Op("Add", <<Col("b"), Lit(1)>>)>>,
           <<"z", Masked("Sum", Col("b"), Big)>>}
MCKeys == {<<"b", Col("b")>>, <<"k", Big>>}
MCOrders == {<<<<"a">>, FALSE>>, <<<<"a">>, TRUE>>, <<<<"b", "a">>, FALSE>>}
MCMinI64 == -4
MCNull == -99
=============================================================================
