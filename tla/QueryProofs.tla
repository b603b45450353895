---------------------------- MODULE QueryProofs -----------------------------
(***************************************************************************)
(* Proofs about Query.tla: that what a builder executes is what its calls  *)
(* mean, for every table, every expression and every height of both.       *)
(*                                                                         *)
(* Expressions and ASTs are trees, and what is computed of them recursive  *)
(* functions.  Each is shown to exist, by recursion over the height of a   *)
(* tree, and what it does by induction over that height, which in turn is  *)
(* drawn from the pigeonhole principle: the library's induction theorems   *)
(* take an operator, and a set will do here.                               *)
(*                                                                         *)
(* With that, the rewrite of masked sums agrees with what was written      *)
(* (RewriteAgrees), the fold of the filters with all of them               *)
(* (FiltersFold), and the answer to the dict with the meaning of the       *)
(* builder's fields; the invariant says that these are what the calls say. *)
(***************************************************************************)
EXTENDS Query, FiniteSetTheorems, SequenceTheorems, TLAPS

-----------------------------------------------------------------------------
(* Induction.                                                              *)

(* Induction over the naturals, from the pigeonhole principle: were x the  *)
(* witness that T misses, n |-> n - 1 would map what T misses up to x into *)
(* that less x.                                                            *)
LEMMA NatSets ==
  ASSUME NEW T, 0 \in T, \A n \in Nat : n \in T => n + 1 \in T
  PROVE  Nat \subseteq T
<1> SUFFICES ASSUME NEW x \in Nat, x \notin T PROVE FALSE
  OBVIOUS
<1> DEFINE S == (0..x) \ T
           f == [n \in S |-> n - 1]
<1>1. IsFiniteSet(S)
  <2>1. IsFiniteSet(0..x)
    BY FS_Interval
  <2> QED
    BY <2>1, FS_Subset
<1>2. x \in S
  OBVIOUS
<1>3. \A n \in S : n - 1 \in S \ {x}
  <2> SUFFICES ASSUME NEW n \in S PROVE n - 1 \in S \ {x}
    OBVIOUS
  <2>1. n # 0 /\ n \in Nat /\ n <= x
    OBVIOUS
  <2>2. n - 1 \in 0..x /\ n - 1 # x /\ (n - 1) + 1 = n
    BY <2>1
  <2> QED
    BY <2>2
<1>4. f \in [S -> S \ {x}]
  BY <1>3
<1>5. IsFiniteSet(S \ {x}) /\ Cardinality(S \ {x}) < Cardinality(S)
  <2> HIDE DEF S
  <2>1. Cardinality(S \ {x}) = Cardinality(S) - 1 /\ IsFiniteSet(S \ {x})
    BY <1>1, <1>2, FS_RemoveElement
  <2>2. Cardinality(S) \in Nat
    BY <1>1, FS_CardinalityType
  <2> QED
    BY <2>1, <2>2
<1>6. \E p, q \in S : p # q /\ f[p] = f[q]
  <2> HIDE DEF S, f
  <2> QED
    BY <1>1, <1>4, <1>5, FS_PigeonHole
<1> QED
  BY <1>6

(* Of some elements one is the least high.                                 *)
LEMMA Lowest ==
  ASSUME NEW S, NEW ht \in [S -> Nat], NEW X \in SUBSET S, X # {}
  PROVE  \E x \in X : \A y \in X : ht[x] <= ht[y]
<1> SUFFICES ASSUME \A x \in X : \E y \in X : ht[y] < ht[x] PROVE FALSE
  OBVIOUS
<1> DEFINE T == {n \in Nat : \A x \in X : ht[x] >= n}
<1>1. 0 \in T
  OBVIOUS
<1>2. ASSUME NEW n \in Nat, n \in T PROVE n + 1 \in T
  <2> SUFFICES ASSUME NEW x \in X PROVE ht[x] >= n + 1
    OBVIOUS
  <2>1. PICK y \in X : ht[y] < ht[x]
    OBVIOUS
  <2>2. ht[y] >= n /\ ht[x] \in Nat /\ ht[y] \in Nat
    BY <1>2
  <2> QED
    BY <2>1, <2>2
<1>3. Nat \subseteq T
  <2> HIDE DEF T
  <2> QED
    BY <1>1, <1>2, NatSets
<1>4. PICK x \in X : TRUE
  OBVIOUS
<1>5. ht[x] + 1 \in T /\ ht[x] \in Nat
  BY <1>3
<1> QED
  BY <1>5

\* D[s][g], the value at s when g has the others, takes no notice of g but below s.
Descends(S, V, ht, D) ==
  /\ ht \in [S -> Nat] /\ D \in [S -> [[S -> V] -> V]]
  /\ \A s \in S, g, h \in [S -> V] :
       (\A y \in S : ht[y] < ht[s] => g[y] = h[y]) => D[s][g] = D[s][h]

(* A recursion that descends defines a function.                           *)
LEMMA Recursion ==
  ASSUME NEW S, NEW V, NEW ht, NEW D, V # {}, Descends(S, V, ht, D)
  PROVE  \E f \in [S -> V] : \A s \in S : f[s] = D[s][f]
<1>a. ht \in [S -> Nat]
  BY DEF Descends
<1>b. D \in [S -> [[S -> V] -> V]]
  BY DEF Descends
<1>0. \A s \in S, g, h \in [S -> V] :
        (\A y \in S : ht[y] < ht[s] => g[y] = h[y]) => D[s][g] = D[s][h]
  BY DEF Descends
<1> USE <1>a, <1>b
<1> DEFINE Upto(n, g) == \A s \in S : ht[s] < n => g[s] = D[s][g]
           T == {n \in Nat : \E g \in [S -> V] : Upto(n, g)}
<1>1. 0 \in T
  <2>1. PICK v \in V : TRUE
    OBVIOUS
  <2>2. [s \in S |-> v] \in [S -> V] /\ Upto(0, [s \in S |-> v])
    OBVIOUS
  <2> QED
    BY <2>2
<1>2. ASSUME NEW n \in Nat, n \in T PROVE n + 1 \in T
  <2>1. PICK g \in [S -> V] : Upto(n, g)
    BY <1>2
  <2> DEFINE h == [s \in S |-> IF ht[s] < n THEN g[s] ELSE D[s][g]]
  <2>2. h \in [S -> V]
    OBVIOUS
  <2>3. ASSUME NEW s \in S, ht[s] < n + 1 PROVE h[s] = D[s][h]
    <3>1. D[s][h] = D[s][g]
      <4>1. \A y \in S : ht[y] < ht[s] => h[y] = g[y]
        BY <2>3
      <4> HIDE DEF h
      <4> QED
        BY <1>0, <2>2, <4>1
    <3> QED
      BY <2>1, <2>3, <3>1
  <2>4. Upto(n + 1, h)
    BY <2>3
  <2> HIDE DEF Upto, h
  <2> QED
    BY <2>2, <2>4
<1>3. Nat \subseteq T
  <2> HIDE DEF T
  <2> QED
    BY <1>1, <1>2, NatSets
<1>4. ASSUME NEW m \in Nat, NEW n \in Nat, m <= n, NEW g \in [S -> V], NEW h \in [S -> V],
             Upto(m, g), Upto(n, h), NEW s \in S, ht[s] < m
      PROVE  g[s] = h[s]
  <2> DEFINE X == {y \in S : ht[y] < m /\ g[y] # h[y]}
  <2> SUFFICES ASSUME X # {} PROVE FALSE
    BY <1>4
  <2>1. PICK y \in X : \A z \in X : ht[y] <= ht[z]
    <3> X \in SUBSET S
      OBVIOUS
    <3> HIDE DEF X
    <3> QED
      BY Lowest
  <2>2. ASSUME NEW z \in S, ht[z] < ht[y] PROVE g[z] = h[z]
    <3>1. ht[z] \in Nat /\ ht[y] \in Nat /\ y \in S /\ ht[y] < m
      OBVIOUS
    <3>2. z \notin X
      BY <2>1, <2>2, <3>1
    <3>3. ht[z] < m
      BY <2>2, <3>1
    <3> QED
      BY <3>2, <3>3
  <2>3. D[y][g] = D[y][h]
    BY <1>0, <2>2
  <2> QED
    BY <1>4, <2>3
<1> DEFINE G == [n \in Nat |-> CHOOSE g \in [S -> V] : Upto(n, g)]
           f == [s \in S |-> G[ht[s] + 1][s]]
<1>5. \A n \in Nat : G[n] \in [S -> V] /\ Upto(n, G[n])
  <2> SUFFICES ASSUME NEW n \in Nat PROVE G[n] \in [S -> V] /\ Upto(n, G[n])
    OBVIOUS
  <2>1. \E g \in [S -> V] : Upto(n, g)
    BY <1>3
  <2> HIDE DEF Upto
  <2> QED
    BY <2>1
<1>6. f \in [S -> V]
  <2> HIDE DEF G
  <2> QED
    BY <1>5
<1>7. ASSUME NEW s \in S PROVE f[s] = D[s][f]
  <2>1. \A y \in S : ht[y] < ht[s] => G[ht[y] + 1][y] = G[ht[s] + 1][y]
    <3> HIDE DEF G, Upto
    <3> SUFFICES ASSUME NEW y \in S, ht[y] < ht[s] PROVE G[ht[y] + 1][y] = G[ht[s] + 1][y]
      OBVIOUS
    <3>1. ht[y] + 1 \in Nat /\ ht[s] + 1 \in Nat /\ ht[y] + 1 <= ht[s] + 1 /\ ht[y] < ht[y] + 1
      OBVIOUS
    <3> QED
      BY <1>4, <1>5, <3>1
  <2>2. D[s][f] = D[s][G[ht[s] + 1]]
    <3> HIDE DEF G
    <3>1. \A y \in S : ht[y] < ht[s] => f[y] = G[ht[s] + 1][y]
      BY <2>1
    <3>2. G[ht[s] + 1] \in [S -> V]
      BY <1>5
    <3> HIDE DEF f
    <3> QED
      BY <1>0, <1>6, <3>1, <3>2
  <2>3. G[ht[s] + 1][s] = D[s][G[ht[s] + 1]]
    <3> HIDE DEF G
    <3>1. ht[s] + 1 \in Nat /\ ht[s] < ht[s] + 1
      OBVIOUS
    <3> QED
      BY <1>5, <3>1
  <2>4. f[s] = G[ht[s] + 1][s]
    <3> HIDE DEF G
    <3> QED
      OBVIOUS
  <2> QED
    BY <2>2, <2>3, <2>4
<1> QED
  BY <1>6, <1>7

(* The levels of the trees of one kind.                                    *)
LEMMA LevelsExist ==
  ASSUME NEW kind
  PROVE  \E f : f = [i \in Nat |-> IF i = 0 THEN Leaves(kind) ELSE f[i - 1] \cup Branches(kind, f[i - 1])]
<1> DEFINE Step(i, g) == IF i = 0 THEN Leaves(kind) ELSE g[i - 1] \cup Branches(kind, g[i - 1])
           Is(g, n) == g = [i \in 0..n |-> Step(i, g)]
           T == {n \in Nat : \E g : Is(g, n)}
<1>1. 0 \in T
  <2>1. Is([i \in 0..0 |-> Leaves(kind)], 0)
    OBVIOUS
  <2> HIDE DEF Is
  <2> QED
    BY <2>1
<1>2. ASSUME NEW n \in Nat, n \in T PROVE n + 1 \in T
  <2>1. PICK g : Is(g, n)
    BY <1>2
  <2> DEFINE h == [i \in 0..(n + 1) |-> IF i <= n THEN g[i] ELSE Step(i, g)]
  <2>2. ASSUME NEW i \in 0..(n + 1) PROVE h[i] = Step(i, h)
    <3>1. CASE i = 0
      BY <2>1, <3>1
    <3>2. CASE i # 0
      <4>1. i - 1 \in 0..(n + 1) /\ i - 1 <= n /\ i \in Nat
        BY <3>2
      <4>2. h[i - 1] = g[i - 1]
        BY <4>1
      <4>3. h[i] = Step(i, g)
        <5>1. i <= n => g[i] = Step(i, g)
          <6>1. i <= n => i \in 0..n
            BY <4>1
          <6> HIDE DEF Step
          <6> QED
            BY <2>1, <6>1
        <5> HIDE DEF Step
        <5> QED
          BY <5>1
      <4> HIDE DEF h
      <4> QED
        BY <3>2, <4>2, <4>3
    <3> QED
      BY <3>1, <3>2
  <2>3. Is(h, n + 1)
    <3>1. h = [i \in 0..(n + 1) |-> h[i]]
      OBVIOUS
    <3> HIDE DEF h, Step
    <3> QED
      BY <2>2, <3>1
  <2> HIDE DEF Is, h
  <2> QED
    BY <2>3
<1>3. Nat \subseteq T
  <2> HIDE DEF T
  <2> QED
    BY <1>1, <1>2, NatSets
<1>4. ASSUME NEW g, NEW h, NEW m \in Nat, NEW n \in Nat, Is(g, m), Is(h, n)
      PROVE  \A i \in Nat : i <= m /\ i <= n => g[i] = h[i]
  <2> DEFINE U == {i \in Nat : i <= m /\ i <= n => g[i] = h[i]}
  <2>1. 0 \in U
    BY <1>4
  <2>2. ASSUME NEW i \in Nat, i \in U PROVE i + 1 \in U
    <3> SUFFICES ASSUME i + 1 <= m, i + 1 <= n PROVE g[i + 1] = h[i + 1]
      OBVIOUS
    <3>1. i + 1 \in 0..m /\ i + 1 \in 0..n /\ i + 1 # 0 /\ (i + 1) - 1 = i
      OBVIOUS
    <3>2. g[i] = h[i]
      BY <2>2
    <3>3. g[i + 1] = Step(i + 1, g) /\ h[i + 1] = Step(i + 1, h)
      <4> HIDE DEF Step
      <4> QED
        BY <1>4, <3>1
    <3> QED
      BY <3>1, <3>2, <3>3
  <2>3. Nat \subseteq U
    <3> HIDE DEF U
    <3> QED
      BY <2>1, <2>2, NatSets
  <2> QED
    BY <2>3
<1> DEFINE G(i) == CHOOSE g : Is(g, i)
           f == [i \in Nat |-> G(i)[i]]
<1>5. \A i \in Nat : Is(G(i), i)
  <2> SUFFICES ASSUME NEW i \in Nat PROVE Is(G(i), i)
    OBVIOUS
  <2>1. \E g : Is(g, i)
    BY <1>3
  <2> HIDE DEF Is
  <2> QED
    BY <2>1
<1>6. ASSUME NEW i \in Nat PROVE f[i] = Step(i, f)
  <2>1. G(i)[i] = Step(i, G(i))
    <3>1. Is(G(i), i)
      BY <1>5
    <3> HIDE DEF G, Step
    <3> QED
      BY <3>1
  <2>2. CASE i = 0
    BY <2>1, <2>2
  <2>3. CASE i # 0
    <3>1. i - 1 \in Nat /\ i - 1 <= i /\ i - 1 <= i - 1
      BY <2>3
    <3>2. G(i - 1)[i - 1] = G(i)[i - 1]
      <4>1. Is(G(i - 1), i - 1) /\ Is(G(i), i)
        BY <1>5, <3>1
      <4> HIDE DEF G, Is
      <4> QED
        BY <1>4, <3>1, <4>1
    <3>3. f[i - 1] = G(i)[i - 1]
      <4> HIDE DEF G
      <4> QED
        BY <3>1, <3>2
    <3> HIDE DEF G
    <3> QED
      BY <2>1, <2>3, <3>3
  <2> QED
    BY <2>2, <2>3
<1>7. f = [i \in Nat |-> Step(i, f)]
  <2>1. f = [i \in Nat |-> f[i]]
    OBVIOUS
  <2> HIDE DEF f, Step
  <2> QED
    BY <1>6, <2>1
<1> HIDE DEF f
<1> QED
  BY <1>7

\* The levels, one by one.
LEMMA Levels ==
  ASSUME NEW kind
  PROVE  /\ Nested(kind, 0) = Leaves(kind)
         /\ \A h \in Nat : Nested(kind, h + 1) = Nested(kind, h) \cup Branches(kind, Nested(kind, h))
<1> DEFINE Is(f) == f = [i \in Nat |-> IF i = 0 THEN Leaves(kind)
                                       ELSE f[i - 1] \cup Branches(kind, f[i - 1])]
           F == CHOOSE f : Is(f)
<1>2. \A h : Nested(kind, h) = F[h]
  BY DEF Nested
<1>1. F = [i \in Nat |-> IF i = 0 THEN Leaves(kind) ELSE F[i - 1] \cup Branches(kind, F[i - 1])]
  <2>1. \E f : Is(f)
    BY LevelsExist
  <2>2. Is(F)
    <3> HIDE DEF Is
    <3> QED
      BY <2>1
  <2> QED
    BY <2>2
<1> HIDE DEF F
<1>3. F[0] = Leaves(kind)
  BY <1>1
<1>4. ASSUME NEW h \in Nat PROVE F[h + 1] = F[h] \cup Branches(kind, F[h])
  <2>1. h + 1 \in Nat /\ h + 1 # 0 /\ (h + 1) - 1 = h
    OBVIOUS
  <2>2. F[h + 1] = IF h + 1 = 0 THEN Leaves(kind) ELSE F[(h + 1) - 1] \cup Branches(kind, F[(h + 1) - 1])
    BY <1>1, <2>1
  <2> QED
    BY <2>1, <2>2
<1> QED
  BY <1>2, <1>3, <1>4

\* A level has the trees of those below it.
LEMMA LevelsGrow ==
  ASSUME NEW kind, NEW h \in Nat, NEW j \in Nat, j <= h
  PROVE  Nested(kind, j) \subseteq Nested(kind, h)
<1> DEFINE T == {n \in Nat : Nested(kind, j) \subseteq Nested(kind, j + n)}
<1>1. 0 \in T
  OBVIOUS
<1>2. ASSUME NEW n \in Nat, n \in T PROVE n + 1 \in T
  <2>1. j + (n + 1) = (j + n) + 1 /\ j + n \in Nat
    OBVIOUS
  <2>2. Nested(kind, j + n) \subseteq Nested(kind, j + (n + 1))
    BY <2>1, Levels
  <2> QED
    BY <1>2, <2>2
<1>3. Nat \subseteq T
  <2> HIDE DEF T
  <2> QED
    BY <1>1, <1>2, NatSets
<1>4. h - j \in Nat /\ j + (h - j) = h
  OBVIOUS
<1> QED
  BY <1>3, <1>4

Trees(kind) == Nested(kind, MaxHeight)

\* How high a tree is: the least level it is on.
Height(kind) ==
  [x \in Trees(kind) |->
     CHOOSE h \in Nat : x \in Nested(kind, h) /\ \A j \in Nat : x \in Nested(kind, j) => h <= j]

\* Every tree has a height, and is on no level below it.
LEMMA HeightIsLeast ==
  ASSUME NEW kind
  PROVE  /\ Height(kind) \in [Trees(kind) -> Nat]
         /\ \A x \in Trees(kind) :
              /\ x \in Nested(kind, Height(kind)[x])
              /\ Height(kind)[x] <= MaxHeight
              /\ \A j \in Nat : x \in Nested(kind, j) => Height(kind)[x] <= j
<1> DEFINE Least(x, h) == x \in Nested(kind, h) /\ \A j \in Nat : x \in Nested(kind, j) => h <= j
<1>1. \A x \in Trees(kind) : \E h \in Nat : Least(x, h)
  <2> SUFFICES ASSUME NEW x \in Trees(kind) PROVE \E h \in Nat : Least(x, h)
    OBVIOUS
  <2> DEFINE X == {h \in Nat : x \in Nested(kind, h)}
             id == [h \in Nat |-> h]
  <2>1. X \in SUBSET Nat /\ X # {} /\ id \in [Nat -> Nat]
    BY HeightAssumption DEF Trees
  <2>2. PICK h \in X : \A j \in X : id[h] <= id[j]
    <3> HIDE DEF X, id
    <3> QED
      BY <2>1, Lowest
  <2> QED
    BY <2>2
<1>2. \A x \in Trees(kind) : Height(kind)[x] = CHOOSE h \in Nat : Least(x, h)
  BY DEF Height
<1>3. \A x \in Trees(kind) : Height(kind)[x] \in Nat /\ Least(x, Height(kind)[x])
  <2> HIDE DEF Least
  <2> QED
    BY <1>1, <1>2
<1>4. Height(kind) = [x \in Trees(kind) |-> Height(kind)[x]]
  BY DEF Height
<1> QED
  BY <1>3, <1>4, HeightAssumption DEF Trees

\* A tree is a leaf, or a branch over trees of a lower level.
LEMMA Tops ==
  ASSUME NEW kind, NEW h \in Nat, NEW x \in Nested(kind, h)
  PROVE  \/ x \in Leaves(kind)
         \/ \E j \in Nat : j < h /\ x \in Branches(kind, Nested(kind, j))
<1> DEFINE Top(y, n) == y \in Leaves(kind) \/ \E j \in Nat : j < n /\ y \in Branches(kind, Nested(kind, j))
           T == {n \in Nat : \A y \in Nested(kind, n) : Top(y, n)}
<1>1. 0 \in T
  BY Levels
<1>2. ASSUME NEW n \in Nat, n \in T PROVE n + 1 \in T
  <2> SUFFICES ASSUME NEW y \in Nested(kind, n + 1) PROVE Top(y, n + 1)
    OBVIOUS
  <2>1. CASE y \in Nested(kind, n)
    BY <1>2, <2>1
  <2>2. CASE y \in Branches(kind, Nested(kind, n))
    <3> n < n + 1
      OBVIOUS
    <3> QED
      BY <2>2
  <2> QED
    BY <2>1, <2>2, Levels
<1>3. Nat \subseteq T
  <2> HIDE DEF T
  <2> QED
    BY <1>1, <1>2, NatSets
<1> QED
  BY <1>3

\* The branches of a tree are trees, and lower.
LEMMA Lower ==
  ASSUME NEW kind, NEW j \in Nat, NEW n \in Nat, j < n, n <= MaxHeight,
         NEW args \in Seq(Nested(kind, j))
  PROVE  /\ args \in Seq(Trees(kind))
         /\ \A i \in DOMAIN args : args[i] \in Trees(kind) /\ Height(kind)[args[i]] < n
<1>1. Nested(kind, j) \subseteq Trees(kind)
  BY LevelsGrow, HeightAssumption DEF Trees
<1>2. \A i \in DOMAIN args : args[i] \in Nested(kind, j)
  OBVIOUS
<1>3. \A i \in DOMAIN args : Height(kind)[args[i]] \in Nat /\ Height(kind)[args[i]] <= j
  BY <1>1, <1>2, HeightIsLeast
<1> QED
  BY <1>1, <1>2, <1>3

\* An expression is one of the four kinds of expr.rs, over lower expressions.
LEMMA ExprShape ==
  ASSUME NEW x \in Exprs
  PROVE  /\ x.expr \in {"col", "lit", "op", "call"}
         /\ x.expr = "col" => x.name \in Syms /\ x = Col(x.name)
         /\ x.expr = "lit" => x.val \in Int /\ x = Lit(x.val)
         /\ x.expr = "op" => x.op \in Operations /\ x = Op(x.op, x.args)
         /\ x.expr = "call" => x.name \in Syms /\ x = Call(x.name, x.args)
         /\ x.expr \in {"op", "call"} =>
              /\ x.args \in Seq(Exprs)
              /\ \A i \in DOMAIN x.args :
                   x.args[i] \in Exprs /\ Height("expr")[x.args[i]] < Height("expr")[x]
<1> DEFINE n == Height("expr")[x]
<1>1. n \in Nat /\ n <= MaxHeight /\ x \in Nested("expr", n)
  BY HeightIsLeast DEF Trees, Exprs
<1>2. CASE x \in Leaves("expr")
  BY <1>2 DEF Leaves, Col, Lit
<1>3. CASE x \notin Leaves("expr")
  <2> HIDE DEF n
  <2>1. PICK j \in Nat : j < n /\ x \in Branches("expr", Nested("expr", j))
    BY <1>1, <1>3, Tops
  <2>2. /\ x.args \in Seq(Nested("expr", j))
        /\ \/ x.expr = "op" /\ x.op \in Operations /\ x = Op(x.op, x.args)
           \/ x.expr = "call" /\ x.name \in Syms /\ x = Call(x.name, x.args)
    BY <2>1 DEF Branches, Op, Call
  <2>3. /\ x.args \in Seq(Exprs)
        /\ \A i \in DOMAIN x.args : x.args[i] \in Exprs /\ Height("expr")[x.args[i]] < n
    BY <1>1, <2>1, <2>2, Lower DEF Trees, Exprs
  <2> QED
    BY <2>2, <2>3 DEF n
<1> QED
  BY <1>2, <1>3

\* An AST is a name, an atom or a list, over lower ASTs.
LEMMA AstShape ==
  ASSUME NEW x \in Asts
  PROVE  /\ x.ast \in {"name", "atom", "list"}
         /\ x.ast = "name" => x.name \in Syms /\ x = NameRef(x.name)
         /\ x.ast = "atom" => x.val \in Int /\ x = Atom(x.val)
         /\ x.ast = "list" =>
              /\ x.head \in Heads /\ x = ListOf(x.head, x.args)
              /\ x.args \in Seq(Asts)
              /\ \A i \in DOMAIN x.args :
                   x.args[i] \in Asts /\ Height("ast")[x.args[i]] < Height("ast")[x]
<1> DEFINE n == Height("ast")[x]
<1>1. n \in Nat /\ n <= MaxHeight /\ x \in Nested("ast", n)
  BY HeightIsLeast DEF Trees, Asts
<1>2. CASE x \in Leaves("ast")
  BY <1>2 DEF Leaves, NameRef, Atom
<1>3. CASE x \notin Leaves("ast")
  <2> HIDE DEF n
  <2>1. PICK j \in Nat : j < n /\ x \in Branches("ast", Nested("ast", j))
    BY <1>1, <1>3, Tops
  <2>2. /\ x.args \in Seq(Nested("ast", j))
        /\ x.ast = "list" /\ x.head \in Heads /\ x = ListOf(x.head, x.args)
    BY <2>1 DEF Branches, ListOf
  <2>3. /\ x.args \in Seq(Asts)
        /\ \A i \in DOMAIN x.args : x.args[i] \in Asts /\ Height("ast")[x.args[i]] < n
    BY <1>1, <2>1, <2>2, Lower DEF Trees, Asts
  <2> QED
    BY <2>2, <2>3 DEF n
<1> QED
  BY <1>2, <1>3

\* A tree is on every level from its height up.
LEMMA HeightGives ==
  ASSUME NEW kind, NEW x \in Trees(kind), NEW h \in Nat, Height(kind)[x] <= h
  PROVE  x \in Nested(kind, h)
<1>1. x \in Nested(kind, Height(kind)[x]) /\ Height(kind)[x] \in Nat
  BY HeightIsLeast
<1> QED
  BY <1>1, LevelsGrow

\* A branch over trees that are lower than h is at most that high.
LEMMA Higher ==
  ASSUME NEW kind, NEW h \in Nat, NEW args \in Seq(Trees(kind)),
         \A i \in DOMAIN args : Height(kind)[args[i]] < h
  PROVE  /\ h > 0 => args \in Seq(Nested(kind, h - 1))
         /\ h = 0 => args = <<>>
<1>1. \A i \in DOMAIN args : args[i] \in Trees(kind) /\ Height(kind)[args[i]] \in Nat
  BY HeightIsLeast
<1>2. CASE h > 0
  <2>1. h - 1 \in Nat /\ \A i \in DOMAIN args : Height(kind)[args[i]] <= h - 1
    BY <1>1, <1>2
  <2>2. \A i \in DOMAIN args : args[i] \in Nested(kind, h - 1)
    BY <1>1, <2>1, HeightGives
  <2> QED
    BY <1>2, <2>2
<1>3. CASE h = 0
  BY <1>1, <1>3
<1> QED
  BY <1>2, <1>3

-----------------------------------------------------------------------------
(* compile.                                                                *)

\* Operations are lowered to heads of lists.
LEMMA Builtins ==
  ASSUME NEW op \in Operations
  PROVE  as_str(op) \in Heads
BY DEF Heads

AstOf(ast, x) ==
  IF x.expr = "col" THEN NameRef(x.name)
  ELSE IF x.expr = "lit" THEN Atom(x.val)
  ELSE ListOf(IF x.expr = "op" THEN as_str(x.op) ELSE x.name,
              [i \in DOMAIN x.args |-> ast[x.args[i]]])

\* What compiles the branches to trees as high compiles the whole to one.
LEMMA AstIsAsHigh ==
  ASSUME NEW f, NEW x \in Exprs,
         \A y \in Exprs : Height("expr")[y] < Height("expr")[x]
                            => f[y] \in Asts /\ Height("ast")[f[y]] <= Height("expr")[y]
  PROVE  AstOf(f, x) \in Asts /\ Height("ast")[AstOf(f, x)] <= Height("expr")[x]
<1> DEFINE n == Height("expr")[x]
<1>1. n \in Nat /\ n <= MaxHeight /\ MaxHeight \in Nat
  BY HeightIsLeast, HeightAssumption DEF Trees, Exprs
<1>2. SUFFICES AstOf(f, x) \in Nested("ast", n)
  <2>1. Nested("ast", n) \subseteq Trees("ast")
    BY <1>1, LevelsGrow DEF Trees
  <2> QED
    BY <1>1, <1>2, <2>1, HeightIsLeast DEF Trees, Asts
<1>3. CASE x.expr \in {"col", "lit"}
  <2>1. AstOf(f, x) \in Leaves("ast")
    BY <1>3, ExprShape DEF AstOf, Leaves, NameRef, Atom
  <2> QED
    BY <1>1, <2>1, Levels, LevelsGrow
<1>4. CASE x.expr \in {"op", "call"}
  <2> DEFINE args == [i \in DOMAIN x.args |-> f[x.args[i]]]
             hd == IF x.expr = "op" THEN as_str(x.op) ELSE x.name
  <2>1. AstOf(f, x) = ListOf(hd, args)
    BY <1>4 DEF AstOf
  <2>2. hd \in Heads
    BY <1>4, ExprShape, Builtins DEF Heads
  <2>3. x.args \in Seq(Exprs) /\ \A i \in DOMAIN x.args :
          x.args[i] \in Exprs /\ Height("expr")[x.args[i]] < n
    BY <1>4, ExprShape
  <2>4. args \in Seq(Trees("ast")) /\ \A i \in DOMAIN args : Height("ast")[args[i]] < n
    <3>1. ASSUME NEW i \in DOMAIN x.args
          PROVE  args[i] \in Asts /\ Height("ast")[args[i]] < n
      <4>1. x.args[i] \in Exprs /\ Height("expr")[x.args[i]] < n
        BY <2>3
      <4>2. f[x.args[i]] \in Asts /\ Height("ast")[f[x.args[i]]] <= Height("expr")[x.args[i]]
        BY <4>1
      <4>3. Height("ast")[f[x.args[i]]] \in Nat /\ Height("expr")[x.args[i]] \in Nat
        BY <4>1, <4>2, HeightIsLeast DEF Trees, Asts, Exprs
      <4> HIDE DEF n
      <4> QED
        BY <4>1, <4>2, <4>3, <1>1
    <3>2. args \in Seq(Asts)
      BY <2>3, <3>1
    <3> QED
      BY <3>1, <3>2 DEF Trees, Asts
  <2>6. (n > 0 => args \in Seq(Nested("ast", n - 1))) /\ (n = 0 => args = <<>>)
    <3> HIDE DEF args, n
    <3> QED
      BY <1>1, <2>4, Higher
  <2> HIDE DEF n
  <2>7. CASE n > 0
    <3>1. ListOf(hd, args) \in Branches("ast", Nested("ast", n - 1))
      <4> HIDE DEF args, hd
      <4> QED
        BY <2>2, <2>6, <2>7 DEF Branches, ListOf
    <3>2. Nested("ast", (n - 1) + 1) = Nested("ast", n - 1) \cup Branches("ast", Nested("ast", n - 1))
      BY <1>1, <2>7, Levels
    <3>3. (n - 1) + 1 = n
      BY <1>1
    <3> HIDE DEF args, hd
    <3> QED
      BY <2>1, <3>1, <3>2, <3>3
  <2>8. CASE n = 0
    <3>1. x \in Leaves("expr")
      BY <2>8, HeightIsLeast, Levels DEF n, Trees, Exprs
    <3> QED
      BY <1>4, <3>1 DEF Leaves
  <2> QED
    BY <1>1, <2>7, <2>8
<1> QED
  BY <1>3, <1>4, ExprShape

\* What an expression compiles to depends on its branches alone.
LEMMA AstIsLocal ==
  ASSUME NEW g, NEW h, NEW x \in Exprs,
         \A y \in Exprs : Height("expr")[y] < Height("expr")[x] => g[y] = h[y]
  PROVE  AstOf(g, x) = AstOf(h, x)
<1>1. CASE x.expr \in {"col", "lit"}
  BY <1>1 DEF AstOf
<1>2. CASE x.expr \in {"op", "call"}
  <2>1. \A i \in DOMAIN x.args : g[x.args[i]] = h[x.args[i]]
    BY <1>2, ExprShape
  <2>2. [i \in DOMAIN x.args |-> g[x.args[i]]] = [i \in DOMAIN x.args |-> h[x.args[i]]]
    BY <2>1
  <2> QED
    BY <1>2, <2>2 DEF AstOf
<1> QED
  BY <1>1, <1>2, ExprShape

\* A recursion like that of compile gives ASTs.
LEMMA AstsAreAsts ==
  ASSUME NEW f, \A x \in Exprs : AstOf(f, x) \in Asts => f[x] = AstOf(f, x)
  PROVE  \A x \in Exprs : /\ f[x] = AstOf(f, x)
                          /\ f[x] \in Asts /\ Height("ast")[f[x]] <= Height("expr")[x]
<1> DEFINE Good(x) == f[x] = AstOf(f, x) /\ f[x] \in Asts /\ Height("ast")[f[x]] <= Height("expr")[x]
           X == {x \in Exprs : ~Good(x)}
<1> SUFFICES ASSUME X # {} PROVE FALSE
  OBVIOUS
<1>1. PICK x \in X : \A y \in X : Height("expr")[x] <= Height("expr")[y]
  <2>1. X \in SUBSET Exprs /\ Height("expr") \in [Exprs -> Nat]
    BY HeightIsLeast DEF Trees, Exprs
  <2> HIDE DEF X
  <2> QED
    BY <2>1, Lowest
<1>2. x \in Exprs /\ \A y \in Exprs : Height("expr")[y] < Height("expr")[x] => Good(y)
  <2>1. \A y \in Exprs : Height("expr")[y] \in Nat
    BY HeightIsLeast DEF Trees, Exprs
  <2> HIDE DEF Good
  <2> QED
    BY <1>1, <2>1
<1>3. AstOf(f, x) \in Asts /\ Height("ast")[AstOf(f, x)] <= Height("expr")[x]
  BY <1>2, AstIsAsHigh
<1>4. Good(x)
  BY <1>2, <1>3
<1> QED
  BY <1>4

\* The recursion of compile defines a function.
LEMMA AstsExist ==
  \E f : f = [x \in Exprs |-> AstOf(f, x)]
<1> DEFINE D == [x \in Exprs |-> [g \in [Exprs -> Asts] |->
                   IF AstOf(g, x) \in Asts THEN AstOf(g, x) ELSE CHOOSE a \in Asts : TRUE]]
<1>1. Asts # {}
  <2>1. Atom(0) \in Nested("ast", 0)
    BY Levels DEF Leaves, Atom
  <2> QED
    BY <2>1, LevelsGrow, HeightAssumption DEF Asts
<1>2. D \in [Exprs -> [[Exprs -> Asts] -> Asts]]
  BY <1>1
<1>3. ASSUME NEW x \in Exprs, NEW g \in [Exprs -> Asts], NEW h \in [Exprs -> Asts],
             \A y \in Exprs : Height("expr")[y] < Height("expr")[x] => g[y] = h[y]
      PROVE  D[x][g] = D[x][h]
  BY <1>3, AstIsLocal
<1>4. Descends(Exprs, Asts, Height("expr"), D)
  <2>1. Height("expr") \in [Exprs -> Nat]
    BY HeightIsLeast DEF Trees, Exprs
  <2> HIDE DEF D
  <2> QED
    BY <1>2, <1>3, <2>1 DEF Descends
<1>5. PICK f \in [Exprs -> Asts] : \A x \in Exprs : f[x] = D[x][f]
  <2> HIDE DEF D
  <2> QED
    BY <1>1, <1>4, Recursion
<1>6. \A x \in Exprs : AstOf(f, x) \in Asts => f[x] = AstOf(f, x)
  BY <1>5
<1>7. \A x \in Exprs : f[x] = AstOf(f, x)
  BY <1>6, AstsAreAsts
<1>8. f = [x \in Exprs |-> AstOf(f, x)]
  BY <1>7
<1> QED
  BY <1>8

(* What an expression compiles to, and that it is no deeper.               *)
LEMMA Compiles ==
  ASSUME NEW x \in Exprs
  PROVE  /\ x.expr = "col"  => compile(x) = NameRef(x.name)
         /\ x.expr = "lit"  => compile(x) = Atom(x.val)
         /\ x.expr \in {"op", "call"} =>
              compile(x) = ListOf(IF x.expr = "op" THEN as_str(x.op) ELSE x.name,
                                  [i \in DOMAIN x.args |-> compile(x.args[i])])
         /\ compile(x) \in Asts
<1> DEFINE Is(f) == f = [y \in Exprs |-> AstOf(f, y)]
           F == CHOOSE f : Is(f)
<1>1. \A y : compile(y) = F[y]
  BY DEF compile, AstOf
<1>2. Is(F)
  <2> HIDE DEF Is
  <2> QED
    BY AstsExist DEF Is
<1> HIDE DEF F
<1>3. \A y \in Exprs : F[y] = AstOf(F, y) /\ F[y] \in Asts
  BY <1>2, AstsAreAsts
<1>4. x.expr \in {"op", "call"} =>
        [i \in DOMAIN x.args |-> F[x.args[i]]] = [i \in DOMAIN x.args |-> compile(x.args[i])]
  BY <1>1
<1> QED
  BY <1>1, <1>3, <1>4 DEF AstOf

\* What holds of an element if it holds of all that are lower.
Climbs(S, ht, P) ==
  /\ ht \in [S -> Nat]
  /\ \A s \in S : (\A y \in S : ht[y] < ht[s] => y \in P) => s \in P

\* Induction over the height of a tree.
LEMMA Climbing ==
  ASSUME NEW S, NEW ht, NEW P, Climbs(S, ht, P)
  PROVE  S \subseteq P
<1>1. ht \in [S -> Nat] /\ \A s \in S : (\A y \in S : ht[y] < ht[s] => y \in P) => s \in P
  BY DEF Climbs
<1> DEFINE X == S \ P
<1> SUFFICES ASSUME X # {} PROVE FALSE
  OBVIOUS
<1>2. PICK x \in X : \A y \in X : ht[x] <= ht[y]
  BY <1>1, X \in SUBSET S, Lowest
<1>3. \A y \in S : ht[y] < ht[x] => y \in P
  BY <1>1, <1>2
<1> QED
  BY <1>1, <1>3

\* The heights of expressions.
LEMMA ExprHeights ==
  /\ Height("expr") \in [Exprs -> Nat]
  /\ \A x \in Exprs : /\ Height("expr")[x] \in Nat /\ Height("expr")[x] <= MaxHeight
                      /\ x \in Nested("expr", Height("expr")[x])
  /\ \A h \in Nat : h <= MaxHeight =>
       \A x \in Nested("expr", h) : x \in Exprs /\ Height("expr")[x] <= h
BY HeightIsLeast, LevelsGrow, HeightAssumption DEF Trees, Exprs

\* An operation is one level above its arguments.
LEMMA OpLevel ==
  ASSUME NEW h \in Nat, NEW op \in Operations, NEW args \in Seq(Nested("expr", h))
  PROVE  Op(op, args) \in Nested("expr", h + 1)
<1>1. Op(op, args) \in Branches("expr", Nested("expr", h))
  BY DEF Op, Branches
<1> QED
  BY <1>1, Levels

\* A call is one level above its arguments.
LEMMA CallLevel ==
  ASSUME NEW h \in Nat, NEW n \in Syms, NEW args \in Seq(Nested("expr", h))
  PROVE  Call(n, args) \in Nested("expr", h + 1)
<1>1. Call(n, args) \in Branches("expr", Nested("expr", h))
  BY DEF Call, Branches
<1> QED
  BY <1>1, Levels

\* Literals are on every level.
LEMMA LitLevel ==
  ASSUME NEW h \in Nat, NEW n \in Int
  PROVE  Lit(n) \in Nested("expr", h)
<1>1. Lit(n) \in Nested("expr", 0)
  BY Levels DEF Leaves, Lit
<1> QED
  BY <1>1, LevelsGrow

-----------------------------------------------------------------------------
(* dag_rewrite.                                                            *)

\* A masked reduction, and that the branches of its filter are two levels lower.
LEMMA MaskShape ==
  ASSUME NEW x \in Exprs, NEW op, Masks(x, op)
  PROVE  /\ x.expr = "op" /\ x.op = op /\ x = Op(op, <<x.args[1]>>)
         /\ x.args[1] = Op("Filter", <<x.args[1].args[1], x.args[1].args[2]>>)
         /\ x.args[1] \in Exprs /\ Height("expr")[x.args[1]] < Height("expr")[x]
         /\ \A i \in 1..2 : /\ x.args[1].args[i] \in Exprs
                            /\ Height("expr")[x.args[1].args[i]] < Height("expr")[x.args[1]]
                            /\ Height("expr")[x.args[1].args[i]] < Height("expr")[x]
                            /\ Height("expr")[x.args[1].args[i]] <= Height("expr")[x] - 2
         /\ Height("expr")[x] >= 2
<1> DEFINE f == x.args[1]
<1>1. x.expr = "op" /\ x.op = op /\ Len(x.args) = 1 /\ f.expr = "op" /\ f.op = "Filter" /\ Len(f.args) = 2
  BY DEF Masks, IsOp
<1>2. x.args \in Seq(Exprs) /\ x = Op(op, x.args) /\ f \in Exprs /\ Height("expr")[f] < Height("expr")[x]
  BY <1>1, ExprShape
<1>3. /\ f.args \in Seq(Exprs) /\ f = Op("Filter", f.args)
      /\ \A i \in 1..2 : f.args[i] \in Exprs /\ Height("expr")[f.args[i]] < Height("expr")[f]
  BY <1>1, <1>2, ExprShape
<1>4. x.args = <<f>>
  BY <1>1, <1>2
<1>5. f.args = <<f.args[1], f.args[2]>>
  BY <1>1, <1>3
<1>6. Height("expr")[x] \in Nat /\ Height("expr")[f] \in Nat /\ \A i \in 1..2 : Height("expr")[f.args[i]] \in Nat
  BY <1>2, <1>3, ExprHeights
<1>7. Height("expr")[f.args[1]] < Height("expr")[f]
  BY <1>3
<1> HIDE DEF f
<1>8. Height("expr")[x] >= 2 /\ \A i \in 1..2 : Height("expr")[f.args[i]] <= Height("expr")[x] - 2
  BY <1>2, <1>3, <1>6, <1>7
<1>9. f = Op("Filter", <<f.args[1], f.args[2]>>) /\ x = Op(op, <<f>>)
  BY <1>2, <1>3, <1>4, <1>5
<1>10. \A i \in 1..2 : Height("expr")[f.args[i]] < Height("expr")[x]
  BY <1>2, <1>3, <1>6
<1> QED
  BY <1>1, <1>2, <1>3, <1>8, <1>9, <1>10 DEF f

NewOf(new, x) ==
  IF Masks(x, "Sum")
  THEN Op("Sum", <<Op("If", <<new[x.args[1].args[2]], new[x.args[1].args[1]], Lit(0)>>)>>)
  ELSE IF Masks(x, "Count")
  THEN Op("Sum", <<Op("If", <<new[x.args[1].args[2]], Lit(1), Lit(0)>>)>>)
  ELSE IF x.expr \in {"op", "call"}
       THEN [x EXCEPT !.args = [i \in DOMAIN @ |-> new[@[i]]]]
       ELSE x

\* What an expression is rewritten to depends on its branches alone.
LEMMA NewIsLocal ==
  ASSUME NEW g, NEW h, NEW x \in Exprs,
         \A y \in Exprs : Height("expr")[y] < Height("expr")[x] => g[y] = h[y]
  PROVE  NewOf(g, x) = NewOf(h, x)
<1>1. CASE Masks(x, "Sum") \/ Masks(x, "Count")
  <2>1. \A i \in 1..2 : g[x.args[1].args[i]] = h[x.args[1].args[i]]
    BY <1>1, MaskShape
  <2> QED
    BY <1>1, <2>1 DEF NewOf
<1>2. CASE ~Masks(x, "Sum") /\ ~Masks(x, "Count") /\ x.expr \in {"op", "call"}
  <2>1. \A i \in DOMAIN x.args : g[x.args[i]] = h[x.args[i]]
    BY <1>2, ExprShape
  <2>2. [i \in DOMAIN x.args |-> g[x.args[i]]] = [i \in DOMAIN x.args |-> h[x.args[i]]]
    BY <2>1
  <2> QED
    BY <1>2, <2>2 DEF NewOf
<1>3. CASE ~Masks(x, "Sum") /\ ~Masks(x, "Count") /\ x.expr \notin {"op", "call"}
  BY <1>3 DEF NewOf
<1> QED
  BY <1>1, <1>2, <1>3

\* What rewrites the branches to expressions as high rewrites the whole to one: a
\* filter goes and an if comes in its place.
LEMMA NewIsAsHigh ==
  ASSUME NEW f, NEW x \in Exprs,
         \A y \in Exprs : Height("expr")[y] < Height("expr")[x]
                            => f[y] \in Exprs /\ Height("expr")[f[y]] <= Height("expr")[y]
  PROVE  NewOf(f, x) \in Exprs /\ Height("expr")[NewOf(f, x)] <= Height("expr")[x]
<1> DEFINE n == Height("expr")[x]
<1>1. n \in Nat /\ n <= MaxHeight
  BY ExprHeights
<1>2. SUFFICES NewOf(f, x) \in Nested("expr", n)
  BY <1>1, ExprHeights
<1>3. CASE Masks(x, "Sum") \/ Masks(x, "Count")
  <2> DEFINE c == x.args[1].args[1]
             m == x.args[1].args[2]
  <2>1. /\ n >= 2 /\ \A y \in {c, m} : y \in Exprs /\ Height("expr")[y] < n /\ Height("expr")[y] <= n - 2
    <3>1. /\ n >= 2 /\ \A i \in 1..2 :
               /\ x.args[1].args[i] \in Exprs
               /\ Height("expr")[x.args[1].args[i]] < n
               /\ Height("expr")[x.args[1].args[i]] <= n - 2
      BY <1>3, MaskShape
    <3> QED
      BY <3>1
  <2> HIDE DEF n, c, m
  <2>2. ASSUME NEW y \in {c, m} PROVE f[y] \in Nested("expr", n - 2)
    <3>1. f[y] \in Exprs /\ Height("expr")[f[y]] <= Height("expr")[y]
      BY <2>1 DEF n
    <3>2. Height("expr")[f[y]] <= n - 2 /\ n - 2 \in Nat
      <4>1. Height("expr")[f[y]] \in Nat /\ Height("expr")[y] \in Nat /\ Height("expr")[y] <= n - 2
        BY <2>1, <3>1, ExprHeights
      <4> QED
        BY <1>1, <2>1, <3>1, <4>1
    <3> QED
      BY <3>1, <3>2, HeightGives DEF Trees, Exprs
  <2>3. n - 2 \in Nat /\ (n - 2) + 1 = n - 1 /\ n - 1 \in Nat /\ (n - 1) + 1 = n
    BY <1>1, <2>1
  <2>4. Lit(0) \in Nested("expr", n - 2) /\ Lit(1) \in Nested("expr", n - 2)
    BY <2>3, LitLevel
  <2>5. "If" \in Operations /\ "Sum" \in Operations
    BY DEF Operations, BuiltinOf
  <2>6. ASSUME NEW a \in Nested("expr", n - 2), NEW b \in Nested("expr", n - 2)
        PROVE  Op("Sum", <<Op("If", <<a, b, Lit(0)>>)>>) \in Nested("expr", n)
    <3>1. Op("If", <<a, b, Lit(0)>>) \in Nested("expr", n - 1)
      <4>1. <<a, b, Lit(0)>> \in Seq(Nested("expr", n - 2))
        BY <2>4
      <4> QED
        BY <2>3, <2>5, <4>1, OpLevel
    <3>2. <<Op("If", <<a, b, Lit(0)>>)>> \in Seq(Nested("expr", n - 1))
      BY <3>1
    <3> QED
      BY <2>3, <2>5, <3>2, OpLevel
  <2> QED
    BY <1>3, <2>2, <2>4, <2>6 DEF NewOf, c, m
<1>4. CASE ~Masks(x, "Sum") /\ ~Masks(x, "Count") /\ x.expr \in {"op", "call"}
  <2> DEFINE args == [i \in DOMAIN x.args |-> f[x.args[i]]]
  <2>1. /\ x.args \in Seq(Exprs)
        /\ \A i \in DOMAIN x.args : x.args[i] \in Exprs /\ Height("expr")[x.args[i]] < n
    BY <1>4, ExprShape
  <2>2. NewOf(f, x) = IF x.expr = "op" THEN Op(x.op, args) ELSE Call(x.name, args)
    <3>1. NewOf(f, x) = [x EXCEPT !.args = args]
      BY <1>4 DEF NewOf
    <3> HIDE DEF args
    <3>2. CASE x.expr = "op"
      BY <3>1, <3>2, ExprShape DEF Op
    <3>3. CASE x.expr = "call"
      BY <3>1, <3>3, ExprShape DEF Call
    <3> QED
      BY <1>4, <3>2, <3>3
  <2>3. args \in Seq(Trees("expr")) /\ \A i \in DOMAIN args : Height("expr")[args[i]] < n
    <3>1. ASSUME NEW i \in DOMAIN x.args
          PROVE  args[i] \in Exprs /\ Height("expr")[args[i]] < n
      <4>1. x.args[i] \in Exprs /\ Height("expr")[x.args[i]] < n
        BY <2>1
      <4>2. f[x.args[i]] \in Exprs /\ Height("expr")[f[x.args[i]]] <= Height("expr")[x.args[i]]
        BY <4>1
      <4>3. Height("expr")[f[x.args[i]]] \in Nat /\ Height("expr")[x.args[i]] \in Nat
        BY <4>1, <4>2, ExprHeights
      <4> HIDE DEF n
      <4> QED
        BY <4>1, <4>2, <4>3, <1>1
    <3>2. args \in Seq(Exprs)
      BY <2>1, <3>1
    <3> QED
      BY <3>1, <3>2 DEF Trees, Exprs
  <2>4. (n > 0 => args \in Seq(Nested("expr", n - 1))) /\ (n = 0 => args = <<>>)
    <3> HIDE DEF args, n
    <3> QED
      BY <1>1, <2>3, Higher
  <2>5. n > 0
    <3>1. SUFFICES ASSUME n = 0 PROVE FALSE
      BY <1>1
    <3>2. x \in Leaves("expr")
      BY <3>1, ExprHeights, Levels
    <3> QED
      BY <1>4, <3>2 DEF Leaves
  <2>6. n - 1 \in Nat /\ (n - 1) + 1 = n
    BY <1>1, <2>5
  <2>7. (x.expr = "op" => x.op \in Operations) /\ (x.expr = "call" => x.name \in Syms)
    BY ExprShape
  <2> HIDE DEF args, n
  <2> QED
    BY <1>4, <2>2, <2>4, <2>5, <2>6, <2>7, OpLevel, CallLevel
<1>5. CASE ~Masks(x, "Sum") /\ ~Masks(x, "Count") /\ x.expr \notin {"op", "call"}
  BY <1>1, <1>5, ExprHeights DEF NewOf
<1> QED
  BY <1>3, <1>4, <1>5

\* A recursion like that of dag_rewrite gives expressions, no deeper.
LEMMA NewsAreExprs ==
  ASSUME NEW f, \A x \in Exprs : NewOf(f, x) \in Exprs => f[x] = NewOf(f, x)
  PROVE  \A x \in Exprs : /\ f[x] = NewOf(f, x)
                          /\ f[x] \in Exprs /\ Height("expr")[f[x]] <= Height("expr")[x]
<1> DEFINE Good(x) == f[x] = NewOf(f, x) /\ f[x] \in Exprs /\ Height("expr")[f[x]] <= Height("expr")[x]
           P == {x \in Exprs : Good(x)}
<1>1. ASSUME NEW x \in Exprs, \A y \in Exprs : Height("expr")[y] < Height("expr")[x] => y \in P
      PROVE  x \in P
  <2>1. NewOf(f, x) \in Exprs /\ Height("expr")[NewOf(f, x)] <= Height("expr")[x]
    BY <1>1, NewIsAsHigh
  <2> QED
    BY <2>1
<1>2. Climbs(Exprs, Height("expr"), P)
  <2> HIDE DEF P
  <2> QED
    BY <1>1, ExprHeights DEF Climbs
<1>3. Exprs \subseteq P
  <2> HIDE DEF P
  <2> QED
    BY <1>2, Climbing
<1> QED
  BY <1>3

\* The recursion of dag_rewrite defines a function.
LEMMA NewsExist ==
  \E f : f = [x \in Exprs |-> NewOf(f, x)]
<1> DEFINE D == [x \in Exprs |-> [g \in [Exprs -> Exprs] |->
                   IF NewOf(g, x) \in Exprs THEN NewOf(g, x) ELSE x]]
<1>1. Exprs # {}
  BY LitLevel, HeightAssumption, 0 \in Int DEF Exprs
<1>2. D \in [Exprs -> [[Exprs -> Exprs] -> Exprs]]
  OBVIOUS
<1>3. ASSUME NEW x \in Exprs, NEW g \in [Exprs -> Exprs], NEW h \in [Exprs -> Exprs],
             \A y \in Exprs : Height("expr")[y] < Height("expr")[x] => g[y] = h[y]
      PROVE  D[x][g] = D[x][h]
  BY <1>3, NewIsLocal
<1>4. Descends(Exprs, Exprs, Height("expr"), D)
  <2> HIDE DEF D
  <2> QED
    BY <1>2, <1>3, ExprHeights DEF Descends
<1>5. PICK f \in [Exprs -> Exprs] : \A x \in Exprs : f[x] = D[x][f]
  <2> HIDE DEF D
  <2> QED
    BY <1>1, <1>4, Recursion
<1>6. \A x \in Exprs : NewOf(f, x) \in Exprs => f[x] = NewOf(f, x)
  BY <1>5
<1>7. \A x \in Exprs : f[x] = NewOf(f, x)
  BY <1>6, NewsAreExprs
<1>8. f = [x \in Exprs |-> NewOf(f, x)]
  BY <1>7
<1> QED
  BY <1>8

(* What an expression is rewritten to.                                     *)
LEMMA Rewrites ==
  ASSUME NEW x \in Exprs
  PROVE  /\ Masks(x, "Sum") =>
              dag_rewrite(x) = Op("Sum", <<Op("If", <<dag_rewrite(x.args[1].args[2]),
                                                      dag_rewrite(x.args[1].args[1]), Lit(0)>>)>>)
         /\ Masks(x, "Count") =>
              dag_rewrite(x) = Op("Sum", <<Op("If", <<dag_rewrite(x.args[1].args[2]), Lit(1), Lit(0)>>)>>)
         /\ ~Masks(x, "Sum") /\ ~Masks(x, "Count") =>
              /\ x.expr = "op"   => dag_rewrite(x) = Op(x.op, [i \in DOMAIN x.args |-> dag_rewrite(x.args[i])])
              /\ x.expr = "call" => dag_rewrite(x) = Call(x.name, [i \in DOMAIN x.args |-> dag_rewrite(x.args[i])])
              /\ x.expr \in {"col", "lit"} => dag_rewrite(x) = x
         /\ dag_rewrite(x) \in Exprs
<1> DEFINE Is(f) == f = [y \in Exprs |-> NewOf(f, y)]
           F == CHOOSE f : Is(f)
<1>1. \A y : dag_rewrite(y) = F[y]
  BY DEF dag_rewrite, NewOf
<1>2. Is(F)
  <2> HIDE DEF Is
  <2> QED
    BY NewsExist DEF Is
<1> HIDE DEF F
<1>3. \A y \in Exprs : F[y] = NewOf(F, y) /\ F[y] \in Exprs
  BY <1>2, NewsAreExprs
<1>4. CASE Masks(x, "Sum")
  <2>1. ~Masks(x, "Count")
    BY <1>4 DEF Masks, IsOp
  <2> QED
    BY <1>1, <1>3, <1>4, <2>1 DEF NewOf
<1>5. CASE ~Masks(x, "Sum") /\ Masks(x, "Count")
  BY <1>1, <1>3, <1>5 DEF NewOf
<1>6. CASE ~Masks(x, "Sum") /\ ~Masks(x, "Count")
  <2> DEFINE args == [i \in DOMAIN x.args |-> F[x.args[i]]]
  <2>1. args = [i \in DOMAIN x.args |-> dag_rewrite(x.args[i])]
    BY <1>1
  <2>2. CASE x.expr \in {"op", "call"}
    <3>1. F[x] = [x EXCEPT !.args = args]
      BY <1>3, <1>6, <2>2 DEF NewOf
    <3> HIDE DEF args
    <3>2. CASE x.expr = "op"
      <4>1. F[x] = Op(x.op, args)
        BY <3>1, <3>2, ExprShape DEF Op
      <4> QED
        BY <1>1, <1>3, <1>6, <2>1, <3>2, <4>1
    <3>3. CASE x.expr = "call"
      <4>1. F[x] = Call(x.name, args)
        BY <3>1, <3>3, ExprShape DEF Call
      <4> QED
        BY <1>1, <1>3, <1>6, <2>1, <3>3, <4>1
    <3> QED
      BY <2>2, <3>2, <3>3
  <2>3. CASE x.expr \in {"col", "lit"}
    BY <1>1, <1>3, <1>6, <2>3 DEF NewOf
  <2> QED
    BY <2>2, <2>3, ExprShape
<1> QED
  BY <1>1, <1>3, <1>4, <1>5, <1>6

-----------------------------------------------------------------------------
(* Ascending.                                                              *)

\* The recursion of Ascending defines a function.
LEMMA AscendingExists ==
  ASSUME NEW S
  PROVE  \E f : f = [k \in Nat |-> IF k = 0 THEN <<>> ELSE IF k \in S THEN Append(f[k - 1], k) ELSE f[k - 1]]
<1> DEFINE Body(f, k) == IF k = 0 THEN <<>> ELSE IF k \in S THEN Append(f[k - 1], k) ELSE f[k - 1]
           N == Nat
           V == Seq(Nat)
           D == [k \in N |-> [g \in [N -> V] |-> Body(g, k)]]
           id == [k \in N |-> k]
<1>1. ASSUME NEW k \in Nat, NEW g \in [Nat -> Seq(Nat)] PROVE Body(g, k) \in Seq(Nat)
  <2>1. k # 0 => g[k - 1] \in Seq(Nat)
    OBVIOUS
  <2> QED
    BY <2>1
<1>2. D \in [N -> [[N -> V] -> V]]
  <2>1. \A k \in N, g \in [N -> V] : Body(g, k) \in V
    BY <1>1
  <2> HIDE DEF Body, V, N
  <2> QED
    BY <2>1
<1>3. ASSUME NEW k \in N, NEW g \in [N -> V], NEW h \in [N -> V],
             \A j \in N : id[j] < id[k] => g[j] = h[j]
      PROVE  D[k][g] = D[k][h]
  <2>1. k # 0 => g[k - 1] = h[k - 1]
    BY <1>3
  <2> QED
    BY <2>1
<1>4. Descends(N, V, id, D)
  <2>1. id \in [N -> Nat]
    OBVIOUS
  <2> HIDE DEF D, id, V, N
  <2> QED
    BY <1>2, <1>3, <2>1 DEF Descends
<1>5. V # {}
  BY <<>> \in Seq(Nat)
<1>6. PICK f \in [N -> V] : \A k \in N : f[k] = D[k][f]
  <2> HIDE DEF D, id, V, N
  <2> QED
    BY <1>4, <1>5, Recursion
<1>7. \A k \in N : f[k] = Body(f, k)
  <2> HIDE DEF Body, V, N
  <2> QED
    BY <1>6
<1>8. f = [k \in Nat |-> Body(f, k)]
  <2> f \in [Nat -> V]
    OBVIOUS
  <2> HIDE DEF Body, V
  <2> QED
    BY <1>7
<1> QED
  BY <1>8

\* Ascending, number by number.
LEMMA AscendingGrows ==
  ASSUME NEW S
  PROVE  /\ Ascending(S, 0) = <<>>
         /\ \A n \in Nat : Ascending(S, n + 1) =
              IF n + 1 \in S THEN Append(Ascending(S, n), n + 1) ELSE Ascending(S, n)
<1> DEFINE Is(f) == f = [k \in Nat |-> IF k = 0 THEN <<>>
                                       ELSE IF k \in S THEN Append(f[k - 1], k) ELSE f[k - 1]]
           F == CHOOSE f : Is(f)
<1>1. \A n : Ascending(S, n) = F[n]
  BY DEF Ascending
<1>2. Is(F)
  <2>1. \E f : Is(f)
    BY AscendingExists
  <2> HIDE DEF Is
  <2> QED
    BY <2>1
<1> HIDE DEF F
<1>3. F[0] = <<>>
  BY <1>2
<1>4. ASSUME NEW n \in Nat PROVE F[n + 1] = IF n + 1 \in S THEN Append(F[n], n + 1) ELSE F[n]
  <2>1. n + 1 \in Nat /\ n + 1 # 0 /\ (n + 1) - 1 = n
    OBVIOUS
  <2>2. F[n + 1] = IF n + 1 = 0 THEN <<>>
                   ELSE IF n + 1 \in S THEN Append(F[(n + 1) - 1], n + 1) ELSE F[(n + 1) - 1]
    BY <1>2, <2>1
  <2> QED
    BY <2>1, <2>2
<1> QED
  BY <1>1, <1>3, <1>4

\* It is made of members of the set.
LEMMA AscendingType ==
  ASSUME NEW S, NEW n \in Nat
  PROVE  Ascending(S, n) \in Seq((1..n) \cap S)
<1> DEFINE T == {k \in Nat : Ascending(S, k) \in Seq((1..k) \cap S)}
<1>1. 0 \in T
  <2> DEFINE X == (1..0) \cap S
  <2>1. Ascending(S, 0) = <<>>
    BY AscendingGrows
  <2>2. Ascending(S, 0) \in Seq(X)
    <3> HIDE DEF X
    <3> QED
      BY <2>1, EmptySeq
  <2> QED
    BY <2>2
<1>2. ASSUME NEW k \in Nat, k \in T PROVE k + 1 \in T
  <2>1. Ascending(S, k) \in Seq((1..(k + 1)) \cap S)
    <3>1. (1..k) \cap S \subseteq (1..(k + 1)) \cap S
      OBVIOUS
    <3> QED
      BY <1>2, <3>1
  <2>2. k + 1 \in S => k + 1 \in (1..(k + 1)) \cap S
    OBVIOUS
  <2> DEFINE X == (1..(k + 1)) \cap S
  <2>3. Ascending(S, k + 1) \in Seq(X)
    <3>1. Ascending(S, k) \in Seq(X) /\ (k + 1 \in S => k + 1 \in X)
      BY <2>1, <2>2
    <3> HIDE DEF X
    <3>2. Ascending(S, k + 1) = IF k + 1 \in S THEN Append(Ascending(S, k), k + 1) ELSE Ascending(S, k)
      BY AscendingGrows
    <3>3. CASE k + 1 \in S
      <4>1. Append(Ascending(S, k), k + 1) \in Seq(X)
        BY <3>1, <3>3, AppendProperties
      <4> QED
        BY <3>2, <3>3, <4>1
    <3>4. CASE k + 1 \notin S
      BY <3>1, <3>2, <3>4
    <3> QED
      BY <3>3, <3>4
  <2> QED
    BY <2>3
<1>3. Nat \subseteq T
  <2> HIDE DEF T
  <2> QED
    BY <1>1, <1>2, NatSets
<1> QED
  BY <1>3

-----------------------------------------------------------------------------
(* Reduced.                                                                *)

\* Reductions stay among the integers.
LEMMA TakingType ==
  ASSUME NEW name \in Reductions, NEW acc \in Int, NEW x \in Int
  PROVE  Taking(name, acc, x) \in Int /\ OfNone(name) \in Int
BY NullAssumption DEF Taking, OfNone, Reductions

\* The recursion of Reduced defines a function.
LEMMA ReducedExists ==
  ASSUME NEW name \in Reductions, NEW s \in Seq(Int)
  PROVE  \E f \in [0..Len(s) -> Int] :
           f = [k \in 0..Len(s) |-> IF k = 0 THEN OfNone(name) ELSE Taking(name, f[k - 1], s[k])]
<1> DEFINE S == 0..Len(s)
           Body(f, k) == IF k = 0 THEN OfNone(name) ELSE Taking(name, f[k - 1], s[k])
           D == [k \in S |-> [g \in [S -> Int] |-> Body(g, k)]]
           id == [k \in S |-> k]
<1>1. ASSUME NEW k \in S, NEW g \in [S -> Int] PROVE Body(g, k) \in Int
  <2>1. k # 0 => k - 1 \in S /\ k \in 1..Len(s)
    OBVIOUS
  <2>2. k # 0 => g[k - 1] \in Int /\ s[k] \in Int
    BY <2>1
  <2> QED
    BY <2>2, TakingType, 0 \in Int
<1>2. D \in [S -> [[S -> Int] -> Int]]
  <2> HIDE DEF Body, S
  <2> QED
    BY <1>1
<1>3. ASSUME NEW k \in S, NEW g \in [S -> Int], NEW h \in [S -> Int],
             \A j \in S : id[j] < id[k] => g[j] = h[j]
      PROVE  D[k][g] = D[k][h]
  <2>1. k # 0 => k - 1 \in S /\ id[k - 1] < id[k]
    OBVIOUS
  <2>2. k # 0 => g[k - 1] = h[k - 1]
    BY <1>3, <2>1
  <2> QED
    BY <2>2
<1>4. Descends(S, Int, id, D)
  <2>1. id \in [S -> Nat]
    OBVIOUS
  <2> HIDE DEF D, id, S
  <2> QED
    BY <1>2, <1>3, <2>1 DEF Descends
<1>5. Int # {}
  BY 0 \in Int
<1>6. PICK f \in [S -> Int] : \A k \in S : f[k] = D[k][f]
  <2> HIDE DEF D, id, S
  <2> QED
    BY <1>4, <1>5, Recursion
<1>7. \A k \in S : f[k] = Body(f, k)
  <2> HIDE DEF Body, S
  <2> QED
    BY <1>6
<1>8. f = [k \in S |-> Body(f, k)]
  <2> HIDE DEF Body, S
  <2> QED
    BY <1>7
<1> QED
  BY <1>8

\* Reduced, cell by cell.
LEMMA ReducedSteps ==
  ASSUME NEW name \in Reductions, NEW s \in Seq(Int)
  PROVE  \E f \in [0..Len(s) -> Int] :
           /\ f[0] = OfNone(name) /\ f[Len(s)] = Reduced(name, s)
           /\ \A k \in 1..Len(s) : f[k] = Taking(name, f[k - 1], s[k])
<1> DEFINE Is(f) == f = [k \in 0..Len(s) |-> IF k = 0 THEN OfNone(name) ELSE Taking(name, f[k - 1], s[k])]
           F == CHOOSE f : Is(f)
<1>1. Reduced(name, s) = F[Len(s)]
  BY DEF Reduced
<1>2. Is(F)
  <2>1. \E f : Is(f)
    BY ReducedExists
  <2> HIDE DEF Is
  <2> QED
    BY <2>1
<1> HIDE DEF F
<1>3. /\ F[0] = OfNone(name)
      /\ \A k \in 1..Len(s) : F[k] = Taking(name, F[k - 1], s[k])
  <2>1. \A k \in 0..Len(s) : F[k] = IF k = 0 THEN OfNone(name) ELSE Taking(name, F[k - 1], s[k])
    BY <1>2
  <2>2. 0 \in 0..Len(s) /\ \A k \in 1..Len(s) : k \in 0..Len(s) /\ k # 0
    OBVIOUS
  <2> QED
    BY <2>1, <2>2
<1>4. \A k \in 0..Len(s) : F[k] \in Int
  <2> DEFINE T == {k \in Nat : k <= Len(s) => F[k] \in Int}
  <2>1. 0 \in T
    BY <1>3, TakingType, 0 \in Int
  <2>2. ASSUME NEW k \in Nat, k \in T PROVE k + 1 \in T
    <3> SUFFICES ASSUME k + 1 <= Len(s) PROVE F[k + 1] \in Int
      OBVIOUS
    <3>1. k + 1 \in 1..Len(s) /\ (k + 1) - 1 = k /\ k <= Len(s)
      OBVIOUS
    <3>2. F[k] \in Int /\ s[k + 1] \in Int
      BY <2>2, <3>1
    <3>3. F[k + 1] = Taking(name, F[k], s[k + 1])
      BY <1>3, <3>1
    <3> QED
      BY <3>2, <3>3, TakingType
  <2>3. Nat \subseteq T
    <3> HIDE DEF T
    <3> QED
      BY <2>1, <2>2, NatSets
  <2> QED
    BY <2>3
<1>5. F \in [0..Len(s) -> Int]
  BY <1>2, <1>4
<1> QED
  BY <1>1, <1>3, <1>5

(* A reduction takes the last cell after the others.                       *)
LEMMA ReducedAppend ==
  ASSUME NEW name \in Reductions, NEW s \in Seq(Int), NEW x \in Int
  PROVE  /\ Reduced(name, s) \in Int
         /\ Reduced(name, Append(s, x)) = Taking(name, Reduced(name, s), x)
<1> DEFINE t == Append(s, x)
<1>1. PICK f \in [0..Len(s) -> Int] :
        /\ f[0] = OfNone(name) /\ f[Len(s)] = Reduced(name, s)
        /\ \A k \in 1..Len(s) : f[k] = Taking(name, f[k - 1], s[k])
  BY ReducedSteps
<1>2. t \in Seq(Int) /\ Len(t) = Len(s) + 1 /\ t[Len(s) + 1] = x /\ \A k \in 1..Len(s) : t[k] = s[k]
  OBVIOUS
<1> HIDE DEF t
<1>3. PICK g \in [0..Len(t) -> Int] :
        /\ g[0] = OfNone(name) /\ g[Len(t)] = Reduced(name, t)
        /\ \A k \in 1..Len(t) : g[k] = Taking(name, g[k - 1], t[k])
  BY <1>2, ReducedSteps
<1> DEFINE T == {k \in Nat : k <= Len(s) => f[k] = g[k]}
<1>4. 0 \in T
  BY <1>1, <1>3
<1>5. ASSUME NEW k \in Nat, k \in T PROVE k + 1 \in T
  <2> SUFFICES ASSUME k + 1 <= Len(s) PROVE f[k + 1] = g[k + 1]
    OBVIOUS
  <2>1. k + 1 \in 1..Len(s) /\ k + 1 \in 1..Len(t) /\ (k + 1) - 1 = k /\ k <= Len(s)
    BY <1>2
  <2>2. f[k + 1] = Taking(name, f[k], s[k + 1]) /\ g[k + 1] = Taking(name, g[k], t[k + 1])
    BY <1>1, <1>3, <2>1
  <2>3. f[k] = g[k] /\ s[k + 1] = t[k + 1]
    BY <1>2, <1>5, <2>1
  <2> QED
    BY <2>2, <2>3
<1>6. Nat \subseteq T
  <2> HIDE DEF T
  <2> QED
    BY <1>4, <1>5, NatSets
<1>7. f[Len(s)] = g[Len(s)] /\ Len(s) \in Nat
  BY <1>6
<1>8. Len(t) \in 1..Len(t) /\ Len(t) - 1 = Len(s)
  BY <1>2, <1>7
<1>9. g[Len(t)] = Taking(name, g[Len(s)], x)
  BY <1>2, <1>3, <1>8
<1>10. f[Len(s)] \in Int
  BY <1>1, <1>7
<1> QED
  BY <1>1, <1>3, <1>7, <1>9, <1>10 DEF t

\* The reduction of no cells.
LEMMA ReducedEmpty ==
  ASSUME NEW name \in Reductions
  PROVE  Reduced(name, <<>>) = OfNone(name)
<1>1. <<>> \in Seq(Int) /\ Len(<<>>) = 0
  OBVIOUS
<1>2. PICK f \in [0..Len(<<>>) -> Int] : f[0] = OfNone(name) /\ f[Len(<<>>)] = Reduced(name, <<>>)
  BY <1>1, ReducedSteps
<1> QED
  BY <1>1, <1>2

\* The reduction of integers is an integer.
LEMMA ReducedType ==
  ASSUME NEW name \in Reductions, NEW s \in Seq(Int)
  PROVE  Reduced(name, s) \in Int
BY ReducedAppend, 0 \in Int

\* Picking cells of a column gives a column.
LEMMA PickedType ==
  ASSUME NEW n \in Nat, NEW at \in Seq(1..n), NEW c \in Seq(Int), Len(c) = n
  PROVE  Picked(c, at) \in Seq(Int) /\ Len(Picked(c, at)) = Len(at)
<1>1. \A k \in 1..Len(at) : at[k] \in 1..n /\ c[at[k]] \in Int
  BY ElementOfSeq
<1> QED
  BY <1>1 DEF Picked

(* Reducing what a mask lets pass is adding up, for each cell, its share.  *)
LEMMA MaskLaw ==
  ASSUME NEW name \in {"sum", "count"}, NEW n \in Nat,
         NEW c \in Seq(Int), NEW m \in Seq(Int), Len(c) = n, Len(m) = n
  PROVE  Reduced(name, Picked(c, Ascending({i \in 1..n : m[i] # 0}, n))) =
           Reduced("sum", [k \in 1..n |-> IF m[k] = 0 THEN 0 ELSE IF name = "sum" THEN c[k] ELSE 1])
<1> DEFINE M == {i \in 1..n : m[i] # 0}
           Share(k) == IF m[k] = 0 THEN 0 ELSE IF name = "sum" THEN c[k] ELSE 1
           Some(k) == Picked(c, Ascending(M, k))
           All(k) == [j \in 1..k |-> Share(j)]
           T == {k \in Nat : k <= n => Reduced(name, Some(k)) = Reduced("sum", All(k))}
<1>0. \A s \in Seq(Int), x \in Int :
        /\ Reduced(name, Append(s, x)) = Taking(name, Reduced(name, s), x)
        /\ Reduced("sum", Append(s, x)) = Reduced("sum", s) + x
  <2>1. name \in Reductions /\ "sum" \in Reductions
    BY DEF Reductions
  <2>2. \A acc, x : Taking("sum", acc, x) = acc + x
    BY DEF Taking
  <2> QED
    BY <2>1, <2>2, ReducedAppend
<1>1. 0 \in T
  <2>1. Some(0) = <<>>
    BY AscendingGrows DEF Picked
  <2>2. All(0) = <<>>
    OBVIOUS
  <2>3. Reduced(name, Some(0)) = OfNone(name) /\ Reduced("sum", All(0)) = OfNone("sum")
    <3> HIDE DEF Some, All
    <3> QED
      BY <2>1, <2>2, ReducedEmpty DEF Reductions
  <2> HIDE DEF Some, All
  <2> QED
    BY <2>3 DEF OfNone
<1>2. ASSUME NEW k \in Nat, k \in T PROVE k + 1 \in T
  <2> SUFFICES ASSUME k + 1 <= n PROVE Reduced(name, Some(k + 1)) = Reduced("sum", All(k + 1))
    OBVIOUS
  <2>1. k <= n /\ k + 1 \in 1..n
    OBVIOUS
  <2>2. Reduced(name, Some(k)) = Reduced("sum", All(k))
    BY <1>2, <2>1
  <2>3. c[k + 1] \in Int /\ m[k + 1] \in Int /\ Share(k + 1) \in Int
    BY <2>1
  <2>4. All(k) \in Seq(Int) /\ All(k + 1) = Append(All(k), Share(k + 1))
    <3>1. \A j \in 1..k : Share(j) \in Int
      BY <2>1
    <3>2. All(k) \in Seq(Int) /\ Len(All(k)) = k
      <4> HIDE DEF Share
      <4> QED
        BY <3>1
    <3>3. All(k + 1) = Append(All(k), Share(k + 1))
      <4> HIDE DEF Share
      <4> QED
        OBVIOUS
    <3> QED
      BY <3>2, <3>3
  <2>5. Reduced("sum", All(k + 1)) = Reduced("sum", All(k)) + Share(k + 1)
    <3> HIDE DEF All, Share
    <3> QED
      BY <1>0, <2>3, <2>4
  <2>6. Ascending(M, k) \in Seq(1..n)
    <3>1. Ascending(M, k) \in Seq((1..k) \cap M)
      BY AscendingType
    <3>2. (1..k) \cap M \subseteq 1..n
      BY <2>1
    <3> QED
      BY <3>1, <3>2, SeqMonotonic
  <2>7. Some(k) \in Seq(Int)
    BY <2>6, PickedType
  <2>8. CASE m[k + 1] = 0
    <3>1. Ascending(M, k + 1) = Ascending(M, k)
      <4>1. k + 1 \notin M
        BY <2>8
      <4> HIDE DEF M
      <4> QED
        BY <4>1, AscendingGrows
    <3>2. Share(k + 1) = 0 /\ Some(k + 1) = Some(k)
      BY <2>8, <3>1
    <3>3. Reduced("sum", All(k)) \in Int
      BY <2>4, ReducedType DEF Reductions
    <3> HIDE DEF Some, All, Share
    <3> QED
      BY <2>2, <2>5, <3>2, <3>3
  <2>9. CASE m[k + 1] # 0
    <3>1. Ascending(M, k + 1) = Append(Ascending(M, k), k + 1)
      <4>1. k + 1 \in M
        BY <2>1, <2>9
      <4> HIDE DEF M
      <4> QED
        BY <4>1, AscendingGrows
    <3>2. Some(k + 1) = Append(Some(k), c[k + 1])
      <4> HIDE DEF M
      <4> QED
        BY <2>1, <2>6, <3>1 DEF Picked
    <3>3. Reduced(name, Some(k + 1)) = Taking(name, Reduced(name, Some(k)), c[k + 1])
      <4> HIDE DEF Some
      <4> QED
        BY <1>0, <2>3, <2>7, <3>2
    <3>4. Taking(name, Reduced(name, Some(k)), c[k + 1]) = Reduced(name, Some(k)) + Share(k + 1)
      BY <2>9 DEF Taking
    <3> HIDE DEF Some, All, Share
    <3> QED
      BY <2>2, <2>5, <3>3, <3>4
  <2> QED
    BY <2>3, <2>8, <2>9
<1>3. Nat \subseteq T
  <2> HIDE DEF T
  <2> QED
    BY <1>1, <1>2, NatSets
<1>4. Reduced(name, Some(n)) = Reduced("sum", All(n))
  BY <1>3
<1> QED
  BY <1>4

Values == {Error} \cup {Scalar(x) : x \in Int} \cup {Vector(s) : s \in Seq(Int)}

\* The values whose vectors are of n cells.
Fits(n) == {v \in Values : v.is = "vector" => Len(v.cells) = n}

\* A value is an error, a scalar or a vector.
LEMMA ValueShape ==
  ASSUME NEW v \in Values
  PROVE  /\ v.is \in {"error", "scalar", "vector"}
         /\ v.is = "error" => v = Error
         /\ v.is = "scalar" => v.cells[1] \in Int /\ v = Scalar(v.cells[1])
         /\ v.is = "vector" => v.cells \in Seq(Int) /\ v = Vector(v.cells)
         /\ Error.is = "error"
BY DEF Values, Error, Scalar, Vector

\* Errors, scalars and vectors are values.
LEMMA ValueKinds ==
  /\ Error \in Values /\ IsError(Error)
  /\ \A x \in Int : Scalar(x) \in Values /\ ~IsError(Scalar(x)) /\ Scalar(x).is = "scalar" /\ Scalar(x).cells[1] = x
  /\ \A s \in Seq(Int) : Vector(s) \in Values /\ ~IsError(Vector(s)) /\ Vector(s).is = "vector" /\ Vector(s).cells = s
BY DEF Values, Error, Scalar, Vector, IsError

\* A builtin makes an integer of integers.
LEMMA CellType ==
  ASSUME NEW name \in Cellwise, NEW x \in [1..Arity(name) -> Int]
  PROVE  Cell(name, x) \in Int
<1>1. /\ name \in {"not", "double"} => x[1] \in Int
      /\ name = "if" => x[1] \in Int /\ x[2] \in Int /\ x[3] \in Int
      /\ name \in {">", "<", "==", "+", "and"} => x[1] \in Int /\ x[2] \in Int
  BY DEF Arity, Reductions
<1>2. \A b : Bit(b) \in Int
  BY DEF Bit
<1> QED
  BY <1>1, <1>2 DEF Cell, Cellwise

\* Pointed by cases: scalars alone, vectors of one length, vectors of two.
LEMMA PointedCases ==
  ASSUME NEW name, NEW vs
  PROVE  /\ (\A i \in DOMAIN vs : vs[i].is # "vector")
              => Pointed(name, vs) = Scalar(Cell(name, [i \in DOMAIN vs |-> vs[i].cells[1]]))
         /\ \A n \in Nat :
              /\ \E i \in DOMAIN vs : vs[i].is = "vector"
              /\ \A i \in DOMAIN vs : vs[i].is = "vector" => Len(vs[i].cells) = n
              => Pointed(name, vs) =
                   Vector([k \in 1..n |-> Cell(name,
                     [i \in DOMAIN vs |-> vs[i].cells[IF vs[i].is = "vector" THEN k ELSE 1]])])
         /\ (\E i, j \in DOMAIN vs : /\ vs[i].is = "vector" /\ vs[j].is = "vector"
                                     /\ Len(vs[i].cells) # Len(vs[j].cells))
              => Pointed(name, vs) = Error
<1> DEFINE long == {i \in DOMAIN vs : vs[i].is = "vector"}
           l == CHOOSE i \in long : TRUE
           len == IF long = {} THEN 1 ELSE Len(vs[l].cells)
           cells == [k \in 1..len |-> Cell(name, [i \in DOMAIN vs |-> vs[i].cells[IF i \in long THEN k ELSE 1]])]
<1>1. Pointed(name, vs) = IF \E i \in long : Len(vs[i].cells) # len THEN Error
                          ELSE IF long = {} THEN Scalar(cells[1]) ELSE Vector(cells)
  BY DEF Pointed
<1>2. long # {} => l \in long
  OBVIOUS
<1>3. ASSUME \A i \in DOMAIN vs : vs[i].is # "vector"
      PROVE  Pointed(name, vs) = Scalar(Cell(name, [i \in DOMAIN vs |-> vs[i].cells[1]]))
  <2>1. long = {} /\ len = 1
    BY <1>3
  <2>2. cells[1] = Cell(name, [i \in DOMAIN vs |-> vs[i].cells[1]])
    <3>1. [i \in DOMAIN vs |-> vs[i].cells[IF i \in long THEN 1 ELSE 1]] = [i \in DOMAIN vs |-> vs[i].cells[1]]
      OBVIOUS
    <3>2. 1 \in 1..len
      BY <2>1
    <3>3. cells[1] = Cell(name, [i \in DOMAIN vs |-> vs[i].cells[IF i \in long THEN 1 ELSE 1]])
      <4> HIDE DEF long, len
      <4> QED
        BY <3>2
    <3> QED
      BY <3>1, <3>3
  <2> QED
    BY <1>1, <2>1, <2>2
<1>4. ASSUME NEW n \in Nat, \E i \in DOMAIN vs : vs[i].is = "vector",
             \A i \in DOMAIN vs : vs[i].is = "vector" => Len(vs[i].cells) = n
      PROVE  Pointed(name, vs) =
               Vector([k \in 1..n |-> Cell(name,
                 [i \in DOMAIN vs |-> vs[i].cells[IF vs[i].is = "vector" THEN k ELSE 1]])])
  <2>1. long # {} /\ len = n /\ \A i \in long : Len(vs[i].cells) = n
    BY <1>2, <1>4
  <2>2. \A k : [i \in DOMAIN vs |-> vs[i].cells[IF i \in long THEN k ELSE 1]]
               = [i \in DOMAIN vs |-> vs[i].cells[IF vs[i].is = "vector" THEN k ELSE 1]]
    OBVIOUS
  <2>3. cells = [k \in 1..n |-> Cell(name,
                 [i \in DOMAIN vs |-> vs[i].cells[IF vs[i].is = "vector" THEN k ELSE 1]])]
    BY <2>1, <2>2
  <2> HIDE DEF long, len, cells
  <2> QED
    BY <1>1, <2>1, <2>3
<1>5. ASSUME \E i, j \in DOMAIN vs : /\ vs[i].is = "vector" /\ vs[j].is = "vector"
                                     /\ Len(vs[i].cells) # Len(vs[j].cells)
      PROVE  Pointed(name, vs) = Error
  BY <1>1, <1>5
<1> QED
  BY <1>3, <1>4, <1>5

\* Which values fit a table of n rows.
LEMMA FitsAreValues ==
  ASSUME NEW n \in Nat
  PROVE  /\ Fits(n) \subseteq Values
         /\ Error \in Fits(n)
         /\ \A x \in Int : Scalar(x) \in Fits(n)
         /\ \A s \in Seq(Int) : Vector(s) \in Fits(n) <=> Len(s) = n
         /\ \A v \in Fits(n) : v.is = "vector" => Len(v.cells) = n
BY ValueKinds DEF Fits, Error

\* Pointed makes a value of values, and of values that fit one that fits.
LEMMA PointedType ==
  ASSUME NEW name \in Cellwise, NEW vs \in Seq(Values), Len(vs) = Arity(name),
         \A i \in DOMAIN vs : ~IsError(vs[i])
  PROVE  /\ Pointed(name, vs) \in Values
         /\ \A n \in Nat : (\A i \in DOMAIN vs : vs[i] \in Fits(n))
              => Pointed(name, vs) \in Fits(n) /\ ~IsError(Pointed(name, vs))
<1>1. DOMAIN vs = 1..Arity(name)
  OBVIOUS
<1>2. \A i \in DOMAIN vs : vs[i] \in Values /\ vs[i].is \in {"scalar", "vector"}
                           /\ (vs[i].is = "scalar" => vs[i].cells[1] \in Int)
                           /\ (vs[i].is = "vector" => vs[i].cells \in Seq(Int))
  BY ValueShape DEF IsError
<1>3. CASE \A i \in DOMAIN vs : vs[i].is # "vector"
  <2> DEFINE x == [i \in DOMAIN vs |-> vs[i].cells[1]]
  <2>1. x \in [1..Arity(name) -> Int]
    BY <1>1, <1>2, <1>3
  <2>2. Pointed(name, vs) = Scalar(Cell(name, x)) /\ Cell(name, x) \in Int
    <3>1. Pointed(name, vs) = Scalar(Cell(name, x))
      BY <1>3, PointedCases
    <3> HIDE DEF x
    <3> QED
      BY <2>1, <3>1, CellType
  <2> HIDE DEF x
  <2> QED
    BY <2>2, ValueKinds, FitsAreValues
<1>4. ASSUME NEW n \in Nat, \E i \in DOMAIN vs : vs[i].is = "vector",
             \A i \in DOMAIN vs : vs[i].is = "vector" => Len(vs[i].cells) = n
      PROVE  Pointed(name, vs) \in Fits(n) /\ ~IsError(Pointed(name, vs))
  <2> DEFINE x(k) == [i \in DOMAIN vs |-> vs[i].cells[IF vs[i].is = "vector" THEN k ELSE 1]]
             s == [k \in 1..n |-> Cell(name, x(k))]
  <2>1. Pointed(name, vs) = Vector(s)
    BY <1>4, PointedCases
  <2>2. ASSUME NEW k \in 1..n PROVE Cell(name, x(k)) \in Int
    <3>1. ASSUME NEW i \in DOMAIN vs PROVE vs[i].cells[IF vs[i].is = "vector" THEN k ELSE 1] \in Int
      <4>1. CASE vs[i].is = "vector"
        <5>1. vs[i].cells \in Seq(Int) /\ Len(vs[i].cells) = n
          BY <1>2, <1>4, <4>1
        <5> QED
          BY <4>1, <5>1
      <4>2. CASE vs[i].is # "vector"
        BY <1>2, <4>2
      <4> QED
        BY <4>1, <4>2
    <3>2. x(k) \in [1..Arity(name) -> Int]
      BY <1>1, <3>1
    <3> HIDE DEF x
    <3> QED
      BY <3>2, CellType
  <2>3. s \in Seq(Int) /\ Len(s) = n
    <3> HIDE DEF x
    <3> QED
      BY <2>2
  <2> HIDE DEF s
  <2> QED
    BY <2>1, <2>3, ValueKinds, FitsAreValues
<1>5. CASE \E i \in DOMAIN vs : vs[i].is = "vector"
  <2>1. PICK i \in DOMAIN vs : vs[i].is = "vector"
    BY <1>5
  <2> DEFINE n == Len(vs[i].cells)
  <2>2. n \in Nat
    BY <1>2, <2>1
  <2>3. CASE \A j \in DOMAIN vs : vs[j].is = "vector" => Len(vs[j].cells) = n
    <3>1. Pointed(name, vs) \in Fits(n) /\ ~IsError(Pointed(name, vs))
      <4> HIDE DEF n
      <4> QED
        BY <1>4, <2>1, <2>2, <2>3
    <3>2. \A k \in Nat : (\A j \in DOMAIN vs : vs[j] \in Fits(k)) => k = n
      BY <2>1 DEF Fits
    <3> HIDE DEF n
    <3> QED
      BY <2>2, <3>1, <3>2, FitsAreValues
  <2>4. CASE \E j \in DOMAIN vs : vs[j].is = "vector" /\ Len(vs[j].cells) # n
    <3>1. Pointed(name, vs) = Error
      BY <2>1, <2>4, PointedCases
    <3>2. \A k \in Nat : ~(\A j \in DOMAIN vs : vs[j] \in Fits(k))
      BY <2>1, <2>4 DEF Fits
    <3> QED
      BY <3>1, <3>2, ValueKinds
  <2> QED
    BY <2>3, <2>4
<1> QED
  BY <1>3, <1>5

\* Only vectors of one length can be filtered.
LEMMA FilteredType ==
  ASSUME NEW v \in Values, NEW mask \in Values
  PROVE  /\ Filtered(v, mask) \in Values
         /\ ~IsError(Filtered(v, mask)) <=>
              v.is = "vector" /\ mask.is = "vector" /\ Len(v.cells) = Len(mask.cells)
<1>1. CASE v.is = "vector" /\ mask.is = "vector" /\ Len(v.cells) = Len(mask.cells)
  <2> DEFINE n == Len(v.cells)
             M == {i \in DOMAIN v.cells : mask.cells[i] # 0}
             at == Ascending(M, n)
  <2>1. v.cells \in Seq(Int) /\ n \in Nat
    BY <1>1, ValueShape
  <2>2. at \in Seq(1..n)
    <3>1. at \in Seq((1..n) \cap M)
      <4> HIDE DEF n, M
      <4> QED
        BY <2>1, AscendingType
    <3>2. (1..n) \cap M \subseteq 1..n
      OBVIOUS
    <3> HIDE DEF at, n, M
    <3> QED
      BY <3>1, <3>2, SeqMonotonic
  <2>3. Picked(v.cells, at) \in Seq(Int)
    <3> HIDE DEF at
    <3> QED
      BY <2>1, <2>2, PickedType
  <2>4. Filtered(v, mask) = Vector(Picked(v.cells, at))
    BY <1>1 DEF Filtered
  <2> HIDE DEF at
  <2> QED
    BY <1>1, <2>3, <2>4, ValueKinds
<1>2. CASE ~(v.is = "vector" /\ mask.is = "vector" /\ Len(v.cells) = Len(mask.cells))
  <2>1. Filtered(v, mask) = Error
    BY <1>2 DEF Filtered
  <2> QED
    BY <1>2, <2>1, ValueKinds
<1> QED
  BY <1>1, <1>2

\* The cells of a value that is no error.
LEMMA CellsType ==
  ASSUME NEW v \in Values, ~IsError(v)
  PROVE  v.cells \in Seq(Int)
<1>1. CASE v.is = "scalar"
  <2>1. v.cells = <<v.cells[1]>> /\ v.cells[1] \in Int
    BY <1>1, ValueShape DEF Scalar
  <2> DEFINE y == v.cells[1]
  <2>2. <<y>> \in Seq(Int)
    <3> y \in Int
      BY <2>1
    <3> HIDE DEF y
    <3> QED
      OBVIOUS
  <2> QED
    BY <2>1, <2>2
<1> QED
  BY <1>1, ValueShape DEF IsError

\* A builtin makes a value of values; on the query path it keeps the length of
\* the table and fails only for an argument that does or a name it does not know.
LEMMA ApplyType ==
  ASSUME NEW name, NEW vs \in Seq(Values), NEW path
  PROVE  /\ Apply(name, vs, path) \in Values
         /\ ~IsError(Apply(name, vs, path)) =>
              /\ Len(vs) = Arity(name)
              /\ \A i \in DOMAIN vs : ~IsError(vs[i])
              /\ name \in Cellwise \cup Reductions \/ (name = "filter" /\ path = "eval")
         /\ \A n \in Nat : path = "query" /\ (\A i \in DOMAIN vs : vs[i] \in Fits(n)) =>
              /\ Apply(name, vs, path) \in Fits(n)
              /\ (/\ Len(vs) = Arity(name) /\ name \in Cellwise \cup Reductions
                  /\ \A i \in DOMAIN vs : ~IsError(vs[i]))
                 => ~IsError(Apply(name, vs, path))
<1>1. CASE Len(vs) # Arity(name) \/ \E i \in DOMAIN vs : IsError(vs[i])
  <2>1. Apply(name, vs, path) = Error
    BY <1>1 DEF Apply
  <2> QED
    BY <1>1, <2>1, ValueKinds, FitsAreValues
<1>2. CASE ~(Len(vs) # Arity(name) \/ \E i \in DOMAIN vs : IsError(vs[i])) /\ name \in Cellwise
  <2>1. Apply(name, vs, path) = Pointed(name, vs)
    BY <1>2 DEF Apply
  <2> QED
    BY <1>2, <2>1, PointedType
<1>3. CASE ~(Len(vs) # Arity(name) \/ \E i \in DOMAIN vs : IsError(vs[i]))
           /\ name \notin Cellwise /\ name \in Reductions
  <2>1. Apply(name, vs, path) = Scalar(Reduced(name, vs[1].cells))
    BY <1>3 DEF Apply
  <2>2. vs[1] \in Values /\ ~IsError(vs[1])
    <3>1. Len(vs) = 1
      BY <1>3 DEF Arity, Reductions
    <3> QED
      BY <1>3, <3>1
  <2>3. Reduced(name, vs[1].cells) \in Int
    BY <1>3, <2>2, CellsType, ReducedType
  <2> QED
    BY <1>3, <2>1, <2>3, ValueKinds, FitsAreValues
<1>4. CASE ~(Len(vs) # Arity(name) \/ \E i \in DOMAIN vs : IsError(vs[i]))
           /\ name \notin Cellwise /\ name \notin Reductions
  <2>1. Apply(name, vs, path) = IF name = "filter" /\ path = "eval" THEN Filtered(vs[1], vs[2]) ELSE Error
    BY <1>4 DEF Apply
  <2>2. name = "filter" => vs[1] \in Values /\ vs[2] \in Values
    <3>1. name = "filter" => Len(vs) = 2
      BY <1>4 DEF Arity, Reductions
    <3> QED
      BY <3>1
  <2> QED
    BY <1>4, <2>1, <2>2, FilteredType, ValueKinds, FitsAreValues
<1> QED
  BY <1>1, <1>2, <1>3, <1>4

Typed(names) == \A c \in DOMAIN names : names[c] \in Seq(Int)

ValueOf(value, x, names, path) ==
  IF x.ast = "list" THEN Apply(x.head, [i \in DOMAIN x.args |-> value[x.args[i]]], path)
  ELSE IF x.ast = "atom" THEN Scalar(x.val)
  ELSE IF x.name \in DOMAIN names THEN Vector(names[x.name]) ELSE Error

\* The heights of ASTs.
LEMMA AstHeights ==
  /\ Height("ast") \in [Asts -> Nat]
  /\ \A x \in Asts : Height("ast")[x] \in Nat
BY HeightIsLeast DEF Trees, Asts

\* An AST has a value if its branches have.
LEMMA ValueType ==
  ASSUME NEW x \in Asts, NEW names, Typed(names), NEW path, NEW f,
         \A y \in Asts : Height("ast")[y] < Height("ast")[x] => f[y] \in Values
  PROVE  ValueOf(f, x, names, path) \in Values
<1>1. CASE x.ast = "list"
  <2> DEFINE vs == [i \in DOMAIN x.args |-> f[x.args[i]]]
  <2>1. vs \in Seq(Values)
    <3>1. x.args \in Seq(Asts) /\ \A i \in DOMAIN x.args : f[x.args[i]] \in Values
      BY <1>1, AstShape
    <3> QED
      BY <3>1
  <2> HIDE DEF vs
  <2>2. Apply(x.head, vs, path) \in Values
    BY <2>1, ApplyType
  <2> QED
    BY <1>1, <2>2 DEF ValueOf, vs
<1>2. CASE x.ast # "list"
  BY <1>2, AstShape, ValueKinds DEF ValueOf, Typed
<1> QED
  BY <1>1, <1>2

\* The value of an AST depends on its branches alone.
LEMMA ValueIsLocal ==
  ASSUME NEW x \in Asts, NEW names, NEW path, NEW g, NEW h,
         \A y \in Asts : Height("ast")[y] < Height("ast")[x] => g[y] = h[y]
  PROVE  ValueOf(g, x, names, path) = ValueOf(h, x, names, path)
<1>1. CASE x.ast = "list"
  <2>1. \A i \in DOMAIN x.args : g[x.args[i]] = h[x.args[i]]
    BY <1>1, AstShape
  <2>2. [i \in DOMAIN x.args |-> g[x.args[i]]] = [i \in DOMAIN x.args |-> h[x.args[i]]]
    BY <2>1
  <2> QED
    BY <1>1, <2>2 DEF ValueOf
<1>2. CASE x.ast # "list"
  BY <1>2 DEF ValueOf
<1> QED
  BY <1>1, <1>2

\* The recursion of EvalAst defines a function.
LEMMA ValuesExist ==
  ASSUME NEW names, Typed(names), NEW path
  PROVE  \E f : f = [x \in Asts |-> ValueOf(f, x, names, path)]
<1> DEFINE D == [x \in Asts |-> [g \in [Asts -> Values] |-> ValueOf(g, x, names, path)]]
<1>1. Values # {}
  BY ValueKinds
<1>2. D \in [Asts -> [[Asts -> Values] -> Values]]
  BY ValueType
<1>3. ASSUME NEW x \in Asts, NEW g \in [Asts -> Values], NEW h \in [Asts -> Values],
             \A y \in Asts : Height("ast")[y] < Height("ast")[x] => g[y] = h[y]
      PROVE  D[x][g] = D[x][h]
  BY <1>3, ValueIsLocal
<1>4. Descends(Asts, Values, Height("ast"), D)
  <2> HIDE DEF D
  <2> QED
    BY <1>2, <1>3, AstHeights DEF Descends
<1>5. PICK f \in [Asts -> Values] : \A x \in Asts : f[x] = D[x][f]
  <2> HIDE DEF D
  <2> QED
    BY <1>1, <1>4, Recursion
<1>6. f = [x \in Asts |-> ValueOf(f, x, names, path)]
  BY <1>5
<1> QED
  BY <1>6

(* What an AST evaluates to.                                               *)
LEMMA Evaluates ==
  ASSUME NEW x \in Asts, NEW names, Typed(names), NEW path
  PROVE  /\ x.ast = "list" =>
              EvalAst(x, names, path) =
                Apply(x.head, [i \in DOMAIN x.args |-> EvalAst(x.args[i], names, path)], path)
         /\ x.ast = "atom" => EvalAst(x, names, path) = Scalar(x.val)
         /\ x.ast = "name" =>
              EvalAst(x, names, path) =
                IF x.name \in DOMAIN names THEN Vector(names[x.name]) ELSE Error
         /\ EvalAst(x, names, path) \in Values
<1> DEFINE Is(f) == f = [y \in Asts |-> ValueOf(f, y, names, path)]
           F == CHOOSE f : Is(f)
<1>1. \A y : EvalAst(y, names, path) = F[y]
  BY DEF EvalAst, ValueOf
<1>2. Is(F)
  <2>1. \E f : Is(f)
    BY ValuesExist
  <2> HIDE DEF Is
  <2> QED
    BY <2>1
<1> HIDE DEF F
<1>3. \A y \in Asts : F[y] = ValueOf(F, y, names, path)
  BY <1>2
<1>4. \A y \in Asts : F[y] \in Values
  <2> DEFINE P == {y \in Asts : F[y] \in Values}
  <2>1. ASSUME NEW y \in Asts, \A z \in Asts : Height("ast")[z] < Height("ast")[y] => z \in P
        PROVE  y \in P
    BY <1>3, <2>1, ValueType
  <2>2. Climbs(Asts, Height("ast"), P)
    <3> HIDE DEF P
    <3> QED
      BY <2>1, AstHeights DEF Climbs
  <2>3. Asts \subseteq P
    <3> HIDE DEF P
    <3> QED
      BY <2>2, Climbing
  <2> QED
    BY <2>3
<1>5. [i \in DOMAIN x.args |-> F[x.args[i]]] = [i \in DOMAIN x.args |-> EvalAst(x.args[i], names, path)]
  BY <1>1
<1> QED
  BY <1>1, <1>3, <1>4, <1>5 DEF ValueOf

(* Over columns of n cells the query path gives vectors of n cells.        *)
LEMMA EvaluatesToFit ==
  ASSUME NEW names, Typed(names), NEW n \in Nat, \A c \in DOMAIN names : Len(names[c]) = n
  PROVE  \A x \in Asts : EvalAst(x, names, "query") \in Fits(n)
<1> DEFINE P == {x \in Asts : EvalAst(x, names, "query") \in Fits(n)}
<1>1. ASSUME NEW x \in Asts, \A y \in Asts : Height("ast")[y] < Height("ast")[x] => y \in P
      PROVE  x \in P
  <2>1. CASE x.ast = "list"
    <3> DEFINE vs == [i \in DOMAIN x.args |-> EvalAst(x.args[i], names, "query")]
    <3>1. EvalAst(x, names, "query") = Apply(x.head, vs, "query")
      BY <2>1, Evaluates
    <3>2. vs \in Seq(Values) /\ \A i \in DOMAIN vs : vs[i] \in Fits(n)
      <4>1. x.args \in Seq(Asts) /\ \A i \in DOMAIN x.args : vs[i] \in Fits(n)
        BY <1>1, <2>1, AstShape
      <4>2. vs \in [1..Len(x.args) -> Fits(n)] /\ Len(x.args) \in Nat
        <5>1. DOMAIN x.args = 1..Len(x.args) /\ Len(x.args) \in Nat
          BY <4>1
        <5> QED
          BY <4>1, <5>1
      <4>3. vs \in Seq(Fits(n))
        <5> HIDE DEF vs
        <5> QED
          BY <4>2
      <4> QED
        BY <4>1, <4>3, FitsAreValues, SeqMonotonic
    <3> HIDE DEF vs
    <3> QED
      BY <3>1, <3>2, ApplyType
  <2>2. CASE x.ast = "atom"
    <3>1. EvalAst(x, names, "query") = Scalar(x.val) /\ x.val \in Int
      BY <2>2, Evaluates, AstShape
    <3>2. Scalar(x.val) \in Fits(n)
      BY <3>1, FitsAreValues
    <3> QED
      BY <3>1, <3>2
  <2>3. CASE x.ast = "name"
    <3>1. EvalAst(x, names, "query") = IF x.name \in DOMAIN names THEN Vector(names[x.name]) ELSE Error
      BY <2>3, Evaluates
    <3>2. CASE x.name \in DOMAIN names
      <4>1. names[x.name] \in Seq(Int) /\ Len(names[x.name]) = n
        BY <3>2 DEF Typed
      <4>2. Vector(names[x.name]) \in Fits(n)
        BY <4>1, FitsAreValues
      <4> QED
        BY <3>1, <3>2, <4>2
    <3> QED
      BY <3>1, <3>2, FitsAreValues
  <2> QED
    BY <2>1, <2>2, <2>3, AstShape
<1>2. Climbs(Asts, Height("ast"), P)
  <2> HIDE DEF P
  <2> QED
    BY <1>1, AstHeights DEF Climbs
<1>3. Asts \subseteq P
  <2> HIDE DEF P
  <2> QED
    BY <1>2, Climbing
<1> QED
  BY <1>3

OkOf(ok, x) ==
  \/ x.expr \in {"col", "lit"}
  \/ (Masks(x, "Sum") \/ Masks(x, "Count")) /\ \A i \in 1..2 : ok[x.args[1].args[i]]
  \/ /\ \/ x.expr = "op" /\ x.op # "Filter"
        \/ x.expr = "call" /\ x.name # "filter"
     /\ \A i \in DOMAIN x.args : ok[x.args[i]]

\* Whether an expression has only masks depends on its branches alone.
LEMMA OkIsLocal ==
  ASSUME NEW x \in Exprs, NEW g, NEW h,
         \A y \in Exprs : Height("expr")[y] < Height("expr")[x] => g[y] = h[y]
  PROVE  OkOf(g, x) = OkOf(h, x)
<1>1. Masks(x, "Sum") \/ Masks(x, "Count") =>
        \A i \in 1..2 : g[x.args[1].args[i]] = h[x.args[1].args[i]]
  BY MaskShape
<1>2. x.expr \in {"op", "call"} => \A i \in DOMAIN x.args : g[x.args[i]] = h[x.args[i]]
  BY ExprShape
<1> QED
  BY <1>1, <1>2 DEF OkOf

\* The recursion of OnlyMasks defines a function.
LEMMA OksExist ==
  \E f : f = [x \in Exprs |-> OkOf(f, x)]
<1> DEFINE V == BOOLEAN
           D == [x \in Exprs |-> [g \in [Exprs -> V] |-> OkOf(g, x)]]
<1>1. V # {}
  OBVIOUS
<1>2. D \in [Exprs -> [[Exprs -> V] -> V]]
  BY DEF OkOf
<1>3. ASSUME NEW x \in Exprs, NEW g \in [Exprs -> V], NEW h \in [Exprs -> V],
             \A y \in Exprs : Height("expr")[y] < Height("expr")[x] => g[y] = h[y]
      PROVE  D[x][g] = D[x][h]
  BY <1>3, OkIsLocal
<1>4. Descends(Exprs, V, Height("expr"), D)
  <2> HIDE DEF D, V
  <2> QED
    BY <1>2, <1>3, ExprHeights DEF Descends
<1>5. PICK f \in [Exprs -> V] : \A x \in Exprs : f[x] = D[x][f]
  <2> HIDE DEF D, V
  <2> QED
    BY <1>1, <1>4, Recursion
<1>6. f = [x \in Exprs |-> OkOf(f, x)]
  BY <1>5
<1> QED
  BY <1>6

(* Where filters stand right under sums and counts.                        *)
LEMMA Oks ==
  ASSUME NEW x \in Exprs, OnlyMasks(x)
  PROVE  /\ Masks(x, "Sum") \/ Masks(x, "Count") => \A i \in 1..2 : OnlyMasks(x.args[1].args[i])
         /\ ~Masks(x, "Sum") /\ ~Masks(x, "Count") =>
              /\ x.expr = "op" => x.op # "Filter" /\ \A i \in DOMAIN x.args : OnlyMasks(x.args[i])
              /\ x.expr = "call" => x.name # "filter" /\ \A i \in DOMAIN x.args : OnlyMasks(x.args[i])
<1> DEFINE Is(f) == f = [y \in Exprs |-> OkOf(f, y)]
           F == CHOOSE f : Is(f)
<1>1. \A y : OnlyMasks(y) = F[y]
  BY DEF OnlyMasks, OkOf
<1>2. Is(F)
  <2>1. \E f : Is(f)
    BY OksExist
  <2> HIDE DEF Is
  <2> QED
    BY <2>1
<1> HIDE DEF F
<1>3. \A y \in Exprs : F[y] = OkOf(F, y)
  BY <1>2
<1>4. OkOf(F, x)
  BY <1>1, <1>3
<1>5. Masks(x, "Sum") \/ Masks(x, "Count") =>
        /\ x.expr = "op" /\ x.args[1].expr = "op" /\ x.args[1].op = "Filter" /\ x.args[1] \in Exprs
        /\ 1 \in DOMAIN x.args
  <2>1. SUFFICES ASSUME NEW op, Masks(x, op)
                 PROVE  /\ x.expr = "op" /\ x.args[1].expr = "op" /\ x.args[1].op = "Filter"
                        /\ x.args[1] \in Exprs /\ 1 \in DOMAIN x.args
    OBVIOUS
  <2> QED
    BY <2>1, MaskShape, ExprShape DEF Masks, IsOp
<1>6. CASE Masks(x, "Sum") \/ Masks(x, "Count")
  <2>1. ~F[x.args[1]] \/ \A i \in 1..2 : F[x.args[1].args[i]]
    <3>1. F[x.args[1]] = OkOf(F, x.args[1])
      BY <1>3, <1>5, <1>6
    <3>2. ~Masks(x.args[1], "Sum") /\ ~Masks(x.args[1], "Count")
      BY <1>5, <1>6 DEF Masks, IsOp
    <3> QED
      BY <1>5, <1>6, <3>1, <3>2 DEF OkOf
  <2> QED
    BY <1>1, <1>4, <1>5, <1>6, <2>1 DEF OkOf
<1>7. CASE ~Masks(x, "Sum") /\ ~Masks(x, "Count")
  BY <1>1, <1>4, <1>7 DEF OkOf
<1> QED
  BY <1>6, <1>7

\* What an expression is worth as it stands.
Worth(e, names, path) == EvalAst(compile(e), names, path)

\* What expressions are worth, kind by kind.
LEMMA Worths ==
  ASSUME NEW e \in Exprs, NEW names, Typed(names), NEW path
  PROVE  /\ e.expr = "col" =>
              Worth(e, names, path) = IF e.name \in DOMAIN names THEN Vector(names[e.name]) ELSE Error
         /\ e.expr = "lit" => Worth(e, names, path) = Scalar(e.val)
         /\ e.expr \in {"op", "call"} =>
              Worth(e, names, path) = Apply(IF e.expr = "op" THEN as_str(e.op) ELSE e.name,
                                           [i \in DOMAIN e.args |-> Worth(e.args[i], names, path)], path)
         /\ Worth(e, names, path) \in Values
<1>1. compile(e) \in Asts
  BY Compiles
<1>2. CASE e.expr = "col"
  <2>1. compile(e) = NameRef(e.name)
    BY <1>2, Compiles
  <2>2. compile(e).ast = "name" /\ compile(e).name = e.name
    BY <2>1 DEF NameRef
  <2>3. EvalAst(compile(e), names, path) =
          IF compile(e).name \in DOMAIN names THEN Vector(names[compile(e).name]) ELSE Error
    BY <1>1, <2>2, Evaluates
  <2>4. EvalAst(compile(e), names, path) \in Values
    BY <1>1, Evaluates
  <2> QED
    BY <1>2, <2>2, <2>3, <2>4 DEF Worth
<1>3. CASE e.expr = "lit"
  <2>1. compile(e) = Atom(e.val)
    BY <1>3, Compiles
  <2>2. compile(e).ast = "atom" /\ compile(e).val = e.val
    BY <2>1 DEF Atom
  <2>3. EvalAst(compile(e), names, path) = Scalar(e.val) /\ EvalAst(compile(e), names, path) \in Values
    BY <1>1, <2>2, Evaluates
  <2> QED
    BY <1>3, <2>3 DEF Worth
<1>4. CASE e.expr \in {"op", "call"}
  <2> DEFINE hd == IF e.expr = "op" THEN as_str(e.op) ELSE e.name
             as == [i \in DOMAIN e.args |-> compile(e.args[i])]
  <2>1. compile(e) = ListOf(hd, as)
    BY <1>4, Compiles
  <2>2. compile(e).ast = "list" /\ compile(e).head = hd /\ compile(e).args = as
    <3> HIDE DEF hd, as
    <3> QED
      BY <2>1 DEF ListOf
  <2>3. EvalAst(compile(e), names, path) =
          Apply(hd, [i \in DOMAIN as |-> EvalAst(as[i], names, path)], path)
    <3>1. EvalAst(compile(e), names, path) =
            Apply(compile(e).head, [i \in DOMAIN compile(e).args |-> EvalAst(compile(e).args[i], names, path)], path)
      BY <1>1, <2>2, Evaluates
    <3> HIDE DEF hd, as
    <3> QED
      BY <2>2, <3>1
  <2>4. [i \in DOMAIN as |-> EvalAst(as[i], names, path)] = [i \in DOMAIN e.args |-> Worth(e.args[i], names, path)]
    BY DEF Worth
  <2>5. EvalAst(compile(e), names, path) \in Values
    BY <1>1, Evaluates
  <2>6. Worth(e, names, path) = Apply(hd, [i \in DOMAIN e.args |-> Worth(e.args[i], names, path)], path)
    <3> HIDE DEF hd, as
    <3> QED
      BY <2>3, <2>4 DEF Worth
  <2> QED
    BY <1>4, <2>5, <2>6 DEF Worth
<1> QED
  BY <1>2, <1>3, <1>4, ExprShape

\* A term is worth what its builtin makes of what its arguments are worth.
LEMMA WorthOfOp ==
  ASSUME NEW op, NEW args, Op(op, args) \in Exprs, NEW names, Typed(names), NEW path
  PROVE  /\ Worth(Op(op, args), names, path) =
              Apply(as_str(op), [i \in DOMAIN args |-> Worth(args[i], names, path)], path)
         /\ op \in Operations /\ args \in Seq(Exprs)
<1> DEFINE e == Op(op, args)
<1>1. e.expr = "op" /\ e.op = op /\ e.args = args
  BY DEF Op
<1> HIDE DEF e
<1>2. e \in Exprs
  BY DEF e
<1> QED
  BY <1>1, <1>2, Worths, ExprShape DEF e

\* What a reduction makes of a value.
LEMMA ApplyReduction ==
  ASSUME NEW name \in Reductions, NEW v, ~IsError(v), NEW path
  PROVE  Apply(name, <<v>>, path) = Scalar(Reduced(name, v.cells))
<1>1. name \notin Cellwise /\ Arity(name) = 1
  BY DEF Reductions, Cellwise, Arity
<1>2. Len(<<v>>) = 1 /\ \A i \in DOMAIN <<v>> : <<v>>[i] = v
  OBVIOUS
<1> QED
  BY <1>1, <1>2 DEF Apply

\* When a filter answers, and what.
LEMMA ApplyFilter ==
  ASSUME NEW v \in Values, NEW mask \in Values
  PROVE  /\ ~IsError(Apply("filter", <<v, mask>>, "eval")) <=>
              v.is = "vector" /\ mask.is = "vector" /\ Len(v.cells) = Len(mask.cells)
         /\ v.is = "vector" /\ mask.is = "vector" =>
              Apply("filter", <<v, mask>>, "eval") = Filtered(v, mask)
<1>1. "filter" \notin Cellwise /\ "filter" \notin Reductions /\ Arity("filter") = 2
  BY DEF Cellwise, Reductions, Arity
<1>2. Len(<<v, mask>>) = 2 /\ DOMAIN <<v, mask>> = 1..2
  OBVIOUS
<1>3. CASE IsError(v) \/ IsError(mask)
  <2>1. Apply("filter", <<v, mask>>, "eval") = Error
    BY <1>2, <1>3 DEF Apply
  <2> QED
    BY <1>3, <2>1, ValueKinds DEF IsError
<1>4. CASE ~IsError(v) /\ ~IsError(mask)
  <2>1. Apply("filter", <<v, mask>>, "eval") = Filtered(v, mask)
    BY <1>1, <1>2, <1>4 DEF Apply
  <2> QED
    BY <2>1, FilteredType
<1> QED
  BY <1>3, <1>4

(* A masked sum is the sum of what the filter lets pass.                   *)
LEMMA MaskedSum ==
  ASSUME NEW name \in {"sum", "count"}, NEW c \in Values, NEW m \in Values,
         c.is = "vector", m.is = "vector", Len(c.cells) = Len(m.cells),
         NEW share, share = IF name = "sum" THEN c ELSE Scalar(1)
  PROVE  Apply("sum", <<Apply("if", <<m, share, Scalar(0)>>, "query")>>, "query") =
           Apply(name, <<Apply("filter", <<c, m>>, "eval")>>, "eval")
<1> DEFINE n == Len(c.cells)
           at == Ascending({i \in 1..n : m.cells[i] # 0}, n)
           parts == [k \in 1..n |-> IF m.cells[k] = 0 THEN 0 ELSE IF name = "sum" THEN c.cells[k] ELSE 1]
<1>1. c.cells \in Seq(Int) /\ m.cells \in Seq(Int) /\ n \in Nat /\ DOMAIN c.cells = 1..n
  BY ValueShape
<1>2. Apply("filter", <<c, m>>, "eval") = Vector(Picked(c.cells, at))
  <2>1. Apply("filter", <<c, m>>, "eval") = Filtered(c, m)
    BY ApplyFilter
  <2>2. Filtered(c, m) = Vector(Picked(c.cells, at))
    BY <1>1 DEF Filtered
  <2> QED
    BY <2>1, <2>2
<1>3. Apply(name, <<Apply("filter", <<c, m>>, "eval")>>, "eval") = Scalar(Reduced(name, Picked(c.cells, at)))
  <2>1. ~IsError(Apply("filter", <<c, m>>, "eval"))
    BY ApplyFilter
  <2>2. Apply("filter", <<c, m>>, "eval").cells = Picked(c.cells, at)
    <3> HIDE DEF at
    <3> QED
      BY <1>2 DEF Vector
  <2>3. name \in Reductions
    BY DEF Reductions
  <2> HIDE DEF at
  <2> QED
    BY <2>1, <2>2, <2>3, ApplyReduction
<1>4. Apply("if", <<m, share, Scalar(0)>>, "query") = Vector(parts)
  <2> DEFINE vs == <<m, share, Scalar(0)>>
  <2>1. Len(vs) = 3 /\ DOMAIN vs = 1..3 /\ vs[1] = m /\ vs[2] = share /\ vs[3] = Scalar(0)
    OBVIOUS
  <2>2. /\ Scalar(0).is = "scalar" /\ Scalar(0).cells[1] = 0 /\ ~IsError(Scalar(0))
        /\ Scalar(1).is = "scalar" /\ Scalar(1).cells[1] = 1 /\ ~IsError(Scalar(1))
        /\ ~IsError(m) /\ ~IsError(c)
    BY DEF Scalar, IsError
  <2> HIDE DEF vs
  <2>3. Apply("if", vs, "query") = Pointed("if", vs)
    <3>1. Arity("if") = 3 /\ "if" \in Cellwise
      BY DEF Arity, Cellwise, Reductions
    <3>2. \A i \in DOMAIN vs : ~IsError(vs[i])
      BY <2>1, <2>2
    <3> QED
      BY <2>1, <3>1, <3>2 DEF Apply
  <2>4. Pointed("if", vs) = Vector([k \in 1..n |-> Cell("if",
          [i \in DOMAIN vs |-> vs[i].cells[IF vs[i].is = "vector" THEN k ELSE 1]])])
    <3>1. \E i \in DOMAIN vs : vs[i].is = "vector"
      BY <2>1
    <3>2. \A i \in DOMAIN vs : vs[i].is = "vector" => Len(vs[i].cells) = n
      BY <2>1, <2>2
    <3> HIDE DEF n
    <3> QED
      BY <1>1, <3>1, <3>2, PointedCases
  <2>5. ASSUME NEW k \in 1..n
        PROVE  Cell("if", [i \in DOMAIN vs |-> vs[i].cells[IF vs[i].is = "vector" THEN k ELSE 1]]) = parts[k]
    <3> DEFINE x == [i \in DOMAIN vs |-> vs[i].cells[IF vs[i].is = "vector" THEN k ELSE 1]]
    <3>1. x[1] = m.cells[k] /\ x[2] = (IF name = "sum" THEN c.cells[k] ELSE 1) /\ x[3] = 0
      BY <2>1, <2>2
    <3> HIDE DEF x
    <3>2. Cell("if", x) = IF x[1] # 0 THEN x[2] ELSE x[3]
      BY DEF Cell
    <3> QED
      BY <3>1, <3>2 DEF x
  <2>6. [k \in 1..n |-> Cell("if",
          [i \in DOMAIN vs |-> vs[i].cells[IF vs[i].is = "vector" THEN k ELSE 1]])] = parts
    BY <2>5
  <2> QED
    BY <2>3, <2>4, <2>6 DEF vs
<1>5. Apply("sum", <<Vector(parts)>>, "query") = Scalar(Reduced("sum", parts))
  <2>1. ~IsError(Vector(parts)) /\ Vector(parts).cells = parts
    BY DEF Vector, IsError
  <2>2. "sum" \in Reductions
    BY DEF Reductions
  <2> HIDE DEF parts
  <2> QED
    BY <2>1, <2>2, ApplyReduction
<1>6. Reduced(name, Picked(c.cells, at)) = Reduced("sum", parts)
  BY <1>1, MaskLaw
<1> HIDE DEF parts, at
<1> QED
  BY <1>3, <1>4, <1>5, <1>6

\* An expression as the builder lowers it, and as it was written.
Asked(e, t) == Worth(dag_rewrite(e), t, "query")
Written(e, t) == Worth(e, t, "eval")

\* An expression that is no masked sum or count is lowered as it stands.
LEMMA AskedOp ==
  ASSUME NEW e \in Exprs, e.expr \in {"op", "call"}, ~Masks(e, "Sum"), ~Masks(e, "Count"),
         NEW t, Typed(t)
  PROVE  Asked(e, t) = Apply(IF e.expr = "op" THEN as_str(e.op) ELSE e.name,
                             [i \in DOMAIN e.args |-> Asked(e.args[i], t)], "query")
<1> DEFINE new == [i \in DOMAIN e.args |-> dag_rewrite(e.args[i])]
           hd == IF e.expr = "op" THEN as_str(e.op) ELSE e.name
           d == dag_rewrite(e)
<1>1. d \in Exprs /\ d = IF e.expr = "op" THEN Op(e.op, new) ELSE Call(e.name, new)
  BY Rewrites
<1>2. /\ d.expr = e.expr /\ d.args = new
      /\ d.expr = "op" => d.op = e.op
      /\ d.expr = "call" => d.name = e.name
  <2> HIDE DEF new, d
  <2> QED
    BY <1>1 DEF Op, Call
<1>3. Worth(d, t, "query") = Apply(hd, [i \in DOMAIN new |-> Worth(new[i], t, "query")], "query")
  <2>1. Worth(d, t, "query") = Apply(IF d.expr = "op" THEN as_str(d.op) ELSE d.name,
                                  [i \in DOMAIN d.args |-> Worth(d.args[i], t, "query")], "query")
    BY <1>1, <1>2, Worths
  <2> HIDE DEF new, d
  <2> QED
    BY <1>2, <2>1
<1>4. [i \in DOMAIN new |-> Worth(new[i], t, "query")] = [i \in DOMAIN e.args |-> Asked(e.args[i], t)]
  BY DEF Asked
<1> HIDE DEF new
<1> QED
  BY <1>3, <1>4 DEF Asked

\* A masked sum or count is lowered to the sum of an if.
LEMMA AskedMask ==
  ASSUME NEW e \in Exprs, NEW op \in {"Sum", "Count"}, Masks(e, op), NEW t, Typed(t)
  PROVE  Asked(e, t) =
           Apply("sum", <<Apply("if", <<Asked(e.args[1].args[2], t),
                                        IF op = "Sum" THEN Asked(e.args[1].args[1], t) ELSE Scalar(1),
                                        Scalar(0)>>, "query")>>, "query")
<1> DEFINE c == dag_rewrite(e.args[1].args[1])
           m == dag_rewrite(e.args[1].args[2])
           share == IF op = "Sum" THEN c ELSE Lit(1)
           if == Op("If", <<m, share, Lit(0)>>)
           d == dag_rewrite(e)
<1>1. d \in Exprs /\ d = Op("Sum", <<if>>)
  <2>1. CASE op = "Sum"
    BY <2>1, Rewrites
  <2>2. CASE op = "Count"
    <3>1. ~Masks(e, "Sum")
      BY <2>2 DEF Masks, IsOp
    <3> QED
      BY <2>2, <3>1, Rewrites
  <2> QED
    BY <2>1, <2>2
<1> HIDE DEF d
<1>2. if \in Exprs
  <2> HIDE DEF if
  <2>1. <<if>> \in Seq(Exprs)
    BY <1>1, WorthOfOp
  <2> QED
    BY <2>1
<1>3. Worth(d, t, "query") = Apply("sum", <<Worth(if, t, "query")>>, "query")
  <2> HIDE DEF if
  <2>1. Worth(d, t, "query") = Apply(as_str("Sum"), [i \in DOMAIN <<if>> |-> Worth(<<if>>[i], t, "query")], "query")
    BY <1>1, WorthOfOp
  <2>2. [i \in DOMAIN <<if>> |-> Worth(<<if>>[i], t, "query")] = <<Worth(if, t, "query")>>
    OBVIOUS
  <2>3. as_str("Sum") = "sum"
    BY DEF as_str, BuiltinOf
  <2> QED
    BY <2>1, <2>2, <2>3
<1>4. Worth(if, t, "query") = Apply("if", <<Worth(m, t, "query"), Worth(share, t, "query"), Worth(Lit(0), t, "query")>>, "query")
  <2> HIDE DEF m, share
  <2>1. Worth(if, t, "query") = Apply(as_str("If"),
          [i \in DOMAIN <<m, share, Lit(0)>> |-> Worth(<<m, share, Lit(0)>>[i], t, "query")], "query")
    BY <1>2, WorthOfOp
  <2>2. [i \in DOMAIN <<m, share, Lit(0)>> |-> Worth(<<m, share, Lit(0)>>[i], t, "query")] =
          <<Worth(m, t, "query"), Worth(share, t, "query"), Worth(Lit(0), t, "query")>>
    OBVIOUS
  <2>3. as_str("If") = "if"
    BY DEF as_str, BuiltinOf
  <2> QED
    BY <2>1, <2>2, <2>3
<1>5. ASSUME NEW n \in Int PROVE Worth(Lit(n), t, "query") = Scalar(n)
  <2>1. Lit(n) \in Exprs /\ Lit(n).expr = "lit" /\ Lit(n).val = n
    BY LitLevel, HeightAssumption DEF Exprs, Lit
  <2> QED
    BY <2>1, Worths
<1>6. Worth(share, t, "query") = IF op = "Sum" THEN Worth(c, t, "query") ELSE Scalar(1)
  BY <1>5
<1> QED
  BY <1>3, <1>4, <1>5, <1>6 DEF Asked, d

\* What an answer shows of the builtin that gave it.
LEMMA ApplyGives ==
  ASSUME NEW name, NEW vs, NEW path, ~IsError(Apply(name, vs, path))
  PROVE  name \in Cellwise \cup Reductions \/ (name = "filter" /\ path = "eval")
BY ValueKinds DEF Apply

\* The rewrite is right about an expression.
Agrees(e, t) ==
  ~IsError(Written(e, t)) /\ (~IsError(Asked(e, t)) \/ OnlyMasks(e)) => Asked(e, t) = Written(e, t)

\* A masked sum or count as it was written.
LEMMA WrittenMask ==
  ASSUME NEW e \in Exprs, NEW op \in {"Sum", "Count"}, Masks(e, op), NEW t, Typed(t)
  PROVE  Written(e, t) =
           Apply(as_str(op), <<Apply("filter", <<Written(e.args[1].args[1], t),
                                                 Written(e.args[1].args[2], t)>>, "eval")>>, "eval")
<1> DEFINE f == e.args[1]
           c == f.args[1]
           m == f.args[2]
<1>1. e = Op(op, <<f>>) /\ f = Op("Filter", <<c, m>>) /\ f \in Exprs
  BY MaskShape
<1> HIDE DEF f, c, m
<1>2. Worth(e, t, "eval") = Apply(as_str(op), <<Worth(f, t, "eval")>>, "eval")
  <2>1. Worth(e, t, "eval") = Apply(as_str(op), [i \in DOMAIN <<f>> |-> Worth(<<f>>[i], t, "eval")], "eval")
    BY <1>1, WorthOfOp
  <2>2. [i \in DOMAIN <<f>> |-> Worth(<<f>>[i], t, "eval")] = <<Worth(f, t, "eval")>>
    OBVIOUS
  <2> QED
    BY <2>1, <2>2
<1>3. Worth(f, t, "eval") = Apply("filter", <<Worth(c, t, "eval"), Worth(m, t, "eval")>>, "eval")
  <2>1. Worth(f, t, "eval") =
          Apply(as_str("Filter"), [i \in DOMAIN <<c, m>> |-> Worth(<<c, m>>[i], t, "eval")], "eval")
    BY <1>1, WorthOfOp
  <2>2. [i \in DOMAIN <<c, m>> |-> Worth(<<c, m>>[i], t, "eval")] = <<Worth(c, t, "eval"), Worth(m, t, "eval")>>
    OBVIOUS
  <2>3. as_str("Filter") = "filter"
    BY DEF as_str, BuiltinOf
  <2> QED
    BY <2>1, <2>2, <2>3
<1> QED
  BY <1>2, <1>3 DEF Written, f, c, m

\* If the rewrite is right about what is lower, it is about a masked sum or count.
LEMMA AgreesOnMask ==
  ASSUME NEW e \in Exprs, NEW op \in {"Sum", "Count"}, Masks(e, op), NEW t, Typed(t),
         \A y \in Exprs : Height("expr")[y] < Height("expr")[e] => Agrees(y, t)
  PROVE  Agrees(e, t)
<1> DEFINE c == e.args[1].args[1]
           m == e.args[1].args[2]
           share == IF op = "Sum" THEN Asked(c, t) ELSE Scalar(1)
           if == Apply("if", <<Asked(m, t), share, Scalar(0)>>, "query")
           filter == Apply("filter", <<Written(c, t), Written(m, t)>>, "eval")
<1> SUFFICES ASSUME ~IsError(Written(e, t)), ~IsError(Asked(e, t)) \/ OnlyMasks(e)
             PROVE  Asked(e, t) = Written(e, t)
  BY DEF Agrees
<1>1. c \in Exprs /\ m \in Exprs /\ Agrees(c, t) /\ Agrees(m, t)
  <2>1. \A i \in 1..2 : /\ e.args[1].args[i] \in Exprs
                        /\ Height("expr")[e.args[1].args[i]] < Height("expr")[e]
    BY MaskShape
  <2>2. \A i \in 1..2 : e.args[1].args[i] \in Exprs /\ Agrees(e.args[1].args[i], t)
    BY <2>1
  <2> QED
    BY <2>2
<1>2. Asked(e, t) = Apply("sum", <<if>>, "query")
  BY AskedMask
<1>3. Written(e, t) = Apply(as_str(op), <<filter>>, "eval")
  BY WrittenMask
<1>4. OnlyMasks(e) => OnlyMasks(c) /\ OnlyMasks(m)
  BY Oks
<1> HIDE DEF c, m
<1>5. /\ Written(c, t) \in Values /\ Written(m, t) \in Values
      /\ Asked(c, t) \in Values /\ Asked(m, t) \in Values
  BY <1>1, Worths, Rewrites DEF Written, Asked
<1>6. share \in Values /\ if \in Values /\ filter \in Values
  <2>1. share \in Values
    BY <1>5, ValueKinds
  <2>2. Scalar(0) \in Values
    BY ValueKinds
  <2> HIDE DEF share
  <2>3. <<Asked(m, t), share, Scalar(0)>> \in Seq(Values) /\ <<Written(c, t), Written(m, t)>> \in Seq(Values)
    BY <1>5, <2>1, <2>2
  <2> QED
    BY <2>1, <2>3, ApplyType
<1>7. ~IsError(filter)
  <2> HIDE DEF filter
  <2>1. <<filter>> \in Seq(Values)
    BY <1>6
  <2>2. \A i \in DOMAIN <<filter>> : ~IsError(<<filter>>[i])
    BY <1>3, <2>1, ApplyType
  <2> QED
    BY <2>2
<1>8. /\ Written(c, t).is = "vector" /\ Written(m, t).is = "vector"
      /\ Len(Written(c, t).cells) = Len(Written(m, t).cells)
  BY <1>5, <1>7, ApplyFilter
<1>9. ~IsError(Asked(e, t)) => ~IsError(Asked(m, t)) /\ ~IsError(share)
  <2> SUFFICES ASSUME ~IsError(Asked(e, t)) PROVE ~IsError(Asked(m, t)) /\ ~IsError(share)
    OBVIOUS
  <2>1. ~IsError(if)
    <3> HIDE DEF if
    <3>1. <<if>> \in Seq(Values)
      BY <1>6
    <3>2. \A i \in DOMAIN <<if>> : ~IsError(<<if>>[i])
      BY <1>2, <3>1, ApplyType
    <3> QED
      BY <3>2
  <2> HIDE DEF share
  <2>2. <<Asked(m, t), share, Scalar(0)>> \in Seq(Values)
    BY <1>5, <1>6, ValueKinds
  <2>3. \A i \in DOMAIN <<Asked(m, t), share, Scalar(0)>> : ~IsError(<<Asked(m, t), share, Scalar(0)>>[i])
    BY <2>1, <2>2, ApplyType
  <2> QED
    BY <2>3
<1>10. Asked(m, t) = Written(m, t)
  <2>1. ~IsError(Written(m, t))
    BY <1>8 DEF IsError
  <2> QED
    BY <1>1, <1>4, <1>9, <2>1 DEF Agrees
<1>11. share = IF op = "Sum" THEN Written(c, t) ELSE Scalar(1)
  <2>1. ~IsError(Written(c, t))
    BY <1>8 DEF IsError
  <2> QED
    BY <1>1, <1>4, <1>9, <2>1 DEF Agrees
<1>12. as_str(op) \in {"sum", "count"} /\ (op = "Sum" <=> as_str(op) = "sum")
  BY DEF as_str, BuiltinOf
<1>13. Apply("sum", <<Apply("if", <<Written(m, t), share, Scalar(0)>>, "query")>>, "query")
         = Apply(as_str(op), <<filter>>, "eval")
  <2>1. share = IF as_str(op) = "sum" THEN Written(c, t) ELSE Scalar(1)
    BY <1>11, <1>12
  <2> HIDE DEF share
  <2> QED
    BY <1>5, <1>8, <1>12, <2>1, MaskedSum
<1> QED
  BY <1>2, <1>3, <1>10, <1>13

(* Over every table dag_rewrite (query.rs:29-74) is right about every      *)
(* expression: what it makes of one is worth what the expression is as it  *)
(* was written, whenever both are worth anything, and is never refused if  *)
(* the expression answers and its filters are masks.                       *)
THEOREM RewriteAgrees ==
  ASSUME NEW t, Typed(t)
  PROVE  \A e \in Exprs : Agrees(e, t)
<1> DEFINE P == {e \in Exprs : Agrees(e, t)}
<1>1. ASSUME NEW e \in Exprs, \A y \in Exprs : Height("expr")[y] < Height("expr")[e] => y \in P
      PROVE  e \in P
  <2>1. \A y \in Exprs : Height("expr")[y] < Height("expr")[e] => Agrees(y, t)
    BY <1>1
  <2>2. CASE Masks(e, "Sum") \/ Masks(e, "Count")
    BY <2>1, <2>2, AgreesOnMask
  <2>3. CASE ~Masks(e, "Sum") /\ ~Masks(e, "Count") /\ e.expr \in {"op", "call"}
    <3> SUFFICES ASSUME ~IsError(Written(e, t)), ~IsError(Asked(e, t)) \/ OnlyMasks(e)
                 PROVE  Asked(e, t) = Written(e, t)
      BY DEF Agrees
    <3> DEFINE hd == IF e.expr = "op" THEN as_str(e.op) ELSE e.name
               vs == [i \in DOMAIN e.args |-> Written(e.args[i], t)]
               ws == [i \in DOMAIN e.args |-> Asked(e.args[i], t)]
    <3>1. e.args \in Seq(Exprs) /\ \A i \in DOMAIN e.args : e.args[i] \in Exprs /\ Agrees(e.args[i], t)
      BY <2>1, <2>3, ExprShape
    <3>2. Asked(e, t) = Apply(hd, ws, "query")
      BY <2>3, AskedOp
    <3>3. Written(e, t) = Apply(hd, vs, "eval")
      BY <2>3, Worths DEF Written
    <3>4. vs \in Seq(Values) /\ ws \in Seq(Values)
      <4>1. \A i \in DOMAIN e.args : Written(e.args[i], t) \in Values /\ Asked(e.args[i], t) \in Values
        BY <3>1, Worths, Rewrites DEF Written, Asked
      <4> QED
        BY <3>1, <4>1
    <3>5. hd # "filter" /\ \A i \in DOMAIN e.args : ~IsError(Asked(e.args[i], t)) \/ OnlyMasks(e.args[i])
      <4>1. CASE ~IsError(Asked(e, t))
        <5>1. hd \in Cellwise \cup Reductions /\ \A i \in DOMAIN ws : ~IsError(ws[i])
          <6> HIDE DEF hd, ws, vs, P
          <6>1. ~IsError(Apply(hd, ws, "query"))
            BY <3>2, <4>1
          <6>2. \A i \in DOMAIN ws : ~IsError(ws[i])
            BY <3>4, <6>1, ApplyType
          <6>3. hd \in Cellwise \cup Reductions \/ (hd = "filter" /\ "query" = "eval")
            BY <6>1, ApplyGives
          <6> QED
            BY <6>2, <6>3
        <5> QED
          BY <5>1 DEF Cellwise, Reductions
      <4>2. CASE OnlyMasks(e)
        <5>1. e.expr = "op" => e.op \in Operations /\ e.op # "Filter"
          BY <2>3, <4>2, Oks, ExprShape
        <5>2. e.expr = "op" => as_str(e.op) # "filter"
          <6>1. \A op \in Operations : as_str(op) = "filter" => op = "Filter"
            BY DEF Operations, as_str, BuiltinOf
          <6> QED
            BY <5>1, <6>1
        <5> QED
          BY <2>3, <4>2, <5>2, Oks
      <4> QED
        BY <4>1, <4>2
    <3>6. \A i \in DOMAIN e.args : ~IsError(Written(e.args[i], t))
      <4>1. \A i \in DOMAIN vs : ~IsError(vs[i])
        <5> HIDE DEF hd, vs
        <5> QED
          BY <3>3, <3>4, ApplyType
      <4> QED
        BY <4>1
    <3>7. ws = vs
      BY <3>1, <3>5, <3>6 DEF Agrees
    <3>8. Apply(hd, vs, "query") = Apply(hd, vs, "eval")
      <4> HIDE DEF hd, vs
      <4> QED
        BY <3>5 DEF Apply
    <3> QED
      BY <3>2, <3>3, <3>7, <3>8
  <2>4. CASE ~Masks(e, "Sum") /\ ~Masks(e, "Count") /\ e.expr \in {"col", "lit"}
    <3>1. dag_rewrite(e) = e
      BY <2>4, Rewrites
    <3>2. Worth(e, t, "query") = Worth(e, t, "eval")
      BY <2>4, Worths
    <3> QED
      BY <3>1, <3>2 DEF Agrees, Asked, Written
  <2> QED
    BY <2>2, <2>3, <2>4, ExprShape
<1>2. Climbs(Exprs, Height("expr"), P)
  <2> HIDE DEF P
  <2> QED
    BY <1>1, ExprHeights DEF Climbs
<1>3. Exprs \subseteq P
  <2> HIDE DEF P
  <2> QED
    BY <1>2, Climbing
<1> QED
  BY <1>3

-----------------------------------------------------------------------------
(* Tables.                                                                 *)

\* A table is columns of integers, as many in each as it has rows.
LEMMA TableType ==
  ASSUME NEW t, IsTable(t)
  PROVE  /\ NRows(t) \in Nat /\ Typed(t) /\ t = [c \in DOMAIN t |-> t[c]]
         /\ \A c \in DOMAIN t : t[c] \in Seq(Int) /\ Len(t[c]) = NRows(t)
         /\ DOMAIN t = {} => NRows(t) = 0
<1>1. NRows(t) \in Nat
  BY DEF IsTable, NRows
<1> QED
  BY <1>1 DEF IsTable, Typed, NRows

(* Rows of a table make a table.                                           *)
LEMMA RowsType ==
  ASSUME NEW t, IsTable(t), NEW at \in Seq(1..NRows(t))
  PROVE  /\ IsTable(Rows(t, at)) /\ DOMAIN Rows(t, at) = DOMAIN t
         /\ DOMAIN t # {} => NRows(Rows(t, at)) = Len(at)
<1> DEFINE u == Rows(t, at)
<1>1. DOMAIN u = DOMAIN t /\ u = [c \in DOMAIN u |-> u[c]]
  BY DEF Rows
<1>2. \A c \in DOMAIN t : u[c] \in Seq(Int) /\ Len(u[c]) = Len(at)
  <2> SUFFICES ASSUME NEW c \in DOMAIN t PROVE u[c] \in Seq(Int) /\ Len(u[c]) = Len(at)
    OBVIOUS
  <2>1. u[c] = Picked(t[c], at)
    BY DEF Rows
  <2>2. t[c] \in Seq(Int) /\ Len(t[c]) = NRows(t) /\ NRows(t) \in Nat
    BY TableType
  <2>3. Picked(t[c], at) \in Seq(Int) /\ Len(Picked(t[c], at)) = Len(at)
    BY <2>2, PickedType
  <2> QED
    BY <2>1, <2>3
<1> HIDE DEF u
<1>3. DOMAIN t # {} => NRows(u) = Len(at)
  BY <1>1, <1>2 DEF NRows
<1>4. IsTable(u)
  BY <1>1, <1>2, <1>3 DEF IsTable
<1> QED
  BY <1>1, <1>3, <1>4 DEF u

(* What a builder asks for is, over a table, an error, a scalar or a       *)
(* vector of one cell for each row.                                        *)
LEMMA AskedFits ==
  ASSUME NEW t, IsTable(t), NEW e \in Exprs
  PROVE  Asked(e, t) \in Fits(NRows(t)) /\ Asked(e, t) \in Values /\ Written(e, t) \in Values
<1>1. dag_rewrite(e) \in Exprs
  BY Rewrites
<1>2. compile(dag_rewrite(e)) \in Asts
  BY <1>1, Compiles
<1>3. Asked(e, t) \in Fits(NRows(t))
  BY <1>2, TableType, EvaluatesToFit DEF Asked, Worth
<1>4. Asked(e, t) \in Values
  BY <1>3, FitsAreValues, TableType
<1>5. Written(e, t) \in Values
  BY TableType, Worths DEF Written
<1> QED
  BY <1>3, <1>4, <1>5

(* The condition that two conditions make.                                 *)
LEMMA AndLaw ==
  ASSUME NEW n \in Nat, NEW x \in Fits(n), NEW y \in Fits(n)
  PROVE  /\ IsError(Apply("and", <<x, y>>, "query")) <=> IsError(x) \/ IsError(y)
         /\ ~IsError(x) /\ ~IsError(y) =>
              Kept(Apply("and", <<x, y>>, "query"), n) = Kept(x, n) \cap Kept(y, n)
<1> DEFINE vs == <<x, y>>
<1>1. vs \in Seq(Values) /\ Len(vs) = 2 /\ DOMAIN vs = 1..2 /\ vs[1] = x /\ vs[2] = y
  BY FitsAreValues
<1>2. Arity("and") = 2 /\ "and" \in Cellwise
  BY DEF Arity, Cellwise, Reductions
<1> HIDE DEF vs
<1>3. IsError(Apply("and", vs, "query")) <=> IsError(x) \/ IsError(y)
  <2>1. (\E i \in DOMAIN vs : IsError(vs[i])) <=> IsError(x) \/ IsError(y)
    BY <1>1
  <2>2. \A i \in DOMAIN vs : vs[i] \in Fits(n)
    BY <1>1
  <2>3. ~IsError(Apply("and", vs, "query")) => \A i \in DOMAIN vs : ~IsError(vs[i])
    BY <1>1, ApplyType
  <2>4. (\A i \in DOMAIN vs : ~IsError(vs[i])) => Apply("and", vs, "query") = Pointed("and", vs)
    BY <1>1, <1>2 DEF Apply
  <2>5. (\A i \in DOMAIN vs : ~IsError(vs[i])) => ~IsError(Pointed("and", vs))
    BY <1>1, <1>2, <2>2, PointedType
  <2> QED
    BY <2>1, <2>3, <2>4, <2>5
<1>4. ASSUME ~IsError(x), ~IsError(y)
      PROVE  Kept(Apply("and", vs, "query"), n) = Kept(x, n) \cap Kept(y, n)
  <2>1. Apply("and", vs, "query") = Pointed("and", vs)
    BY <1>1, <1>2, <1>4 DEF Apply
  <2>2. /\ x.is \in {"scalar", "vector"} /\ (x.is = "vector" => Len(x.cells) = n)
        /\ y.is \in {"scalar", "vector"} /\ (y.is = "vector" => Len(y.cells) = n)
    BY <1>4, FitsAreValues, ValueShape DEF IsError
  <2>3. ASSUME NEW r \in 1..n
        PROVE  Stretched(Pointed("and", vs), n)[r] = Bit(Stretched(x, n)[r] # 0 /\ Stretched(y, n)[r] # 0)
    <3>1. CASE x.is = "scalar" /\ y.is = "scalar"
      <4>1. \A i \in DOMAIN vs : vs[i].is # "vector"
        BY <1>1, <3>1
      <4>2. Pointed("and", vs) = Scalar(Cell("and", [i \in DOMAIN vs |-> vs[i].cells[1]]))
        BY <4>1, PointedCases
      <4>3. Cell("and", [i \in DOMAIN vs |-> vs[i].cells[1]]) = Bit(x.cells[1] # 0 /\ y.cells[1] # 0)
        BY <1>1 DEF Cell
      <4> QED
        BY <3>1, <4>2, <4>3 DEF Stretched, Scalar
    <3>2. CASE x.is = "vector" \/ y.is = "vector"
      <4>1. \E i \in DOMAIN vs : vs[i].is = "vector"
        BY <1>1, <3>2
      <4>2. \A i \in DOMAIN vs : vs[i].is = "vector" => Len(vs[i].cells) = n
        BY <1>1, <2>2
      <4>3. Pointed("and", vs) = Vector([k \in 1..n |-> Cell("and",
              [i \in DOMAIN vs |-> vs[i].cells[IF vs[i].is = "vector" THEN k ELSE 1]])])
        BY <4>1, <4>2, PointedCases
      <4>4. Cell("and", [i \in DOMAIN vs |-> vs[i].cells[IF vs[i].is = "vector" THEN r ELSE 1]])
              = Bit(Stretched(x, n)[r] # 0 /\ Stretched(y, n)[r] # 0)
        <5>1. \A v : Stretched(v, n)[r] = v.cells[IF v.is = "vector" THEN r ELSE 1]
          BY DEF Stretched
        <5> QED
          BY <1>1, <5>1 DEF Cell
      <4> QED
        BY <4>3, <4>4 DEF Stretched, Vector
    <3> QED
      BY <2>2, <3>1, <3>2
  <2>4. \A b : Bit(b) # 0 <=> b
    BY DEF Bit
  <2> QED
    BY <2>1, <2>3, <2>4 DEF Kept
<1> QED
  BY <1>3, <1>4 DEF vs

-----------------------------------------------------------------------------
(* Combined.                                                               *)

\* The filters a builder can hold.
Wheres == {ws \in Seq(Preds) : Len(ws) <= MaxCalls}

\* The first k filters as one: f, step by step.
Folds(f, ws) == f = [k \in 1..Len(ws) |-> IF k = 1 THEN ws[1] ELSE Op("And", <<f[k - 1], ws[k]>>)]

\* One more filter makes the fold higher by one.
LEMMA FoldLevel ==
  ASSUME NEW ws \in Wheres, NEW k \in 1..Len(ws), NEW f,
         k # 1 => f[k - 1] \in Nested("expr", MaxHeight - MaxCalls + (k - 1) - 1),
         f[k] = IF k = 1 THEN ws[1] ELSE Op("And", <<f[k - 1], ws[k]>>)
  PROVE  f[k] \in Nested("expr", MaxHeight - MaxCalls + k - 1)
<1> DEFINE low == MaxHeight - MaxCalls
<1>1. low \in Nat /\ k \in Nat /\ k >= 1 /\ ws[k] \in Preds /\ Preds \subseteq Nested("expr", low)
  BY HeightAssumption, CallsAssumption DEF Wheres
<1> HIDE DEF low
<1>2. CASE k = 1
  <2>1. low + k - 1 = low
    BY <1>1, <1>2
  <2> QED
    BY <1>1, <1>2, <2>1 DEF low
<1>3. CASE k # 1
  <2>1. low + (k - 1) - 1 \in Nat /\ low <= low + (k - 1) - 1 /\ (low + (k - 1) - 1) + 1 = low + k - 1
    BY <1>1, <1>3
  <2>2. ws[k] \in Nested("expr", low + (k - 1) - 1)
    BY <1>1, <2>1, LevelsGrow
  <2>3. f[k - 1] \in Nested("expr", low + (k - 1) - 1)
    BY <1>3 DEF low
  <2> DEFINE X == Nested("expr", low + (k - 1) - 1)
  <2>4. <<f[k - 1], ws[k]>> \in Seq(X)
    <3> HIDE DEF X
    <3>1. f[k - 1] \in X /\ ws[k] \in X
      BY <2>2, <2>3 DEF X
    <3> QED
      BY <3>1
  <2>5. "And" \in Operations
    BY DEF Operations, BuiltinOf
  <2>6. Op("And", <<f[k - 1], ws[k]>>) \in Nested("expr", (low + (k - 1) - 1) + 1)
    BY <2>1, <2>4, <2>5, OpLevel
  <2> QED
    BY <1>3, <2>1, <2>6 DEF low
<1> QED
  BY <1>2, <1>3

\* Folding filters gives expressions.
LEMMA FoldsAreExprs ==
  ASSUME NEW ws \in Wheres, NEW f,
         \A k \in 1..Len(ws) :
           LET x == IF k = 1 THEN ws[1] ELSE Op("And", <<f[k - 1], ws[k]>>)
           IN  x \in Exprs => f[k] = x
  PROVE  /\ \A k \in 1..Len(ws) : f[k] \in Exprs
         /\ \A k \in 1..Len(ws) : f[k] = IF k = 1 THEN ws[1] ELSE Op("And", <<f[k - 1], ws[k]>>)
<1> DEFINE x(k) == IF k = 1 THEN ws[1] ELSE Op("And", <<f[k - 1], ws[k]>>)
           level(k) == MaxHeight - MaxCalls + k - 1
           T == {k \in Nat : k \in 1..Len(ws) => f[k] \in Nested("expr", level(k)) /\ f[k] = x(k)}
<1>1. \A k \in 1..Len(ws) : x(k) \in Exprs => f[k] = x(k)
  OBVIOUS
<1>2. \A k \in 1..Len(ws) : level(k) \in Nat /\ level(k) <= MaxHeight
  BY HeightAssumption, CallsAssumption DEF Wheres
<1>3. \A k \in 1..Len(ws) : Nested("expr", level(k)) \subseteq Exprs
  <2> HIDE DEF level
  <2> QED
    BY <1>2, HeightAssumption, LevelsGrow DEF Exprs
<1>4. ASSUME NEW k \in 1..Len(ws), k # 1 => k - 1 \in T
      PROVE  f[k] \in Nested("expr", level(k)) /\ f[k] = x(k)
  <2>1. k # 1 => k - 1 \in 1..Len(ws)
    OBVIOUS
  <2>2. k # 1 => f[k - 1] \in Nested("expr", MaxHeight - MaxCalls + (k - 1) - 1)
    BY <1>4, <2>1
  <2> DEFINE g == [j \in {k - 1, k} |-> IF j = k THEN x(k) ELSE f[k - 1]]
  <2>3. g[k] = x(k) /\ g[k - 1] = f[k - 1]
    OBVIOUS
  <2>4. /\ k # 1 => g[k - 1] \in Nested("expr", MaxHeight - MaxCalls + (k - 1) - 1)
        /\ g[k] = IF k = 1 THEN ws[1] ELSE Op("And", <<g[k - 1], ws[k]>>)
    BY <2>2, <2>3
  <2> HIDE DEF g
  <2>5. g[k] \in Nested("expr", MaxHeight - MaxCalls + k - 1)
    BY <2>4, FoldLevel
  <2>6. x(k) \in Exprs
    BY <1>3, <2>3, <2>5
  <2>7. f[k] = x(k)
    BY <1>1, <2>6
  <2> QED
    BY <2>3, <2>5, <2>7
<1>5. 0 \in T
  OBVIOUS
<1>6. \A k \in Nat : k \in T => k + 1 \in T
  <2> SUFFICES ASSUME NEW k \in Nat, k \in T, k + 1 \in 1..Len(ws)
               PROVE  f[k + 1] \in Nested("expr", level(k + 1)) /\ f[k + 1] = x(k + 1)
    OBVIOUS
  <2>1. (k + 1) - 1 \in T
    OBVIOUS
  <2> HIDE DEF T, x, level
  <2> QED
    BY <1>4, <2>1
<1>7. Nat \subseteq T
  <2> HIDE DEF T
  <2> QED
    BY <1>5, <1>6, NatSets
<1>8. \A k \in 1..Len(ws) : k \in T
  BY <1>7 DEF Wheres
<1>9. \A k \in 1..Len(ws) : f[k] \in Nested("expr", level(k)) /\ f[k] = x(k)
  BY <1>8
<1> QED
  BY <1>3, <1>9

\* The recursion of Combined defines a function.
LEMMA FoldsExist ==
  ASSUME NEW ws \in Wheres
  PROVE  \E f : Folds(f, ws)
<1> DEFINE S == 1..Len(ws)
           Body(f, k) == IF k = 1 THEN ws[1] ELSE Op("And", <<f[k - 1], ws[k]>>)
           D == [k \in S |-> [g \in [S -> Exprs] |-> IF Body(g, k) \in Exprs THEN Body(g, k) ELSE Lit(0)]]
           id == [k \in S |-> k]
<1>1. Lit(0) \in Exprs
  BY LitLevel, HeightAssumption DEF Exprs
<1>2. D \in [S -> [[S -> Exprs] -> Exprs]]
  <2> HIDE DEF Body, S
  <2> QED
    BY <1>1
<1>3. ASSUME NEW k \in S, NEW g \in [S -> Exprs], NEW h \in [S -> Exprs],
             \A j \in S : id[j] < id[k] => g[j] = h[j]
      PROVE  D[k][g] = D[k][h]
  <2>1. k # 1 => k - 1 \in S /\ id[k - 1] < id[k]
    OBVIOUS
  <2>2. k # 1 => g[k - 1] = h[k - 1]
    BY <1>3, <2>1
  <2>3. Body(g, k) = Body(h, k)
    BY <2>2
  <2> HIDE DEF Body, S
  <2> QED
    BY <2>3
<1>4. Descends(S, Exprs, id, D)
  <2>1. id \in [S -> Nat]
    OBVIOUS
  <2> HIDE DEF D, id, S
  <2> QED
    BY <1>2, <1>3, <2>1 DEF Descends
<1>5. PICK f \in [S -> Exprs] : \A k \in S : f[k] = D[k][f]
  <2> HIDE DEF D, id, S
  <2> QED
    BY <1>1, <1>4, Recursion
<1>6. \A k \in S : Body(f, k) \in Exprs => f[k] = Body(f, k)
  <2> HIDE DEF Body, S
  <2> QED
    BY <1>5
<1>7. \A k \in S : f[k] = Body(f, k)
  BY <1>6, FoldsAreExprs
<1>8. f = [k \in S |-> Body(f, k)]
  <2> HIDE DEF Body, S
  <2> QED
    BY <1>7
<1> QED
  BY <1>8 DEF Folds

(* The fold of the filters, step by step.                                  *)
LEMMA CombinedSteps ==
  ASSUME NEW ws \in Wheres, ws # <<>>
  PROVE  \E f : /\ \A k \in 1..Len(ws) : f[k] \in Exprs
                /\ f[1] = ws[1] /\ f[Len(ws)] = Combined(ws)
                /\ \A k \in 1..Len(ws) : k # 1 => f[k] = Op("And", <<f[k - 1], ws[k]>>)
<1> DEFINE F == CHOOSE f : Folds(f, ws)
<1>1. Combined(ws) = F[Len(ws)]
  BY DEF Combined, Folds
<1>2. Folds(F, ws)
  BY FoldsExist
<1> HIDE DEF F
<1>3. \A k \in 1..Len(ws) : F[k] = IF k = 1 THEN ws[1] ELSE Op("And", <<F[k - 1], ws[k]>>)
  BY <1>2 DEF Folds
<1>4. \A k \in 1..Len(ws) : F[k] \in Exprs
  BY <1>3, FoldsAreExprs
<1>5. 1 \in 1..Len(ws)
  BY DEF Wheres
<1> QED
  BY <1>1, <1>3, <1>4, <1>5

\* The conjunction of two filters is lowered to that of both.
LEMMA AskedAnd ==
  ASSUME NEW t, IsTable(t), NEW x \in Exprs, NEW y \in Exprs, Op("And", <<x, y>>) \in Exprs
  PROVE  Asked(Op("And", <<x, y>>), t) = Apply("and", <<Asked(x, t), Asked(y, t)>>, "query")
<1> DEFINE e == Op("And", <<x, y>>)
<1>1. e.expr = "op" /\ e.op = "And" /\ e.args = <<x, y>>
  BY DEF Op
<1> HIDE DEF e
<1>2. ~Masks(e, "Sum") /\ ~Masks(e, "Count")
  BY <1>1 DEF Masks, IsOp
<1>3. Asked(e, t) = Apply(IF e.expr = "op" THEN as_str(e.op) ELSE e.name,
                          [i \in DOMAIN e.args |-> Asked(e.args[i], t)], "query")
  <2>1. e \in Exprs
    BY DEF e
  <2> QED
    BY <1>1, <1>2, <2>1, TableType, AskedOp
<1>4. as_str("And") = "and"
  BY DEF as_str, BuiltinOf
<1>5. [i \in DOMAIN e.args |-> Asked(e.args[i], t)] = <<Asked(x, t), Asked(y, t)>>
  BY <1>1
<1> QED
  BY <1>1, <1>3, <1>4, <1>5 DEF e

\* The rows all of some values let pass.
Passing(ws, t, k) ==
  {r \in 1..NRows(t) : \A i \in 1..k : Stretched(Asked(ws[i], t), NRows(t))[r] # 0}

(* The fold of the filters (query.rs:190-201) fails if one of them does,   *)
(* and otherwise lets pass the rows that all of them do.                   *)
THEOREM FiltersFold ==
  ASSUME NEW t, IsTable(t), NEW ws \in Wheres, ws # <<>>
  PROVE  /\ Combined(ws) \in Exprs
         /\ IsError(Asked(Combined(ws), t)) <=> \E i \in 1..Len(ws) : IsError(Asked(ws[i], t))
         /\ ~IsError(Asked(Combined(ws), t)) =>
              Kept(Asked(Combined(ws), t), NRows(t)) = Passing(ws, t, Len(ws))
<1> DEFINE n == NRows(t)
           Right(f, k) ==
             /\ IsError(Asked(f[k], t)) <=> \E i \in 1..k : IsError(Asked(ws[i], t))
             /\ ~IsError(Asked(f[k], t)) => Kept(Asked(f[k], t), n) = Passing(ws, t, k)
<1>1. PICK f : /\ \A k \in 1..Len(ws) : f[k] \in Exprs
               /\ f[1] = ws[1] /\ f[Len(ws)] = Combined(ws)
               /\ \A k \in 1..Len(ws) : k # 1 => f[k] = Op("And", <<f[k - 1], ws[k]>>)
  BY CombinedSteps
<1>2. n \in Nat
  BY TableType
<1>3. Len(ws) \in Nat /\ 1 \in 1..Len(ws) /\ Len(ws) \in 1..Len(ws)
  BY DEF Wheres
<1>4. \A k \in 1..Len(ws) : ws[k] \in Exprs
  <2>1. MaxHeight - MaxCalls \in Nat /\ MaxHeight - MaxCalls <= MaxHeight
    BY HeightAssumption, CallsAssumption
  <2>2. Preds \subseteq Exprs
    BY <2>1, CallsAssumption, HeightAssumption, LevelsGrow DEF Exprs
  <2> QED
    BY <2>2 DEF Wheres
<1>5. \A k \in 1..Len(ws) : Asked(ws[k], t) \in Fits(n) /\ Asked(f[k], t) \in Fits(n)
  BY <1>1, <1>4, AskedFits
<1>6. Right(f, 1)
  <2>1. Kept(Asked(ws[1], t), n) = Passing(ws, t, 1)
    BY DEF Kept, Passing
  <2> QED
    BY <1>1, <2>1
<1>7. ASSUME NEW k \in 1..Len(ws), k # 1, Right(f, k - 1) PROVE Right(f, k)
  <2> DEFINE x == Asked(f[k - 1], t)
             y == Asked(ws[k], t)
             z == Asked(f[k], t)
  <2>1. k - 1 \in 1..Len(ws) /\ 1..k = (1..(k - 1)) \cup {k}
    BY <1>3, <1>7
  <2>2. z = Apply("and", <<x, y>>, "query")
    <3>1. f[k] = Op("And", <<f[k - 1], ws[k]>>) /\ f[k] \in Exprs /\ f[k - 1] \in Exprs /\ ws[k] \in Exprs
      BY <1>1, <1>4, <1>7, <2>1
    <3> QED
      BY <3>1, AskedAnd
  <2>3. x \in Fits(n) /\ y \in Fits(n)
    BY <1>5, <2>1
  <2> HIDE DEF z
  <2>4. IsError(z) <=> IsError(x) \/ IsError(y)
    <3> HIDE DEF x, y, n
    <3> QED
      BY <1>2, <2>2, <2>3, AndLaw
  <2>5. ~IsError(x) /\ ~IsError(y) => Kept(z, n) = Kept(x, n) \cap Kept(y, n)
    <3> HIDE DEF x, y, n
    <3> QED
      BY <1>2, <2>2, <2>3, AndLaw
  <2>6. IsError(x) <=> \E i \in 1..(k - 1) : IsError(Asked(ws[i], t))
    BY <1>7
  <2>7. ~IsError(x) => Kept(x, n) = Passing(ws, t, k - 1)
    BY <1>7
  <2>8. IsError(z) <=> \E i \in 1..k : IsError(Asked(ws[i], t))
    BY <2>1, <2>4, <2>6
  <2>9. Passing(ws, t, k) = Passing(ws, t, k - 1) \cap Kept(y, n)
    BY <2>1 DEF Passing, Kept
  <2>10. ~IsError(z) => Kept(z, n) = Passing(ws, t, k)
    <3> HIDE DEF x, y, n
    <3> QED
      BY <2>4, <2>5, <2>7, <2>9
  <2> QED
    BY <2>8, <2>10 DEF z
<1> HIDE DEF Right
<1>8. \A k \in 1..Len(ws) : Right(f, k)
  <2> DEFINE T == {k \in Nat : k \in 1..Len(ws) => Right(f, k)}
  <2>1. 0 \in T
    BY <1>3
  <2>2. \A k \in Nat : k \in T => k + 1 \in T
    <3> SUFFICES ASSUME NEW k \in Nat, k \in T, k + 1 \in 1..Len(ws) PROVE Right(f, k + 1)
      OBVIOUS
    <3>1. CASE k = 0
      BY <1>6, <3>1
    <3>2. CASE k # 0
      <4>1. k \in 1..Len(ws) /\ (k + 1) - 1 = k /\ k + 1 # 1
        BY <1>3, <3>2
      <4>2. Right(f, (k + 1) - 1)
        BY <4>1
      <4> QED
        BY <1>7, <4>1, <4>2
    <3> QED
      BY <3>1, <3>2
  <2>3. Nat \subseteq T
    <3> HIDE DEF T
    <3> QED
      BY <2>1, <2>2, NatSets
  <2> QED
    BY <1>3, <2>3
<1>9. Right(f, Len(ws))
  BY <1>3, <1>8
<1> QED
  BY <1>1, <1>3, <1>9 DEF Right

(* The condition of a dict of the builder's.                               *)
LEMMA MaskOfWheres ==
  ASSUME NEW t, IsTable(t), NEW ws \in Wheres, NEW d, d.from = t,
         d.where = IF ws = <<>> THEN <<>> ELSE <<compile_query_expr(Combined(ws))>>
  PROVE  /\ IsError(MaskOf(d)) <=> \E i \in 1..Len(ws) : IsError(Asked(ws[i], t))
         /\ ~IsError(MaskOf(d)) => Kept(MaskOf(d), NRows(t)) = Passing(ws, t, Len(ws))
<1>1. CASE ws = <<>>
  <2>1. MaskOf(d) = Scalar(1) /\ Len(ws) = 0 /\ 1..Len(ws) = {}
    BY <1>1 DEF MaskOf
  <2>2. ~IsError(Scalar(1)) /\ \A n, r : r \in 1..n => Stretched(Scalar(1), n)[r] = 1
    BY DEF Scalar, IsError, Stretched
  <2>3. Kept(Scalar(1), NRows(t)) = 1..NRows(t)
    BY <2>2 DEF Kept
  <2>4. Passing(ws, t, Len(ws)) = 1..NRows(t)
    BY <2>1 DEF Passing
  <2> QED
    BY <2>1, <2>2, <2>3, <2>4
<1>2. CASE ws # <<>>
  <2>1. d.where = <<compile_query_expr(Combined(ws))>> /\ d.where # <<>>
    BY <1>2
  <2>2. MaskOf(d) = Lowered(compile_query_expr(Combined(ws)), t)
    BY <2>1 DEF MaskOf
  <2>3. MaskOf(d) = Asked(Combined(ws), t)
    BY <2>2 DEF Lowered, compile_query_expr, Asked, Worth
  <2> QED
    BY <1>2, <2>3, FiltersFold
<1> QED
  BY <1>1, <1>2

-----------------------------------------------------------------------------
(* Answers.                                                                *)

\* Expressions by name, and what they are worth over a table.
Named(P) == \A c \in DOMAIN P : P[c] \in Exprs
AllAsked(P, t) == [c \in DOMAIN P |-> Asked(P[c], t)]
AllWritten(P, t) == [c \in DOMAIN P |-> Written(P[c], t)]

\* Of the two ways to evaluate the one as written answers, and so does the
\* other or it has no filter to stumble over.
BothAnswer(P, t) ==
  \A c \in DOMAIN P : /\ ~IsError(Written(P[c], t))
                      /\ ~IsError(Asked(P[c], t)) \/ OnlyMasks(P[c])

\* Named expressions are worth what they were as written.
LEMMA SameValues ==
  ASSUME NEW t, IsTable(t), NEW P, Named(P), BothAnswer(P, t)
  PROVE  AllAsked(P, t) = AllWritten(P, t)
<1>1. \A c \in DOMAIN P : Asked(P[c], t) = Written(P[c], t)
  <2> SUFFICES ASSUME NEW c \in DOMAIN P PROVE Asked(P[c], t) = Written(P[c], t)
    OBVIOUS
  <2>1. Agrees(P[c], t)
    BY TableType, RewriteAgrees DEF Named
  <2>2. ~IsError(Written(P[c], t)) /\ (~IsError(Asked(P[c], t)) \/ OnlyMasks(P[c]))
    BY DEF BothAnswer
  <2> QED
    BY <2>1, <2>2 DEF Agrees
<1> QED
  BY <1>1 DEF AllAsked, AllWritten

\* A select of failed projections fails.
LEMMA SpreadFine ==
  ASSUME NEW vs, ~IsError(Spread(vs))
  PROVE  \A c \in DOMAIN vs : ~IsError(vs[c])
BY DEF Spread, IsError, Error

\* Groups answer only with scalars.
LEMMA GatheredFine ==
  ASSUME NEW keys, NEW n, NEW vals, ~IsError(Gathered(keys, n, vals))
  PROVE  \A c \in DOMAIN vals : \A g \in DOMAIN Firsts(keys, n) : vals[c][g].is = "scalar"
BY DEF Gathered, IsError, Error

\* The table of the group that comes up as the g-th.
GroupOf(t, keys, g) == Rows(t, Group(keys, NRows(t), Firsts(keys, NRows(t))[g]))

\* The rows of a group make a table.
LEMMA GroupType ==
  ASSUME NEW t, IsTable(t), NEW keys, NEW g
  PROVE  IsTable(GroupOf(t, keys, g))
<1> DEFINE n == NRows(t)
           r == Firsts(keys, n)[g]
           S == {q \in 1..n : Key(keys, n, q) = Key(keys, n, r)}
           at == Ascending(S, n)
<1>1. n \in Nat
  BY TableType
<1> HIDE DEF n, r
<1>2. at \in Seq((1..n) \cap S)
  <2> HIDE DEF S
  <2> QED
    BY <1>1, AscendingType
<1>3. (1..n) \cap S \subseteq 1..n
  OBVIOUS
<1> HIDE DEF S, at
<1>4. at \in Seq(1..n)
  <2> DEFINE X == (1..n) \cap S
             Y == 1..n
  <2>1. X \subseteq Y /\ at \in Seq(X)
    BY <1>2, <1>3
  <2> HIDE DEF X, Y
  <2>2. at \in Seq(Y)
    BY <2>1, SeqMonotonic
  <2> QED
    BY <2>2 DEF Y
<1>5. IsTable(Rows(t, at))
  BY <1>4, RowsType DEF n
<1> QED
  BY <1>5 DEF GroupOf, Group, at, S, n, r

\* What the groups of a select are worth, asked and as written.
AskedGroups(P, t, keys) ==
  [c \in DOMAIN P |-> [g \in DOMAIN Firsts(keys, NRows(t)) |-> Asked(P[c], GroupOf(t, keys, g))]]
WrittenGroups(P, t, keys) ==
  [c \in DOMAIN P |-> [g \in DOMAIN Firsts(keys, NRows(t)) |-> Written(P[c], GroupOf(t, keys, g))]]

\* The two evaluations of named expressions, by name.
LEMMA CompiledIs ==
  ASSUME NEW P, NEW t
  PROVE  /\ DOMAIN Compiled(P) = DOMAIN P
         /\ \A c \in DOMAIN P : Lowered(Compiled(P)[c], t) = Asked(P[c], t)
         /\ \A e : Denotes(e, t) = Written(e, t)
         /\ [c \in DOMAIN Compiled(P) |-> Lowered(Compiled(P)[c], t)] = AllAsked(P, t)
         /\ [c \in DOMAIN P |-> Denotes(P[c], t)] = AllWritten(P, t)
BY DEF Compiled, compile_query_expr, Lowered, Denotes, Asked, Written, Worth, AllAsked, AllWritten

\* The two evaluations of a grouped select, in terms of its values.
LEMMA GroupedIs ==
  ASSUME NEW t, NEW P, NEW B
  PROVE  /\ Grouped(t, Compiled(P), Compiled(B), Lowered) =
              IF \E c \in DOMAIN AllAsked(B, t) : IsError(AllAsked(B, t)[c]) THEN Error
              ELSE Gathered(AllAsked(B, t), NRows(t), AskedGroups(P, t, AllAsked(B, t)))
         /\ Grouped(t, P, B, Denotes) =
              IF \E c \in DOMAIN AllWritten(B, t) : IsError(AllWritten(B, t)[c]) THEN Error
              ELSE Gathered(AllWritten(B, t), NRows(t), WrittenGroups(P, t, AllWritten(B, t)))
<1>1. [c \in DOMAIN Compiled(B) |-> Lowered(Compiled(B)[c], t)] = AllAsked(B, t)
  BY CompiledIs
<1>2. [c \in DOMAIN B |-> Denotes(B[c], t)] = AllWritten(B, t)
  BY CompiledIs
<1>3. \A keys : [c \in DOMAIN Compiled(P) |-> [g \in DOMAIN Firsts(keys, NRows(t)) |->
                   Lowered(Compiled(P)[c], Rows(t, Group(keys, NRows(t), Firsts(keys, NRows(t))[g])))]]
                = AskedGroups(P, t, keys)
  <2> SUFFICES ASSUME NEW keys
               PROVE  [c \in DOMAIN Compiled(P) |-> [g \in DOMAIN Firsts(keys, NRows(t)) |->
                         Lowered(Compiled(P)[c], GroupOf(t, keys, g))]] = AskedGroups(P, t, keys)
    BY DEF GroupOf
  <2>1. \A c \in DOMAIN P : [g \in DOMAIN Firsts(keys, NRows(t)) |-> Lowered(Compiled(P)[c], GroupOf(t, keys, g))]
                           = [g \in DOMAIN Firsts(keys, NRows(t)) |-> Asked(P[c], GroupOf(t, keys, g))]
    BY CompiledIs
  <2>2. DOMAIN Compiled(P) = DOMAIN P
    BY CompiledIs
  <2> QED
    BY <2>1, <2>2 DEF AskedGroups
<1>4. \A keys : [c \in DOMAIN P |-> [g \in DOMAIN Firsts(keys, NRows(t)) |->
                   Denotes(P[c], Rows(t, Group(keys, NRows(t), Firsts(keys, NRows(t))[g])))]]
                = WrittenGroups(P, t, keys)
  BY CompiledIs DEF WrittenGroups, GroupOf
<1>5. Grouped(t, Compiled(P), Compiled(B), Lowered) =
        IF \E c \in DOMAIN AllAsked(B, t) : IsError(AllAsked(B, t)[c]) THEN Error
        ELSE Gathered(AllAsked(B, t), NRows(t), AskedGroups(P, t, AllAsked(B, t)))
  BY <1>1, <1>3 DEF Grouped
<1>6. Grouped(t, P, B, Denotes) =
        IF \E c \in DOMAIN AllWritten(B, t) : IsError(AllWritten(B, t)[c]) THEN Error
        ELSE Gathered(AllWritten(B, t), NRows(t), WrittenGroups(P, t, AllWritten(B, t)))
  BY <1>2, <1>4 DEF Grouped
<1> QED
  BY <1>5, <1>6

\* A grouped select is lowered to what it means.
LEMMA SameGroups ==
  ASSUME NEW t, IsTable(t), NEW P, Named(P), NEW B, Named(B),
         ~IsError(Grouped(t, P, B, Denotes)),
         \/ ~IsError(Grouped(t, Compiled(P), Compiled(B), Lowered))
         \/ /\ \A c \in DOMAIN P : OnlyMasks(P[c])
            /\ \A c \in DOMAIN B : OnlyMasks(B[c])
  PROVE  Grouped(t, Compiled(P), Compiled(B), Lowered) = Grouped(t, P, B, Denotes)
<1> DEFINE ka == AllAsked(B, t)
           kw == AllWritten(B, t)
           asked == Grouped(t, Compiled(P), Compiled(B), Lowered)
           written == Grouped(t, P, B, Denotes)
<1>1. /\ DOMAIN ka = DOMAIN B /\ \A c \in DOMAIN B : ka[c] = Asked(B[c], t)
      /\ DOMAIN kw = DOMAIN B /\ \A c \in DOMAIN B : kw[c] = Written(B[c], t)
  BY DEF AllAsked, AllWritten
<1>2. /\ asked = IF \E c \in DOMAIN ka : IsError(ka[c]) THEN Error
                 ELSE Gathered(ka, NRows(t), AskedGroups(P, t, ka))
      /\ written = IF \E c \in DOMAIN kw : IsError(kw[c]) THEN Error
                   ELSE Gathered(kw, NRows(t), WrittenGroups(P, t, kw))
  BY GroupedIs
<1>3. IsError(Error)
  BY ValueKinds
<1> HIDE DEF ka, kw, asked, written
<1>4. BothAnswer(B, t)
  <2>1. \A c \in DOMAIN B : ~IsError(Written(B[c], t))
    BY <1>1, <1>2, <1>3 DEF written
  <2>2. (\A c \in DOMAIN B : ~IsError(Asked(B[c], t))) \/ (\A c \in DOMAIN B : OnlyMasks(B[c]))
    BY <1>1, <1>2, <1>3 DEF asked
  <2> QED
    BY <2>1, <2>2 DEF BothAnswer
<1>5. ka = kw
  BY <1>4, SameValues DEF ka, kw
<1>6. \A c \in DOMAIN kw : ~IsError(kw[c])
  BY <1>2, <1>3 DEF written
<1>7. /\ asked = Gathered(kw, NRows(t), AskedGroups(P, t, kw))
      /\ written = Gathered(kw, NRows(t), WrittenGroups(P, t, kw))
  BY <1>2, <1>5, <1>6
<1>8. AskedGroups(P, t, kw) = WrittenGroups(P, t, kw)
  <2>1. ASSUME NEW c \in DOMAIN P, NEW g \in DOMAIN Firsts(kw, NRows(t))
        PROVE  Asked(P[c], GroupOf(t, kw, g)) = Written(P[c], GroupOf(t, kw, g))
    <3> DEFINE u == GroupOf(t, kw, g)
    <3>1. IsTable(u) /\ Typed(u)
      BY GroupType, TableType
    <3>2. P[c] \in Exprs
      BY DEF Named
    <3>3. Agrees(P[c], u)
      BY <3>1, <3>2, RewriteAgrees
    <3>4. \A v : v.is = "scalar" => ~IsError(v)
      BY DEF IsError
    <3>5. ~IsError(Written(P[c], u))
      <4>1. ~IsError(Gathered(kw, NRows(t), WrittenGroups(P, t, kw)))
        BY <1>7 DEF written
      <4>2. c \in DOMAIN WrittenGroups(P, t, kw) /\ WrittenGroups(P, t, kw)[c][g] = Written(P[c], u)
        BY DEF WrittenGroups
      <4>3. WrittenGroups(P, t, kw)[c][g].is = "scalar"
        BY <4>1, <4>2, GatheredFine
      <4> QED
        BY <3>4, <4>2, <4>3
    <3>6. ~IsError(asked) => ~IsError(Asked(P[c], u))
      <4> SUFFICES ASSUME ~IsError(asked) PROVE ~IsError(Asked(P[c], u))
        OBVIOUS
      <4>1. ~IsError(Gathered(kw, NRows(t), AskedGroups(P, t, kw)))
        BY <1>7
      <4>2. c \in DOMAIN AskedGroups(P, t, kw) /\ AskedGroups(P, t, kw)[c][g] = Asked(P[c], u)
        BY DEF AskedGroups
      <4>3. AskedGroups(P, t, kw)[c][g].is = "scalar"
        BY <4>1, <4>2, GatheredFine
      <4> QED
        BY <3>4, <4>2, <4>3
    <3>7. ~IsError(Asked(P[c], u)) \/ OnlyMasks(P[c])
      BY <3>6 DEF asked
    <3> QED
      BY <3>3, <3>5, <3>7 DEF Agrees
  <2> QED
    BY <2>1 DEF AskedGroups, WrittenGroups
<1> QED
  BY <1>7, <1>8 DEF asked, written

\* A select without groups is lowered to what it means.
LEMMA SameSpread ==
  ASSUME NEW t, IsTable(t), NEW P, Named(P),
         ~IsError(Spread(AllWritten(P, t))),
         ~IsError(Spread(AllAsked(P, t))) \/ \A c \in DOMAIN P : OnlyMasks(P[c])
  PROVE  Spread(AllAsked(P, t)) = Spread(AllWritten(P, t))
<1>1. \A c \in DOMAIN P : ~IsError(Written(P[c], t))
  <2>1. \A c \in DOMAIN AllWritten(P, t) : ~IsError(AllWritten(P, t)[c])
    BY SpreadFine
  <2> QED
    BY <2>1 DEF AllWritten
<1>2. ~IsError(Spread(AllAsked(P, t))) => \A c \in DOMAIN P : ~IsError(Asked(P[c], t))
  <2>1. ~IsError(Spread(AllAsked(P, t))) => \A c \in DOMAIN AllAsked(P, t) : ~IsError(AllAsked(P, t)[c])
    BY SpreadFine
  <2> QED
    BY <2>1 DEF AllAsked
<1>3. BothAnswer(P, t)
  BY <1>1, <1>2 DEF BothAnswer
<1> QED
  BY <1>3, SameValues

(* What the core answers to the lowered clauses is what they mean as they  *)
(* were written, if that is an answer at all and either the core's is too  *)
(* or all filters are masks.                                               *)
LEMMA SameAnswer ==
  ASSUME NEW t, IsTable(t), NEW P, Named(P), NEW B, Named(B),
         ~IsError(Answer(t, P, B, Denotes)),
         \/ ~IsError(Answer(t, Compiled(P), Compiled(B), Lowered))
         \/ /\ \A c \in DOMAIN P : OnlyMasks(P[c])
            /\ \A c \in DOMAIN B : OnlyMasks(B[c])
  PROVE  Answer(t, Compiled(P), Compiled(B), Lowered) = Answer(t, P, B, Denotes)
<1> DEFINE masks == /\ \A c \in DOMAIN P : OnlyMasks(P[c])
                    /\ \A c \in DOMAIN B : OnlyMasks(B[c])
           asked == Answer(t, Compiled(P), Compiled(B), Lowered)
           written == Answer(t, P, B, Denotes)
<1>1. /\ DOMAIN Compiled(P) = DOMAIN P /\ DOMAIN Compiled(B) = DOMAIN B
      /\ [c \in DOMAIN Compiled(P) |-> Lowered(Compiled(P)[c], t)] = AllAsked(P, t)
      /\ [c \in DOMAIN P |-> Denotes(P[c], t)] = AllWritten(P, t)
  BY CompiledIs
<1>2. asked = IF DOMAIN B # {} THEN Grouped(t, Compiled(P), Compiled(B), Lowered)
              ELSE IF DOMAIN P = {} THEN Whole(t) ELSE Spread(AllAsked(P, t))
  BY <1>1 DEF Answer
<1>3. written = IF DOMAIN B # {} THEN Grouped(t, P, B, Denotes)
                ELSE IF DOMAIN P = {} THEN Whole(t) ELSE Spread(AllWritten(P, t))
  BY <1>1 DEF Answer
<1>4. ~IsError(written) /\ (~IsError(asked) \/ masks)
  OBVIOUS
<1> HIDE DEF asked, written, masks
<1>5. CASE DOMAIN B # {}
  <2>1. asked = Grouped(t, Compiled(P), Compiled(B), Lowered) /\ written = Grouped(t, P, B, Denotes)
    BY <1>2, <1>3, <1>5
  <2>2. asked = written
    BY <1>4, <2>1, SameGroups DEF masks
  <2> QED
    BY <2>2 DEF asked, written
<1>6. CASE DOMAIN B = {} /\ DOMAIN P = {}
  BY <1>2, <1>3, <1>6 DEF asked, written
<1>7. CASE DOMAIN B = {} /\ DOMAIN P # {}
  <2>1. asked = Spread(AllAsked(P, t)) /\ written = Spread(AllWritten(P, t))
    BY <1>2, <1>3, <1>7
  <2>2. asked = written
    BY <1>4, <2>1, SameSpread DEF masks
  <2> QED
    BY <2>2 DEF asked, written
<1> QED
  BY <1>5, <1>6, <1>7

-----------------------------------------------------------------------------
(* Summaries.                                                              *)

\* A reduction gives a scalar.
LEMMA ReductionGives ==
  ASSUME NEW name \in Reductions, NEW vs, NEW path, ~IsError(Apply(name, vs, path))
  PROVE  \E x : Apply(name, vs, path) = Scalar(x)
<1>1. name \notin Cellwise
  BY DEF Reductions, Cellwise
<1>2. Apply(name, vs, path) = Scalar(Reduced(name, vs[1].cells))
  BY <1>1, ValueKinds DEF Apply
<1> QED
  BY <1>2

\* An aggregate is still one after the rewrite.
LEMMA AggregateIsScalar ==
  ASSUME NEW t, IsTable(t), NEW e \in Exprs, e.expr = "op", is_aggregation(e.op),
         ~IsError(Asked(e, t))
  PROVE  \E x : Asked(e, t) = Scalar(x)
<1>1. CASE Masks(e, "Sum") \/ Masks(e, "Count")
  <2>1. \E vs : Asked(e, t) = Apply("sum", vs, "query")
    BY <1>1, TableType, AskedMask
  <2>2. "sum" \in Reductions
    BY DEF Reductions
  <2> QED
    BY <2>1, <2>2, ReductionGives
<1>2. CASE ~Masks(e, "Sum") /\ ~Masks(e, "Count")
  <2>1. Asked(e, t) = Apply(as_str(e.op), [i \in DOMAIN e.args |-> Asked(e.args[i], t)], "query")
    <3>1. Asked(e, t) = Apply(IF e.expr = "op" THEN as_str(e.op) ELSE e.name,
                              [i \in DOMAIN e.args |-> Asked(e.args[i], t)], "query")
      BY <1>2, TableType, AskedOp
    <3> QED
      BY <3>1
  <2>2. as_str(e.op) \in Reductions
    BY DEF is_aggregation, Reductions, as_str, BuiltinOf
  <2>3. \A vs : ~IsError(Apply(as_str(e.op), vs, "query")) =>
                  \E x : Apply(as_str(e.op), vs, "query") = Scalar(x)
    BY <2>2, ReductionGives
  <2> QED
    BY <2>1, <2>3
<1> QED
  BY <1>1, <1>2

\* A table of one row.
OneRow(v) ==
  /\ ~IsError(v) /\ v = Whole(v.table) /\ DOMAIN v.table # {}
  /\ v.table = [c \in DOMAIN v.table |-> v.table[c]]
  /\ \A c \in DOMAIN v.table : \E x : v.table[c] = <<x>>

\* A select of scalars has one row.
LEMMA ScalarsSpread ==
  ASSUME NEW vs, DOMAIN vs # {}, \A c \in DOMAIN vs : \E x : vs[c] = Scalar(x)
  PROVE  OneRow(Spread(vs))
<1>1. \A c \in DOMAIN vs : vs[c].is = "scalar" /\ ~IsError(vs[c])
  BY DEF Scalar, IsError
<1>2. {Len(vs[c].cells) : c \in {d \in DOMAIN vs : vs[d].is = "vector"}} = {}
  BY <1>1
<1>3. Spread(vs) = Whole([c \in DOMAIN vs |-> Stretched(vs[c], 1)])
  BY <1>1, <1>2 DEF Spread
<1>4. \A c \in DOMAIN vs : \E x : Stretched(vs[c], 1) = <<x>>
  <2> SUFFICES ASSUME NEW c \in DOMAIN vs PROVE Stretched(vs[c], 1) = <<vs[c].cells[1]>>
    OBVIOUS
  <2>1. Stretched(vs[c], 1) = [i \in 1..1 |-> vs[c].cells[1]]
    BY <1>1 DEF Stretched
  <2>2. \A x : [i \in 1..1 |-> x] = <<x>>
    OBVIOUS
  <2> QED
    BY <2>1, <2>2
<1> DEFINE u == [c \in DOMAIN vs |-> Stretched(vs[c], 1)]
<1>5. /\ DOMAIN u = DOMAIN vs /\ u = [c \in DOMAIN u |-> u[c]]
      /\ \A c \in DOMAIN u : \E x : u[c] = <<x>>
  BY <1>4
<1> HIDE DEF u
<1>6. Whole(u).table = u /\ ~IsError(Whole(u))
  BY DEF Whole, IsError
<1> QED
  BY <1>3, <1>5, <1>6 DEF OneRow, u

\* A table of one row has one.
LEMMA OneRowCount ==
  ASSUME NEW v, OneRow(v)
  PROVE  NRows(v.table) = 1
<1> DEFINE t == v.table
           c == CHOOSE d \in DOMAIN t : TRUE
<1>1. c \in DOMAIN t
  BY DEF OneRow
<1>2. PICK x : t[c] = <<x>>
  BY <1>1 DEF OneRow
<1>3. NRows(t) = Len(t[c])
  BY DEF NRows, OneRow
<1> QED
  BY <1>2, <1>3

\* The first row of one row is all of it.
LEMMA OneRowTaken ==
  ASSUME NEW v, OneRow(v)
  PROVE  Taken(v, 1) = v
<1> DEFINE t == v.table
<1>1. NRows(t) = 1
  BY OneRowCount
<1>2. Taken(v, 1) = Whole([c \in DOMAIN t |-> SubSeq(t[c], 1, 1)])
  BY <1>1 DEF Taken, OneRow
<1>3. \A c \in DOMAIN t : SubSeq(t[c], 1, 1) = t[c]
  BY DEF OneRow
<1>4. [c \in DOMAIN t |-> SubSeq(t[c], 1, 1)] = t
  BY <1>3 DEF OneRow
<1> QED
  BY <1>2, <1>4 DEF OneRow

\* Sorting one row changes nothing.
LEMMA OneRowSorted ==
  ASSUME NEW v, OneRow(v), NEW names, NEW desc
  PROVE  IsError(Sorted(v, names, desc)) \/ OneRow(Sorted(v, names, desc))
<1> DEFINE t == v.table
           Is(at) == \A p, q \in 1..1 : p < q => Before(t, names, desc, at[p], at[q])
           at == CHOOSE f \in [1..1 -> 1..1] : Is(f)
           s == Sorted(v, names, desc)
<1>1. NRows(t) = 1 /\ ~IsError(v) /\ DOMAIN t # {}
  BY OneRowCount DEF OneRow
<1>2. at \in [1..1 -> 1..1]
  <2>1. \E f \in [1..1 -> 1..1] : Is(f)
    <3>1. [i \in 1..1 |-> 1] \in [1..1 -> 1..1] /\ Is([i \in 1..1 |-> 1])
      OBVIOUS
    <3> QED
      BY <3>1
  <2> HIDE DEF Is
  <2> QED
    BY <2>1
<1>3. s = Error \/ s = Whole(Rows(t, at))
  BY <1>1 DEF Sorted
<1> HIDE DEF at, s
<1>4. Len(at) = 1 /\ at[1] = 1
  BY <1>2
<1>5. \A c \in DOMAIN t : \E x : Picked(t[c], at) = <<x>>
  <2> SUFFICES ASSUME NEW c \in DOMAIN t PROVE Picked(t[c], at) = <<t[c][1]>>
    OBVIOUS
  <2>1. Picked(t[c], at) = [k \in 1..1 |-> t[c][at[k]]]
    BY <1>4 DEF Picked
  <2>2. Picked(t[c], at) = [k \in 1..1 |-> t[c][1]]
    BY <1>4, <2>1
  <2> QED
    BY <2>2
<1> DEFINE u == Rows(t, at)
<1>6. /\ DOMAIN u = DOMAIN t /\ u = [c \in DOMAIN u |-> u[c]]
      /\ \A c \in DOMAIN u : \E x : u[c] = <<x>>
  BY <1>5 DEF Rows
<1> HIDE DEF u
<1>7. Whole(u).table = u /\ ~IsError(Whole(u))
  BY DEF Whole, IsError
<1>8. OneRow(Whole(u))
  BY <1>1, <1>6, <1>7 DEF OneRow
<1> QED
  BY <1>3, <1>8, ValueKinds DEF s, u

-----------------------------------------------------------------------------
(* The builders.                                                           *)

\* A builder with what its calls can have given it.
Builds(b) ==
  /\ IsTable(b.from) /\ b.wheres \in Wheres /\ Named(b.proj) /\ Named(b.by)

\* The rows that pass all filters, read as they were written.
PassingRows(b) ==
  {r \in 1..NRows(b.from) :
     \A i \in 1..Len(b.wheres) : Stretched(Written(b.wheres[i], b.from), NRows(b.from))[r] # 0}

FilteredRows(b) == Rows(b.from, Ascending(PassingRows(b), NRows(b.from)))

\* What a select with these fields means.
Meant(b) ==
  LET ans == Answer(FilteredRows(b), b.proj, b.by, Denotes)
  IN  IF \E i \in 1..Len(b.wheres) : IsError(Written(b.wheres[i], b.from)) THEN Error
      ELSE IF b.order = <<>> THEN ans ELSE Sorted(ans, b.order[1][1], b.order[1][2])

\* Some rows of a table make a table.
LEMMA SomeRowsType ==
  ASSUME NEW t, IsTable(t), NEW S
  PROVE  IsTable(Rows(t, Ascending(S, NRows(t))))
<1> DEFINE n == NRows(t)
           at == Ascending(S, n)
           X == (1..n) \cap S
           Y == 1..n
<1>1. n \in Nat
  BY TableType
<1> HIDE DEF n
<1>2. at \in Seq(X)
  BY <1>1, AscendingType
<1>3. X \subseteq Y
  OBVIOUS
<1> HIDE DEF at, X, Y
<1>4. at \in Seq(Y)
  BY <1>2, <1>3, SeqMonotonic
<1> QED
  BY <1>4, RowsType DEF Y, at, n

\* The filters of a builder are expressions.
LEMMA WheresAreExprs ==
  ASSUME NEW ws \in Wheres
  PROVE  \A i \in 1..Len(ws) : ws[i] \in Exprs
<1>1. MaxHeight - MaxCalls \in Nat /\ MaxHeight - MaxCalls <= MaxHeight
  BY HeightAssumption, CallsAssumption
<1>2. Preds \subseteq Exprs
  BY <1>1, CallsAssumption, HeightAssumption, LevelsGrow DEF Exprs
<1> QED
  BY <1>2 DEF Wheres

(* The condition a builder puts in its dict lets pass the rows its filters *)
(* mean, where these are not errors and the core evaluates them.           *)
LEMMA SameCondition ==
  ASSUME NEW t, IsTable(t), NEW ws \in Wheres, NEW d, d.from = t,
         d.where = IF ws = <<>> THEN <<>> ELSE <<compile_query_expr(Combined(ws))>>,
         \A i \in 1..Len(ws) : ~IsError(Written(ws[i], t)),
         ~IsError(MaskOf(d)) \/ \A i \in 1..Len(ws) : OnlyMasks(ws[i])
  PROVE  /\ ~IsError(MaskOf(d))
         /\ Kept(MaskOf(d), NRows(t)) =
              {r \in 1..NRows(t) : \A i \in 1..Len(ws) : Stretched(Written(ws[i], t), NRows(t))[r] # 0}
<1>1. IsError(MaskOf(d)) <=> \E i \in 1..Len(ws) : IsError(Asked(ws[i], t))
  BY MaskOfWheres
<1>2. \A i \in 1..Len(ws) : Asked(ws[i], t) = Written(ws[i], t)
  <2> SUFFICES ASSUME NEW i \in 1..Len(ws) PROVE Asked(ws[i], t) = Written(ws[i], t)
    OBVIOUS
  <2>1. Agrees(ws[i], t)
    BY WheresAreExprs, TableType, RewriteAgrees
  <2>2. ~IsError(Asked(ws[i], t)) \/ OnlyMasks(ws[i])
    BY <1>1
  <2> QED
    BY <2>1, <2>2 DEF Agrees
<1>3. ~IsError(MaskOf(d))
  BY <1>1, <1>2
<1>4. Kept(MaskOf(d), NRows(t)) = Passing(ws, t, Len(ws))
  BY <1>3, MaskOfWheres
<1>5. Passing(ws, t, Len(ws)) =
        {r \in 1..NRows(t) : \A i \in 1..Len(ws) : Stretched(Written(ws[i], t), NRows(t))[r] # 0}
  BY <1>2 DEF Passing
<1> QED
  BY <1>3, <1>4, <1>5

\* Every filter of the builder's expressions is a mask.
AllMasks(b) ==
  /\ \A i \in 1..Len(b.wheres) : OnlyMasks(b.wheres[i])
  /\ \A c \in DOMAIN b.proj : OnlyMasks(b.proj[c])
  /\ \A c \in DOMAIN b.by : OnlyMasks(b.by[c])

\* A select is lowered to what it means.
LEMMA SameSelect ==
  ASSUME NEW b, Builds(b),
         \A i \in 1..Len(b.wheres) : ~IsError(Written(b.wheres[i], b.from)),
         ~IsError(Answer(FilteredRows(b), b.proj, b.by, Denotes)),
         ~IsError(SelectWith(select_dict(b))) \/ AllMasks(b)
  PROVE  SelectWith(select_dict(b)) = Answer(FilteredRows(b), b.proj, b.by, Denotes)
<1> DEFINE d == select_dict(b)
           t == b.from
           at == Ascending(Kept(MaskOf(d), NRows(t)), NRows(t))
           asked == Answer(Rows(t, at), Compiled(b.proj), Compiled(b.by), Lowered)
           sel == SelectWith(d)
<1>1. /\ d.from = t /\ d.proj = Compiled(b.proj) /\ d.by = Compiled(b.by)
      /\ d.where = IF b.wheres = <<>> THEN <<>> ELSE <<compile_query_expr(Combined(b.wheres))>>
  BY DEF select_dict, Where
<1>2. sel = IF IsError(MaskOf(d)) THEN Error ELSE asked
  BY <1>1 DEF SelectWith
<1>3. IsError(Error)
  BY ValueKinds
<1>4. ~IsError(sel) \/ AllMasks(b)
  OBVIOUS
<1> HIDE DEF d, sel, asked
<1>5. ~IsError(MaskOf(d)) \/ \A i \in 1..Len(b.wheres) : OnlyMasks(b.wheres[i])
  BY <1>2, <1>3, <1>4 DEF AllMasks
<1>6. ~IsError(MaskOf(d)) /\ Kept(MaskOf(d), NRows(t)) = PassingRows(b)
  BY <1>1, <1>5, SameCondition DEF Builds, PassingRows
<1>7. Rows(t, at) = FilteredRows(b)
  BY <1>6 DEF FilteredRows
<1>8. sel = asked
  BY <1>2, <1>6
<1>9. asked = Answer(FilteredRows(b), Compiled(b.proj), Compiled(b.by), Lowered)
  BY <1>7 DEF asked
<1>10. IsTable(FilteredRows(b))
  BY SomeRowsType DEF FilteredRows, Builds
<1>11. \/ ~IsError(Answer(FilteredRows(b), Compiled(b.proj), Compiled(b.by), Lowered))
       \/ (\A c \in DOMAIN b.proj : OnlyMasks(b.proj[c])) /\ (\A c \in DOMAIN b.by : OnlyMasks(b.by[c]))
  BY <1>4, <1>8, <1>9 DEF AllMasks
<1>12. Answer(FilteredRows(b), Compiled(b.proj), Compiled(b.by), Lowered)
         = Answer(FilteredRows(b), b.proj, b.by, Denotes)
  BY <1>10, <1>11, SameAnswer DEF Builds
<1> QED
  BY <1>8, <1>9, <1>12 DEF sel, d

(* A summary is one row.                                                   *)
LEMMA SummaryIsOneRow ==
  ASSUME NEW b, Builds(b), is_aggregation_only(b), ~IsError(SelectWith(select_dict(b)))
  PROVE  OneRow(SelectWith(select_dict(b)))
<1> DEFINE d == select_dict(b)
           t == b.from
           u == Rows(t, Ascending(Kept(MaskOf(d), NRows(t)), NRows(t)))
           sel == SelectWith(d)
<1>1. d.from = t /\ d.proj = Compiled(b.proj) /\ d.by = Compiled(b.by)
  BY DEF select_dict
<1>2. sel = IF IsError(MaskOf(d)) THEN Error ELSE Answer(u, Compiled(b.proj), Compiled(b.by), Lowered)
  BY <1>1 DEF SelectWith
<1>3. ~IsError(sel)
  OBVIOUS
<1>4. IsTable(u)
  BY SomeRowsType DEF Builds
<1> HIDE DEF d, sel, u
<1>5. sel = Answer(u, Compiled(b.proj), Compiled(b.by), Lowered)
  BY <1>2, <1>3, ValueKinds
<1>6. Answer(u, Compiled(b.proj), Compiled(b.by), Lowered) = Spread(AllAsked(b.proj, u))
  <2>1. /\ DOMAIN Compiled(b.proj) = DOMAIN b.proj /\ DOMAIN Compiled(b.by) = DOMAIN b.by
        /\ [c \in DOMAIN Compiled(b.proj) |-> Lowered(Compiled(b.proj)[c], u)] = AllAsked(b.proj, u)
    BY CompiledIs
  <2> QED
    BY <2>1 DEF Answer, is_aggregation_only
<1>7. ~IsError(Spread(AllAsked(b.proj, u)))
  BY <1>3, <1>5, <1>6
<1>8. \A c \in DOMAIN b.proj : \E x : Asked(b.proj[c], u) = Scalar(x)
  <2> SUFFICES ASSUME NEW c \in DOMAIN b.proj PROVE \E x : Asked(b.proj[c], u) = Scalar(x)
    OBVIOUS
  <2>1. \A e \in DOMAIN AllAsked(b.proj, u) : ~IsError(AllAsked(b.proj, u)[e])
    BY <1>7, SpreadFine
  <2>2. ~IsError(Asked(b.proj[c], u))
    BY <2>1 DEF AllAsked
  <2>3. b.proj[c] \in Exprs /\ b.proj[c].expr = "op" /\ is_aggregation(b.proj[c].op)
    BY DEF Builds, Named, is_aggregation_only
  <2> QED
    BY <1>4, <2>2, <2>3, AggregateIsScalar
<1>9. /\ DOMAIN AllAsked(b.proj, u) = DOMAIN b.proj /\ DOMAIN b.proj # {}
      /\ \A c \in DOMAIN AllAsked(b.proj, u) : \E x : AllAsked(b.proj, u)[c] = Scalar(x)
  BY <1>8 DEF AllAsked, is_aggregation_only
<1>10. OneRow(Spread(AllAsked(b.proj, u)))
  BY <1>9, ScalarsSpread
<1> QED
  BY <1>5, <1>6, <1>10 DEF sel, d

(* A select that answers answers with what it means, and one whose filters *)
(* are all masks answers whenever it means something.                      *)
LEMMA SelectLaw ==
  ASSUME NEW b, Builds(b), ~IsError(Meant(b)),
         ~IsError(select_execute(b)) \/ AllMasks(b)
  PROVE  select_execute(b) = Meant(b)
<1> DEFINE sel == SelectWith(select_dict(b))
           ans == Answer(FilteredRows(b), b.proj, b.by, Denotes)
           ordered(v) == IF b.order = <<>> THEN v ELSE Sorted(v, b.order[1][1], b.order[1][2])
<1>1. /\ \A i \in 1..Len(b.wheres) : ~IsError(Written(b.wheres[i], b.from))
      /\ Meant(b) = ordered(ans)
  BY ValueKinds DEF Meant
<1>2. \A v : IsError(v) => ordered(v) = v
  BY DEF Sorted
<1>3. select_execute(b) = IF is_aggregation_only(b) THEN Taken(ordered(sel), 1) ELSE ordered(sel)
  BY DEF select_execute, take_rows
<1>4. \A v : IsError(v) => Taken(v, 1) = v
  BY DEF Taken
<1>5. \A v : OneRow(v) => IsError(ordered(v)) \/ OneRow(ordered(v))
  BY OneRowSorted
<1> HIDE DEF sel, ans, ordered
<1>6. ~IsError(ans)
  BY <1>1, <1>2
<1>7. ~IsError(sel) \/ AllMasks(b)
  BY <1>2, <1>3, <1>4
<1>8. sel = ans
  BY <1>1, <1>6, <1>7, SameSelect DEF sel, ans
<1>9. is_aggregation_only(b) => Taken(ordered(sel), 1) = ordered(sel)
  <2>1. is_aggregation_only(b) => OneRow(sel)
    BY <1>6, <1>8, SummaryIsOneRow DEF sel
  <2> QED
    BY <1>4, <1>5, <2>1, OneRowTaken
<1> QED
  BY <1>1, <1>3, <1>8, <1>9

-----------------------------------------------------------------------------
(* The inductive invariant.                                                *)

\* The calls a program makes while it builds.
Vocabulary ==
  ({"agg"} \X Aggs) \cup ({"filter"} \X Preds) \cup ({"by"} \X Keys)
    \cup ({"order_by"} \X Orders) \cup ({"set"} \X Sets)

NamesDiffer(method) == \A p, q \in Said(method) : p[1] = q[1] => p = q

CallsInv ==
  /\ calls \in Seq(Vocabulary) /\ Len(calls) <= MaxCalls
  /\ NamesDiffer("agg") /\ NamesDiffer("by") /\ NamesDiffer("set")

\* The filters of a builder are those the calls say, in some order.
WheresInv ==
  /\ builder.wheres \in Seq(Preds) /\ Len(builder.wheres) <= Len(calls)
  /\ Said("filter") = {builder.wheres[i] : i \in 1..Len(builder.wheres)}

\* Its order is the last the calls say.
OrderInv ==
  \/ builder.order = <<>> /\ Said("order_by") = {}
  \/ \E i \in DOMAIN calls :
       /\ calls[i][1] = "order_by" /\ builder.order = <<calls[i][2]>>
       /\ \A j \in DOMAIN calls : calls[j][1] = "order_by" => j <= i

SelectInv ==
  /\ CallsInv /\ WheresInv /\ OrderInv
  /\ builder = [kind |-> "select", from |-> table, proj |-> SaidNamed("agg"),
                wheres |-> builder.wheres, by |-> SaidNamed("by"), order |-> builder.order]
  /\ out = Nothing \/ out = select_execute(builder)

UpdateInv ==
  /\ CallsInv /\ WheresInv
  /\ builder = [kind |-> "update", from |-> table, sets |-> SaidNamed("set"),
                wheres |-> builder.wheres]
  /\ out = Nothing \/ out = UpdateWith(update_dict(builder))

IInv ==
  /\ table \in Tables
  /\ builder.kind \in {"none", "select", "update"}
  /\ builder.kind = "none" => builder = NoBuilder
  /\ builder.kind = "select" => SelectInv
  /\ builder.kind = "update" => UpdateInv

-----------------------------------------------------------------------------
(* What calls say.                                                         *)

\* The arguments of the calls of one method in a sequence of calls.
ArgsIn(cs, method) == {cs[i][2] : i \in {j \in DOMAIN cs : cs[j][1] = method}}
NamedIn(S) == [n \in {p[1] : p \in S} |-> (CHOOSE p \in S : p[1] = n)[2]]

\* What calls say, now and after a step, in terms of the sequence of calls.
LEMMA SaidIs ==
  /\ \A method : Said(method) = ArgsIn(calls, method)
  /\ \A method : SaidNamed(method) = NamedIn(ArgsIn(calls, method))
  /\ (\A method : Said(method) = ArgsIn(calls, method))'
  /\ (\A method : SaidNamed(method) = NamedIn(ArgsIn(calls, method)))'
BY DEF Said, SaidNamed, ArgsIn, NamedIn

\* No calls say nothing.
LEMMA ArgsOfNone ==
  /\ \A method : ArgsIn(<<>>, method) = {}
  /\ NamedIn({}) = NoExprs
BY DEF ArgsIn, NamedIn, NoExprs

\* One more call says one thing more, of its method alone.
LEMMA ArgsAppend ==
  ASSUME NEW cs \in Seq(Vocabulary), NEW m, NEW x
  PROVE  /\ ArgsIn(Append(cs, <<m, x>>), m) = ArgsIn(cs, m) \cup {x}
         /\ \A k : k # m => ArgsIn(Append(cs, <<m, x>>), k) = ArgsIn(cs, k)
<1> DEFINE ds == Append(cs, <<m, x>>)
           n == Len(cs) + 1
<1>1. /\ n \in Nat /\ DOMAIN cs = 1..(n - 1) /\ DOMAIN ds = 1..n
      /\ \A i \in 1..(n - 1) : ds[i] = cs[i]
      /\ ds[n] = <<m, x>> /\ n \in 1..n /\ n \notin 1..(n - 1)
      /\ 1..n = (1..(n - 1)) \cup {n}
  OBVIOUS
<1> HIDE DEF ds, n
<1>2. ds[n][1] = m /\ ds[n][2] = x
  BY <1>1
<1>3. ArgsIn(ds, m) = ArgsIn(cs, m) \cup {x}
  BY <1>1, <1>2 DEF ArgsIn
<1>4. ASSUME NEW k, k # m PROVE ArgsIn(ds, k) = ArgsIn(cs, k)
  BY <1>1, <1>2, <1>4 DEF ArgsIn
<1> QED
  BY <1>3, <1>4 DEF ds

\* Different names for different pairs.
Differ(S) == \A p, q \in S : p[1] = q[1] => p = q

\* One more named expression, under a name of its own.
LEMMA NamedAppend ==
  ASSUME NEW S, Differ(S), NEW p, \A q \in S : q[1] # p[1]
  PROVE  NamedIn(S \cup {p}) = With(NamedIn(S), p) /\ Differ(S \cup {p})
<1> DEFINE T == S \cup {p}
           pick(n) == CHOOSE q \in T : q[1] = n
           picked(n) == CHOOSE q \in S : q[1] = n
<1>1. pick(p[1]) = p
  OBVIOUS
<1>2. \A q \in S : picked(q[1]) = q
  BY DEF Differ
<1>3. \A q \in S : pick(q[1]) = q
  BY DEF Differ
<1>4. {q[1] : q \in T} = {q[1] : q \in S} \cup {p[1]}
  OBVIOUS
<1>5. DOMAIN NamedIn(S) = {q[1] : q \in S}
  BY DEF NamedIn
<1>6. ASSUME NEW n \in {q[1] : q \in T}
      PROVE  pick(n)[2] = IF n = p[1] THEN p[2] ELSE NamedIn(S)[n]
  <2>1. CASE n = p[1]
    BY <1>1, <2>1
  <2>2. CASE n # p[1]
    <3>1. PICK q \in S : n = q[1]
      BY <1>6, <2>2
    <3>2. NamedIn(S)[n] = picked(n)[2]
      BY <3>1 DEF NamedIn
    <3> HIDE DEF pick, picked
    <3> QED
      BY <1>2, <1>3, <2>2, <3>1, <3>2
  <2> QED
    BY <2>1, <2>2
<1>7. NamedIn(T) = [n \in {q[1] : q \in T} |-> pick(n)[2]]
  BY DEF NamedIn
<1>8. With(NamedIn(S), p) = [n \in {q[1] : q \in T} |-> IF n = p[1] THEN p[2] ELSE NamedIn(S)[n]]
  BY <1>4, <1>5 DEF With
<1>9. NamedIn(T) = With(NamedIn(S), p)
  <2> HIDE DEF T, pick, picked
  <2> QED
    BY <1>6, <1>7, <1>8
<1> QED
  BY <1>9 DEF Differ

\* What is named is among what is said.
LEMMA NamedType ==
  ASSUME NEW S, NEW V, \A p \in S : p[2] \in V
  PROVE  \A n \in DOMAIN NamedIn(S) : NamedIn(S)[n] \in V
BY DEF NamedIn

\* The named expressions of the calls are those the assumptions speak of.
LEMMA CallTypes ==
  ASSUME calls \in Seq(Vocabulary)
  PROVE  /\ Said("agg") \subseteq Aggs /\ Said("by") \subseteq Keys
         /\ Said("set") \subseteq Sets /\ Said("filter") \subseteq Preds
         /\ Said("order_by") \subseteq Orders
<1>1. \A v \in Vocabulary :
        /\ v[1] = "agg" => v[2] \in Aggs
        /\ v[1] = "by" => v[2] \in Keys
        /\ v[1] = "set" => v[2] \in Sets
        /\ v[1] = "filter" => v[2] \in Preds
        /\ v[1] = "order_by" => v[2] \in Orders
  BY DEF Vocabulary
<1>2. \A i \in DOMAIN calls : calls[i] \in Vocabulary
  OBVIOUS
<1> QED
  BY <1>1, <1>2 DEF Said

\* A fresh name is none of those said.
LEMMA FreshNames ==
  ASSUME NEW n, FreshName(n), NEW method \in {"agg", "by", "set"}
  PROVE  \A q \in ArgsIn(calls, method) : q[1] # n
BY DEF FreshName, ArgsIn

-----------------------------------------------------------------------------
(* What the invariant implies.                                             *)

\* The table in hand is a table.
LEMMA TableOfIInv ==
  ASSUME IInv
  PROVE  IsTable(table)
BY TablesAssumption DEF IInv

\* The filters of the builder are filters a builder can hold.
LEMMA WheresOfInv ==
  ASSUME CallsInv, WheresInv
  PROVE  builder.wheres \in Wheres
<1>1. Len(builder.wheres) \in Nat /\ Len(calls) \in Nat /\ MaxCalls \in Nat
  BY CallsAssumption DEF CallsInv, WheresInv
<1> QED
  BY <1>1 DEF CallsInv, WheresInv, Wheres

\* The named expressions of the calls are expressions.
LEMMA SaidAreExprs ==
  ASSUME CallsInv, NEW method \in {"agg", "by", "set"}
  PROVE  Named(SaidNamed(method))
<1>1. \A p \in Said(method) : p[2] \in Exprs
  BY CallTypes, CallsAssumption DEF CallsInv
<1> DEFINE S == ArgsIn(calls, method)
           V == Exprs
<1>2. Said(method) = S /\ SaidNamed(method) = NamedIn(S)
  BY SaidIs
<1>3. \A p \in S : p[2] \in V
  BY <1>1, <1>2
<1> HIDE DEF S, V
<1>4. \A n \in DOMAIN NamedIn(S) : NamedIn(S)[n] \in V
  BY <1>3, NamedType
<1> QED
  BY <1>2, <1>4 DEF Named, V

\* The fields of a select are what the calls say.
LEMMA SelectBuilds ==
  ASSUME IInv, SelectInv
  PROVE  /\ Builds(builder) /\ builder.from = table
         /\ builder.proj = SaidNamed("agg") /\ builder.by = SaidNamed("by")
<1>1. /\ builder.from = table
      /\ builder.proj = SaidNamed("agg") /\ builder.by = SaidNamed("by")
  BY DEF SelectInv
<1>2. Named(SaidNamed("agg")) /\ Named(SaidNamed("by"))
  BY SaidAreExprs DEF SelectInv
<1>3. builder.wheres \in Wheres
  BY WheresOfInv DEF SelectInv
<1> QED
  BY <1>1, <1>2, <1>3, TableOfIInv DEF Builds

\* The filters of the builder and those the calls say fail and pass alike.
LEMMA SaidFilters ==
  ASSUME WheresInv
  PROVE  /\ PredsFail <=> \E i \in 1..Len(builder.wheres) : IsError(Written(builder.wheres[i], table))
         /\ \A r : Passes(r) <=>
              \A i \in 1..Len(builder.wheres) :
                Stretched(Written(builder.wheres[i], table), NRows(table))[r] # 0
<1>1. \A e : Denotes(e, table) = Written(e, table)
  BY CompiledIs
<1> QED
  BY <1>1 DEF WheresInv, PredsFail, Passes

\* The order of a select is the last the calls say.
LEMMA SaidOrder ==
  ASSUME OrderInv, calls \in Seq(Vocabulary)
  PROVE  /\ builder.order = <<>> <=> Said("order_by") = {}
         /\ builder.order # <<>> => builder.order[1] = SaidLast("order_by")
<1>1. CASE builder.order = <<>> /\ Said("order_by") = {}
  BY <1>1
<1>2. ASSUME NEW i \in DOMAIN calls, calls[i][1] = "order_by", builder.order = <<calls[i][2]>>,
             \A j \in DOMAIN calls : calls[j][1] = "order_by" => j <= i
      PROVE  /\ builder.order # <<>> /\ Said("order_by") # {}
             /\ builder.order[1] = SaidLast("order_by")
  <2> DEFINE Last(k) == calls[k][1] = "order_by"
                        /\ \A j \in DOMAIN calls : calls[j][1] = "order_by" => j <= k
             l == CHOOSE k \in DOMAIN calls : Last(k)
  <2>1. Last(i)
    BY <1>2
  <2>2. l \in DOMAIN calls /\ Last(l)
    <3> HIDE DEF Last
    <3> QED
      BY <2>1
  <2>3. DOMAIN calls \subseteq Int
    OBVIOUS
  <2>4. l = i
    <3> HIDE DEF l
    <3> QED
      BY <2>1, <2>2, <2>3
  <2>5. SaidLast("order_by") = calls[l][2]
    BY DEF SaidLast
  <2>6. calls[i][2] \in Said("order_by")
    BY <1>2 DEF Said
  <2> HIDE DEF l
  <2> QED
    BY <1>2, <2>4, <2>5, <2>6
<1> QED
  BY <1>1, <1>2 DEF OrderInv

(* What the calls mean is what the fields of the builder mean.             *)
LEMMA MeaningOfCalls ==
  ASSUME IInv, SelectInv
  PROVE  MeantSelect = Meant(builder)
<1> DEFINE b == builder
           n == NRows(table)
           ans == Answer(FilteredRows(b), b.proj, b.by, Denotes)
<1>1. b.from = table /\ b.proj = SaidNamed("agg") /\ b.by = SaidNamed("by")
  BY SelectBuilds
<1>2. {r \in 1..n : Passes(r)} = PassingRows(b)
  BY <1>1, SaidFilters DEF PassingRows, SelectInv
<1>3. Rows(table, Ascending({r \in 1..n : Passes(r)}, n)) = FilteredRows(b)
  BY <1>1, <1>2 DEF FilteredRows
<1>4. Answer(Rows(table, Ascending({r \in 1..n : Passes(r)}, n)),
             SaidNamed("agg"), SaidNamed("by"), Denotes) = ans
  BY <1>1, <1>3
<1>5. PredsFail <=> \E i \in 1..Len(b.wheres) : IsError(Written(b.wheres[i], b.from))
  BY <1>1, SaidFilters DEF SelectInv
<1>6. /\ b.order = <<>> <=> Said("order_by") = {}
      /\ b.order # <<>> => b.order[1] = SaidLast("order_by")
  BY SaidOrder DEF SelectInv, CallsInv
<1>7. MeantSelect = IF PredsFail THEN Error
                    ELSE IF Said("order_by") = {} THEN ans
                    ELSE Sorted(ans, SaidLast("order_by")[1], SaidLast("order_by")[2])
  BY <1>4 DEF MeantSelect
<1>8. Meant(b) = IF \E i \in 1..Len(b.wheres) : IsError(Written(b.wheres[i], b.from)) THEN Error
                 ELSE IF b.order = <<>> THEN ans ELSE Sorted(ans, b.order[1][1], b.order[1][2])
  BY DEF Meant
<1> HIDE DEF ans
<1> QED
  BY <1>5, <1>6, <1>7, <1>8

\* Under the invariant a select means its calls.
LEMMA InvSelectMeansCalls ==
  ASSUME IInv
  PROVE  SelectMeansCalls
<1> SUFFICES ASSUME builder.kind = "select", out.is = "table", ~IsError(MeantSelect)
             PROVE  out.table = MeantSelect.table
  BY DEF SelectMeansCalls
<1>1. SelectInv
  BY DEF IInv
<1>2. out = select_execute(builder)
  BY <1>1 DEF SelectInv, Nothing
<1>3. ~IsError(out)
  BY DEF IsError
<1>4. Builds(builder) /\ MeantSelect = Meant(builder)
  BY <1>1, SelectBuilds, MeaningOfCalls
<1>5. select_execute(builder) = Meant(builder)
  BY <1>2, <1>3, <1>4, SelectLaw
<1> QED
  BY <1>2, <1>4, <1>5

\* Under the invariant a select of masks is answered.
LEMMA InvMaskedSumsAnswered ==
  ASSUME IInv
  PROVE  MaskedSumsAnswered
<1> SUFFICES ASSUME builder.kind = "select", out # Nothing, ~IsError(MeantSelect),
                    \A e \in SaidExprs : OnlyMasks(e)
             PROVE  ~IsError(out)
  BY DEF MaskedSumsAnswered
<1>1. SelectInv
  BY DEF IInv
<1>2. out = select_execute(builder)
  BY <1>1 DEF SelectInv
<1>3. /\ Builds(builder) /\ MeantSelect = Meant(builder)
      /\ builder.proj = SaidNamed("agg") /\ builder.by = SaidNamed("by")
  BY <1>1, SelectBuilds, MeaningOfCalls
<1>4. AllMasks(builder)
  <2>1. \A i \in 1..Len(builder.wheres) : OnlyMasks(builder.wheres[i])
    BY <1>1 DEF SelectInv, WheresInv, SaidExprs
  <2>2. \A method \in {"agg", "by"} : \A c \in DOMAIN SaidNamed(method) : OnlyMasks(SaidNamed(method)[c])
    <3> SUFFICES ASSUME NEW method \in {"agg", "by"}
                 PROVE  \A c \in DOMAIN SaidNamed(method) : OnlyMasks(SaidNamed(method)[c])
      OBVIOUS
    <3>1. \A p \in Said(method) : OnlyMasks(p[2])
      BY DEF SaidExprs
    <3>2. \A c \in DOMAIN SaidNamed(method) : \E p \in Said(method) : SaidNamed(method)[c] = p[2]
      BY DEF SaidNamed
    <3> QED
      BY <3>1, <3>2
  <2>3. "agg" \in {"agg", "by"} /\ "by" \in {"agg", "by"}
    OBVIOUS
  <2> QED
    BY <1>3, <2>1, <2>2, <2>3 DEF AllMasks
<1>5. select_execute(builder) = Meant(builder)
  BY <1>3, <1>4, SelectLaw
<1> QED
  BY <1>2, <1>3, <1>5

\* Under the invariant an update means its calls.
LEMMA InvUpdateMeansCalls ==
  ASSUME IInv
  PROVE  UpdateMeansCalls
<1> DEFINE said == SaidNamed("set")
           n == NRows(table)
           ws == builder.wheres
           d == update_dict(builder)
           new == AllAsked(builder.sets, table)
           rows == Kept(MaskOf(d), n)
<1> SUFFICES ASSUME builder.kind = "update", out.is = "table", ~PredsFail,
                    \A c \in DOMAIN said : ~IsError(Denotes(said[c], table)),
                    NEW c \in DOMAIN table \cup DOMAIN said, NEW r \in 1..n
             PROVE  out.table[c][r] =
                      IF c \in DOMAIN said /\ Passes(r) THEN Stretched(Denotes(said[c], table), n)[r]
                      ELSE IF c \in DOMAIN table THEN table[c][r] ELSE Null
  BY DEF UpdateMeansCalls
<1>1. UpdateInv
  BY DEF IInv
<1>2. out = UpdateWith(d)
  BY <1>1 DEF UpdateInv, Nothing
<1>3. builder.from = table /\ builder.sets = said
  BY <1>1 DEF UpdateInv
<1>4. /\ d.from = table /\ d.proj = Compiled(builder.sets)
      /\ d.where = IF ws = <<>> THEN <<>> ELSE <<compile_query_expr(Combined(ws))>>
  BY <1>3 DEF update_dict, Where
<1>5. out = IF IsError(MaskOf(d)) \/ \E k \in DOMAIN new : IsError(new[k]) THEN Error
            ELSE Whole(Rewritten(table, rows, new))
  <2>1. [k \in DOMAIN d.proj |-> Lowered(d.proj[k], d.from)] = new
    BY <1>4, CompiledIs
  <2> HIDE DEF new
  <2> QED
    BY <1>2, <1>4, <2>1 DEF UpdateWith
<1> HIDE DEF d
<1>6. ~IsError(MaskOf(d)) /\ \A k \in DOMAIN new : ~IsError(new[k])
  <2> HIDE DEF new, rows
  <2>1. Error.is # "table"
    BY DEF Error
  <2> QED
    BY <1>5, <2>1
<1>7. out.table = Rewritten(table, rows, new)
  <2> HIDE DEF new, rows
  <2> QED
    BY <1>5, <1>6 DEF Whole
<1>8. rows = {q \in 1..n : Passes(q)}
  <2>1. ws \in Wheres /\ IsTable(table)
    BY <1>1, WheresOfInv, TableOfIInv DEF UpdateInv
  <2>2. \A i \in 1..Len(ws) : ~IsError(Written(ws[i], table))
    BY <1>1, SaidFilters DEF UpdateInv
  <2>3. rows = {q \in 1..n : \A i \in 1..Len(ws) : Stretched(Written(ws[i], table), n)[q] # 0}
    BY <1>4, <1>6, <2>1, <2>2, SameCondition
  <2> QED
    BY <1>1, <2>3, SaidFilters DEF UpdateInv
<1>9. new = [k \in DOMAIN said |-> Denotes(said[k], table)]
  <2>1. Named(said) /\ IsTable(table)
    BY <1>1, SaidAreExprs, TableOfIInv DEF UpdateInv
  <2>2. \A k \in DOMAIN said : ~IsError(Asked(said[k], table))
    BY <1>3, <1>6 DEF AllAsked
  <2>3. \A k \in DOMAIN said : ~IsError(Written(said[k], table))
    BY CompiledIs
  <2> HIDE DEF said
  <2>4. BothAnswer(said, table)
    BY <2>2, <2>3 DEF BothAnswer
  <2>5. AllAsked(said, table) = AllWritten(said, table)
    BY <2>1, <2>4, SameValues
  <2> QED
    BY <1>3, <2>5, CompiledIs
<1> HIDE DEF new, rows
<1>10. DOMAIN new = DOMAIN said /\ \A k \in DOMAIN said : new[k] = Denotes(said[k], table)
  BY <1>9
<1>11. out.table[c][r] = IF c \in DOMAIN new /\ r \in rows THEN Stretched(new[c], n)[r]
                         ELSE IF c \in DOMAIN table THEN table[c][r] ELSE Null
  BY <1>7, <1>10 DEF Rewritten
<1>12. r \in rows <=> Passes(r)
  BY <1>8
<1> QED
  BY <1>10, <1>11, <1>12

-----------------------------------------------------------------------------
(* head, tail and take.                                                    *)

\* Every count of rows but the least i64 has a magnitude.
LEMMA MagnitudeIs ==
  ASSUME NEW n \in Int
  PROVE  /\ n = MinI64 => IsError(take_magnitude(n))
         /\ n # MinI64 => /\ ~IsError(take_magnitude(n))
                          /\ take_magnitude(n).cells[1] = IF n < 0 THEN -n ELSE n
BY DEF take_magnitude, Error, Scalar, IsError

\* take, column by column.
LEMMA TakenIs ==
  ASSUME NEW t, NEW n \in Int, NEW c \in DOMAIN t
  PROVE  take_rows(Whole(t), n).table[c] =
           IF n >= 0 THEN SubSeq(t[c], 1, IF n < NRows(t) THEN n ELSE NRows(t))
           ELSE SubSeq(t[c], IF NRows(t) + n >= 0 THEN NRows(t) + n + 1 ELSE 1, NRows(t))
BY DEF take_rows, Taken, Whole, IsError

\* The first rows and the last.
LEMMA HeadAndTailOf ==
  ASSUME NEW t, IsTable(t), NRows(t) < -MinI64, NEW n \in 0..NRows(t), NEW c \in DOMAIN t
  PROVE  /\ head(t, n).table[c] = SubSeq(t[c], 1, n)
         /\ tail(t, NRows(t) - n).table[c] = SubSeq(t[c], n + 1, NRows(t))
<1> DEFINE rows == NRows(t)
<1>1. rows \in Nat /\ MinI64 \in Int /\ n \in Int
  BY TableType, MinAssumption
<1> HIDE DEF rows
<1>2. /\ n \in Nat /\ n <= rows /\ n # MinI64 /\ rows - n \in Nat /\ rows - n # MinI64
      /\ ~(n < 0) /\ ~(rows - n < 0)
  BY <1>1 DEF rows
<1>3. head(t, n) = take_rows(Whole(t), n)
  BY <1>1, <1>2, MagnitudeIs DEF head
<1>4. head(t, n).table[c] = SubSeq(t[c], 1, n)
  <2>1. take_rows(Whole(t), n).table[c] = SubSeq(t[c], 1, IF n < rows THEN n ELSE rows)
    <3>1. take_rows(Whole(t), n).table[c] =
            IF n >= 0 THEN SubSeq(t[c], 1, IF n < rows THEN n ELSE rows)
            ELSE SubSeq(t[c], IF rows + n >= 0 THEN rows + n + 1 ELSE 1, rows)
      BY <1>1, TakenIs DEF rows
    <3> QED
      BY <1>1, <1>2, <3>1
  <2>2. (IF n < rows THEN n ELSE rows) = n
    BY <1>1, <1>2
  <2> QED
    BY <1>3, <2>1, <2>2
<1>5. tail(t, rows - n) = take_rows(Whole(t), -(rows - n))
  BY <1>1, <1>2, MagnitudeIs DEF tail
<1>6. tail(t, rows - n).table[c] = SubSeq(t[c], n + 1, rows)
  <2>1. CASE n = rows
    <3> DEFINE m == -(rows - n)
    <3>1. m \in Int /\ m >= 0 /\ (IF m < rows THEN m ELSE rows) = 0
      <4>1. rows - n = 0
        BY <1>1, <2>1
      <4>2. m = 0
        BY <4>1
      <4> HIDE DEF m
      <4> QED
        BY <1>1, <4>2
    <3>2. take_rows(Whole(t), m).table[c] =
            IF m >= 0 THEN SubSeq(t[c], 1, IF m < rows THEN m ELSE rows)
            ELSE SubSeq(t[c], IF rows + m >= 0 THEN rows + m + 1 ELSE 1, rows)
      <4> HIDE DEF m
      <4> QED
        BY <3>1, TakenIs DEF rows
    <3>3. take_rows(Whole(t), m).table[c] = SubSeq(t[c], 1, 0)
      <4> HIDE DEF m
      <4> QED
        BY <3>1, <3>2
    <3>4. SubSeq(t[c], 1, 0) = <<>> /\ SubSeq(t[c], n + 1, rows) = <<>>
      <4>1. t[c] \in Seq(Int)
        BY TableType
      <4> QED
        BY <1>1, <2>1, <4>1
    <3> QED
      BY <1>5, <3>3, <3>4
  <2>2. CASE n < rows
    <3>1. /\ -(rows - n) \in Int /\ ~(-(rows - n) >= 0) /\ rows + (-(rows - n)) >= 0
          /\ rows + (-(rows - n)) + 1 = n + 1
      BY <1>1, <1>2, <2>2
    <3>2. take_rows(Whole(t), -(rows - n)).table[c] = SubSeq(t[c], n + 1, rows)
      <4> DEFINE m == -(rows - n)
      <4>1. take_rows(Whole(t), m).table[c] =
              IF m >= 0 THEN SubSeq(t[c], 1, IF m < rows THEN m ELSE rows)
              ELSE SubSeq(t[c], IF rows + m >= 0 THEN rows + m + 1 ELSE 1, rows)
        BY <3>1, TakenIs DEF rows
      <4> QED
        BY <3>1, <4>1
    <3> QED
      BY <1>5, <3>2
  <2> QED
    BY <1>1, <1>2, <2>1, <2>2
<1> QED
  BY <1>4, <1>6 DEF rows

\* head and tail split every table.
LEMMA InvHeadTailSplit ==
  ASSUME table \in Tables
  PROVE  HeadTailSplit
<1> DEFINE rows == NRows(table)
<1>1. IsTable(table) /\ rows \in Nat /\ MinI64 \in Int /\ rows < -MinI64
  BY TablesAssumption, MinAssumption, TableType
<1>2. ASSUME NEW n \in 0..rows, NEW c \in DOMAIN table
      PROVE  head(table, n).table[c] \o tail(table, rows - n).table[c] = table[c]
  <2> DEFINE s == table[c]
  <2>1. head(table, n).table[c] = SubSeq(s, 1, n) /\ tail(table, rows - n).table[c] = SubSeq(s, n + 1, rows)
    BY <1>1, <1>2, HeadAndTailOf
  <2>2. s \in Seq(Int) /\ Len(s) = rows
    BY <1>1, <1>2, TableType
  <2> HIDE DEF s, rows
  <2>3. SubSeq(s, 1, n) \o SubSeq(s, n + 1, rows) = s
    BY <1>1, <1>2, <2>2
  <2> QED
    BY <2>1, <2>3 DEF s
<1>3. ASSUME NEW n \in Counts
      PROVE  head(table, n) = head(table, -n) /\ tail(table, n) = tail(table, -n)
  <2>1. n \in Int /\ -n \in Int /\ n # MinI64 /\ -n # MinI64
    <3> HIDE DEF rows
    <3> QED
      BY <1>1, <1>3 DEF Counts, rows
  <2>2. (IF n < 0 THEN -n ELSE n) = IF -n < 0 THEN -(-n) ELSE -n
    BY <2>1
  <2>3. /\ ~IsError(take_magnitude(n)) /\ ~IsError(take_magnitude(-n))
        /\ take_magnitude(n).cells[1] = take_magnitude(-n).cells[1]
    BY <2>1, <2>2, MagnitudeIs
  <2> QED
    BY <2>3 DEF head, tail
<1>4. IsError(head(table, MinI64)) /\ IsError(tail(table, MinI64))
  BY <1>1, MagnitudeIs DEF head, tail, Error, IsError
<1> QED
  BY <1>2, <1>3, <1>4 DEF HeadTailSplit

-----------------------------------------------------------------------------
(* The invariant is inductive.                                             *)

\* One more call.
LEMMA CallsGrow ==
  ASSUME CallsInv, Len(calls) < MaxCalls, NEW m, NEW x, <<m, x>> \in Vocabulary, Made(m, x),
         m \in {"agg", "by", "set"} => FreshName(x[1])
  PROVE  /\ CallsInv' /\ Len(calls') = Len(calls) + 1
         /\ \A k : k # m => Said(k)' = Said(k) /\ SaidNamed(k)' = SaidNamed(k)
         /\ Said(m)' = Said(m) \cup {x}
         /\ m \in {"agg", "by", "set"} => SaidNamed(m)' = With(SaidNamed(m), x)
<1>1. /\ calls \in Seq(Vocabulary) /\ calls' = Append(calls, <<m, x>>)
      /\ calls' \in Seq(Vocabulary) /\ Len(calls') = Len(calls) + 1
      /\ Len(calls) \in Nat /\ MaxCalls \in Nat
  BY CallsAssumption DEF CallsInv, Made
<1>2. ArgsIn(calls', m) = ArgsIn(calls, m) \cup {x}
  BY <1>1, ArgsAppend
<1>3. \A k : k # m => ArgsIn(calls', k) = ArgsIn(calls, k)
  BY <1>1, ArgsAppend
<1>4. \A k : k # m => Said(k)' = Said(k) /\ SaidNamed(k)' = SaidNamed(k)
  BY <1>3, SaidIs
<1>5. Said(m)' = Said(m) \cup {x}
  BY <1>2, SaidIs
<1>6. ASSUME m \in {"agg", "by", "set"}
      PROVE  SaidNamed(m)' = With(SaidNamed(m), x) /\ Differ(Said(m)')
  <2>1. Differ(ArgsIn(calls, m))
    BY <1>6, SaidIs DEF CallsInv, NamesDiffer, Differ
  <2>2. \A q \in ArgsIn(calls, m) : q[1] # x[1]
    BY <1>6, FreshNames
  <2>3. NamedIn(ArgsIn(calls, m) \cup {x}) = With(NamedIn(ArgsIn(calls, m)), x)
        /\ Differ(ArgsIn(calls, m) \cup {x})
    BY <2>1, <2>2, NamedAppend
  <2>4. Said(m)' = ArgsIn(calls, m) \cup {x} /\ SaidNamed(m)' = NamedIn(ArgsIn(calls, m) \cup {x})
    BY <1>2, SaidIs
  <2>5. SaidNamed(m) = NamedIn(ArgsIn(calls, m))
    BY SaidIs
  <2> QED
    BY <2>3, <2>4, <2>5
<1>7. ASSUME NEW k \in {"agg", "by", "set"} PROVE NamesDiffer(k)'
  <2>1. CASE k = m
    BY <1>6, <1>7, <2>1 DEF NamesDiffer, Differ
  <2>2. CASE k # m
    <3>1. NamesDiffer(k)
      BY <1>7 DEF CallsInv
    <3>2. Said(k)' = Said(k)
      BY <1>4, <2>2
    <3> QED
      BY <3>1, <3>2 DEF NamesDiffer
  <2> QED
    BY <2>1, <2>2
<1>8. CallsInv'
  <2>1. Len(calls') <= MaxCalls
    BY <1>1
  <2>2. NamesDiffer("agg")' /\ NamesDiffer("by")' /\ NamesDiffer("set")'
    BY <1>7
  <2> QED
    BY <1>1, <2>1, <2>2 DEF CallsInv
<1> QED
  BY <1>1, <1>4, <1>5, <1>6, <1>8

\* A call of another method leaves the filters alone.
LEMMA WheresKept ==
  ASSUME CallsInv, WheresInv, builder'.wheres = builder.wheres, Said("filter")' = Said("filter"),
         Len(calls') = Len(calls) + 1
  PROVE  WheresInv'
<1>1. Len(calls) \in Nat /\ Len(builder.wheres) \in Nat
  BY DEF CallsInv, WheresInv
<1> QED
  BY <1>1 DEF WheresInv

\* One more filter.
LEMMA WheresGrow ==
  ASSUME CallsInv, WheresInv, NEW e \in Preds, builder'.wheres = Append(builder.wheres, e),
         Said("filter")' = Said("filter") \cup {e}, Len(calls') = Len(calls) + 1
  PROVE  WheresInv'
<1> DEFINE ws == builder.wheres
           us == builder'.wheres
           n == Len(ws) + 1
<1>1. ws \in Seq(Preds) /\ Len(calls) \in Nat /\ Len(ws) <= Len(calls)
  BY DEF CallsInv, WheresInv
<1>2. us = Append(ws, e)
  OBVIOUS
<1> HIDE DEF ws, us
<1>3. /\ us \in Seq(Preds) /\ Len(us) = n /\ n \in Nat /\ n <= Len(calls) + 1
      /\ 1..n = (1..Len(ws)) \cup {n} /\ us[n] = e
      /\ \A i \in 1..Len(ws) : us[i] = ws[i]
  BY <1>1, <1>2
<1> HIDE DEF n
<1>4. {us[i] : i \in 1..n} = {ws[i] : i \in 1..Len(ws)} \cup {e}
  <2> DEFINE X == 1..Len(ws)
             Y == 1..n
  <2>1. Y = X \cup {n} /\ us[n] = e /\ \A i \in X : us[i] = ws[i]
    BY <1>3
  <2> HIDE DEF X, Y
  <2>2. {us[i] : i \in Y} = {ws[i] : i \in X} \cup {e}
    BY <2>1
  <2> QED
    BY <2>2 DEF X, Y
<1>5. Said("filter") = {ws[i] : i \in 1..Len(ws)}
  BY DEF WheresInv, ws
<1>6. Said("filter")' = {us[i] : i \in 1..Len(us)}
  BY <1>3, <1>4, <1>5
<1>7. us \in Seq(Preds) /\ Len(us) <= Len(calls')
  BY <1>3
<1> QED
  BY <1>6, <1>7 DEF WheresInv, us

\* A call of another method leaves the order alone.
LEMMA OrderKept ==
  ASSUME calls \in Seq(Vocabulary), OrderInv, builder'.order = builder.order,
         NEW m, m # "order_by", NEW x, Made(m, x), Said("order_by")' = Said("order_by")
  PROVE  OrderInv'
<1>1. CASE builder.order = <<>> /\ Said("order_by") = {}
  BY <1>1 DEF OrderInv
<1>2. ASSUME NEW i \in DOMAIN calls, calls[i][1] = "order_by", builder.order = <<calls[i][2]>>,
             \A j \in DOMAIN calls : calls[j][1] = "order_by" => j <= i
      PROVE  OrderInv'
  <2>1. /\ i \in DOMAIN calls' /\ calls'[i] = calls[i]
        /\ \A j \in DOMAIN calls' : (j \in DOMAIN calls /\ calls'[j] = calls[j]) \/ calls'[j][1] = m
    BY DEF Made
  <2>2. \A j \in DOMAIN calls' : calls'[j][1] = "order_by" => j <= i
    BY <1>2, <2>1
  <2> QED
    BY <1>2, <2>1, <2>2 DEF OrderInv
<1> QED
  BY <1>1, <1>2 DEF OrderInv

\* An order takes the place of the one before.
LEMMA OrderSaid ==
  ASSUME calls \in Seq(Vocabulary), NEW o, builder'.order = <<o>>, Made("order_by", o)
  PROVE  OrderInv'
<1> DEFINE n == Len(calls) + 1
<1>1. n \in DOMAIN calls' /\ calls'[n] = <<"order_by", o>> /\ \A j \in DOMAIN calls' : j <= n
  BY DEF Made
<1>2. calls'[n][1] = "order_by" /\ calls'[n][2] = o
  BY <1>1
<1> HIDE DEF n
<1> QED
  BY <1>1, <1>2 DEF OrderInv

\* The builder at hand is the one whose calls the invariant speaks of.
LEMMA BuildingSelect ==
  ASSUME IInv, Building("select")
  PROVE  /\ SelectInv /\ CallsInv /\ WheresInv /\ OrderInv /\ Len(calls) < MaxCalls
         /\ builder = [kind |-> "select", from |-> table, proj |-> SaidNamed("agg"),
                       wheres |-> builder.wheres, by |-> SaidNamed("by"), order |-> builder.order]
         /\ calls \in Seq(Vocabulary)
BY DEF IInv, Building, SelectInv, CallsInv

\* The same for an update.
LEMMA BuildingUpdate ==
  ASSUME IInv, Building("update")
  PROVE  /\ UpdateInv /\ CallsInv /\ WheresInv /\ Len(calls) < MaxCalls
         /\ builder = [kind |-> "update", from |-> table, sets |-> SaidNamed("set"),
                       wheres |-> builder.wheres]
         /\ calls \in Seq(Vocabulary)
BY DEF IInv, Building, UpdateInv, CallsInv

\* The calls of the actions are in the vocabulary.
LEMMA Words ==
  /\ \A p \in Aggs : <<"agg", p>> \in Vocabulary
  /\ \A e \in Preds : <<"filter", e>> \in Vocabulary
  /\ \A p \in Keys : <<"by", p>> \in Vocabulary
  /\ \A o \in Orders : <<"order_by", o>> \in Vocabulary
  /\ \A p \in Sets : <<"set", p>> \in Vocabulary
BY DEF Vocabulary

\* A select or an update that has not been executed since.
LEMMA StillSelect ==
  ASSUME IInv, CallsInv', WheresInv', OrderInv', out' = Nothing, table' = table,
         builder' = [kind |-> "select", from |-> table, proj |-> SaidNamed("agg")',
                     wheres |-> builder'.wheres, by |-> SaidNamed("by")', order |-> builder'.order]
  PROVE  IInv'
<1>1. SelectInv' /\ builder'.kind = "select"
  BY DEF SelectInv
<1> QED
  BY <1>1 DEF IInv

\* The same for an update.
LEMMA StillUpdate ==
  ASSUME IInv, CallsInv', WheresInv', out' = Nothing, table' = table,
         builder' = [kind |-> "update", from |-> table, sets |-> SaidNamed("set")',
                     wheres |-> builder'.wheres]
  PROVE  IInv'
<1>1. UpdateInv' /\ builder'.kind = "update"
  BY DEF UpdateInv
<1> QED
  BY <1>1 DEF IInv

\* A new builder has no calls.
LEMMA EmptySays ==
  ASSUME calls' = <<>>
  PROVE  /\ CallsInv' /\ \A m : Said(m)' = {} /\ SaidNamed(m)' = NoExprs
<1>1. \A m : Said(m)' = {} /\ SaidNamed(m)' = NoExprs
  BY SaidIs, ArgsOfNone
<1>2. <<>> \in Seq(Vocabulary) /\ Len(<<>>) <= MaxCalls
  BY CallsAssumption
<1> QED
  BY <1>1, <1>2 DEF CallsInv, NamesDiffer

\* The invariant holds at first.
LEMMA InitIInv == Init => IInv
BY DEF Init, IInv, NoBuilder

\* A select begins with empty fields.
LEMMA BeginSelectInv ==
  ASSUME IInv, BeginSelect
  PROVE  IInv'
<1>1. calls' = <<>> /\ builder' = NewSelect /\ out' = Nothing /\ table' = table
  BY DEF BeginSelect
<1>2. CallsInv' /\ \A m : Said(m)' = {} /\ SaidNamed(m)' = NoExprs
  BY <1>1, EmptySays
<1>3. /\ builder'.wheres = <<>> /\ builder'.order = <<>>
      /\ builder' = [kind |-> "select", from |-> table, proj |-> NoExprs,
                     wheres |-> <<>>, by |-> NoExprs, order |-> <<>>]
  BY <1>1 DEF NewSelect
<1>4. WheresInv'
  BY <1>1, <1>2, <1>3 DEF WheresInv
<1>5. OrderInv'
  BY <1>2, <1>3 DEF OrderInv
<1> QED
  BY <1>1, <1>2, <1>3, <1>4, <1>5, StillSelect

\* So does an update.
LEMMA BeginUpdateInv ==
  ASSUME IInv, BeginUpdate
  PROVE  IInv'
<1>1. calls' = <<>> /\ builder' = NewUpdate /\ out' = Nothing /\ table' = table
  BY DEF BeginUpdate
<1>2. CallsInv' /\ \A m : Said(m)' = {} /\ SaidNamed(m)' = NoExprs
  BY <1>1, EmptySays
<1>3. /\ builder'.wheres = <<>>
      /\ builder' = [kind |-> "update", from |-> table, sets |-> NoExprs, wheres |-> <<>>]
  BY <1>1 DEF NewUpdate
<1>4. WheresInv'
  BY <1>1, <1>2, <1>3 DEF WheresInv
<1> QED
  BY <1>1, <1>2, <1>3, <1>4, StillUpdate

\* col, cols and agg keep the invariant.
LEMMA AggInv ==
  ASSUME IInv, NEW p \in Aggs, Agg(p)
  PROVE  IInv'
<1>1. /\ Building("select") /\ FreshName(p[1]) /\ Made("agg", p) /\ out' = Nothing /\ table' = table
      /\ builder' = [builder EXCEPT !.proj = With(@, p)]
  BY DEF Agg
<1>2. /\ CallsInv /\ WheresInv /\ OrderInv /\ Len(calls) < MaxCalls /\ calls \in Seq(Vocabulary)
      /\ builder = [kind |-> "select", from |-> table, proj |-> SaidNamed("agg"),
                    wheres |-> builder.wheres, by |-> SaidNamed("by"), order |-> builder.order]
  BY <1>1, BuildingSelect
<1>3. /\ CallsInv' /\ Len(calls') = Len(calls) + 1
      /\ \A k : k # "agg" => Said(k)' = Said(k) /\ SaidNamed(k)' = SaidNamed(k)
      /\ SaidNamed("agg")' = With(SaidNamed("agg"), p)
  BY <1>1, <1>2, Words, CallsGrow
<1>4. /\ builder'.wheres = builder.wheres /\ builder'.order = builder.order
      /\ builder' = [kind |-> "select", from |-> table, proj |-> With(SaidNamed("agg"), p),
                     wheres |-> builder'.wheres, by |-> SaidNamed("by"), order |-> builder'.order]
  BY <1>1, <1>2
<1>5. WheresInv'
  BY <1>2, <1>3, <1>4, WheresKept
<1>6. OrderInv'
  BY <1>1, <1>2, <1>3, <1>4, OrderKept
<1> QED
  BY <1>1, <1>3, <1>4, <1>5, <1>6, StillSelect

\* by and by_expr keep it.
LEMMA ByInv ==
  ASSUME IInv, NEW p \in Keys, By(p)
  PROVE  IInv'
<1>1. /\ Building("select") /\ FreshName(p[1]) /\ Made("by", p) /\ out' = Nothing /\ table' = table
      /\ builder' = [builder EXCEPT !.by = With(@, p)]
  BY DEF By
<1>2. /\ CallsInv /\ WheresInv /\ OrderInv /\ Len(calls) < MaxCalls /\ calls \in Seq(Vocabulary)
      /\ builder = [kind |-> "select", from |-> table, proj |-> SaidNamed("agg"),
                    wheres |-> builder.wheres, by |-> SaidNamed("by"), order |-> builder.order]
  BY <1>1, BuildingSelect
<1>3. /\ CallsInv' /\ Len(calls') = Len(calls) + 1
      /\ \A k : k # "by" => Said(k)' = Said(k) /\ SaidNamed(k)' = SaidNamed(k)
      /\ SaidNamed("by")' = With(SaidNamed("by"), p)
  BY <1>1, <1>2, Words, CallsGrow
<1>4. /\ builder'.wheres = builder.wheres /\ builder'.order = builder.order
      /\ builder' = [kind |-> "select", from |-> table, proj |-> SaidNamed("agg"),
                     wheres |-> builder'.wheres, by |-> With(SaidNamed("by"), p), order |-> builder'.order]
  BY <1>1, <1>2
<1>5. WheresInv'
  BY <1>2, <1>3, <1>4, WheresKept
<1>6. OrderInv'
  BY <1>1, <1>2, <1>3, <1>4, OrderKept
<1> QED
  BY <1>1, <1>3, <1>4, <1>5, <1>6, StillSelect

\* The sorts keep it.
LEMMA OrderByInv ==
  ASSUME IInv, NEW o \in Orders, OrderBy(o)
  PROVE  IInv'
<1>1. /\ Building("select") /\ Made("order_by", o) /\ out' = Nothing /\ table' = table
      /\ builder' = [builder EXCEPT !.order = <<o>>]
  BY DEF OrderBy
<1>2. /\ CallsInv /\ WheresInv /\ OrderInv /\ Len(calls) < MaxCalls /\ calls \in Seq(Vocabulary)
      /\ builder = [kind |-> "select", from |-> table, proj |-> SaidNamed("agg"),
                    wheres |-> builder.wheres, by |-> SaidNamed("by"), order |-> builder.order]
  BY <1>1, BuildingSelect
<1>3. /\ CallsInv' /\ Len(calls') = Len(calls) + 1
      /\ \A k : k # "order_by" => Said(k)' = Said(k) /\ SaidNamed(k)' = SaidNamed(k)
  BY <1>1, <1>2, Words, CallsGrow
<1>4. /\ builder'.wheres = builder.wheres /\ builder'.order = <<o>>
      /\ builder' = [kind |-> "select", from |-> table, proj |-> SaidNamed("agg"),
                     wheres |-> builder'.wheres, by |-> SaidNamed("by"), order |-> builder'.order]
  BY <1>1, <1>2
<1>5. WheresInv'
  BY <1>2, <1>3, <1>4, WheresKept
<1>6. OrderInv'
  BY <1>1, <1>2, <1>4, OrderSaid
<1> QED
  BY <1>1, <1>3, <1>4, <1>5, <1>6, StillSelect

\* filter keeps it, of both builders.
LEMMA FilterInv ==
  ASSUME IInv, NEW e \in Preds, Filter(e)
  PROVE  IInv'
<1>1. /\ Made("filter", e) /\ out' = Nothing /\ table' = table
      /\ builder' = [builder EXCEPT !.wheres = Append(@, e)]
  BY DEF Filter
<1>2. CASE Building("select")
  <2>1. /\ CallsInv /\ WheresInv /\ OrderInv /\ Len(calls) < MaxCalls /\ calls \in Seq(Vocabulary)
        /\ builder = [kind |-> "select", from |-> table, proj |-> SaidNamed("agg"),
                      wheres |-> builder.wheres, by |-> SaidNamed("by"), order |-> builder.order]
    BY <1>2, BuildingSelect
  <2>2. /\ CallsInv' /\ Len(calls') = Len(calls) + 1
        /\ \A k : k # "filter" => Said(k)' = Said(k) /\ SaidNamed(k)' = SaidNamed(k)
        /\ Said("filter")' = Said("filter") \cup {e}
    BY <1>1, <2>1, Words, CallsGrow
  <2>3. /\ builder'.wheres = Append(builder.wheres, e) /\ builder'.order = builder.order
        /\ builder' = [kind |-> "select", from |-> table, proj |-> SaidNamed("agg"),
                       wheres |-> builder'.wheres, by |-> SaidNamed("by"), order |-> builder'.order]
    <3>1. \A w : [builder EXCEPT !.wheres = w] =
                   [kind |-> "select", from |-> table, proj |-> SaidNamed("agg"),
                    wheres |-> w, by |-> SaidNamed("by"), order |-> builder.order]
      BY <2>1
    <3>2. builder' = [kind |-> "select", from |-> table, proj |-> SaidNamed("agg"),
                      wheres |-> Append(builder.wheres, e), by |-> SaidNamed("by"),
                      order |-> builder.order]
      BY <1>1, <3>1
    <3> QED
      BY <3>2
  <2>4. WheresInv'
    BY <2>1, <2>2, <2>3, WheresGrow
  <2>5. OrderInv'
    BY <1>1, <2>1, <2>2, <2>3, OrderKept
  <2> QED
    BY <1>1, <2>2, <2>3, <2>4, <2>5, StillSelect
<1>3. CASE Building("update")
  <2>1. /\ CallsInv /\ WheresInv /\ Len(calls) < MaxCalls /\ calls \in Seq(Vocabulary)
        /\ builder = [kind |-> "update", from |-> table, sets |-> SaidNamed("set"),
                      wheres |-> builder.wheres]
    BY <1>3, BuildingUpdate
  <2>2. /\ CallsInv' /\ Len(calls') = Len(calls) + 1
        /\ \A k : k # "filter" => Said(k)' = Said(k) /\ SaidNamed(k)' = SaidNamed(k)
        /\ Said("filter")' = Said("filter") \cup {e}
    BY <1>1, <2>1, Words, CallsGrow
  <2>3. /\ builder'.wheres = Append(builder.wheres, e)
        /\ builder' = [kind |-> "update", from |-> table, sets |-> SaidNamed("set"),
                       wheres |-> builder'.wheres]
    <3>1. \A w : [builder EXCEPT !.wheres = w] =
                   [kind |-> "update", from |-> table, sets |-> SaidNamed("set"), wheres |-> w]
      BY <2>1
    <3>2. builder' = [kind |-> "update", from |-> table, sets |-> SaidNamed("set"),
                      wheres |-> Append(builder.wheres, e)]
      BY <1>1, <3>1
    <3> QED
      BY <3>2
  <2>4. WheresInv'
    BY <2>1, <2>2, <2>3, WheresGrow
  <2> QED
    BY <1>1, <2>2, <2>3, <2>4, StillUpdate
<1> QED
  BY <1>2, <1>3 DEF Filter

\* set keeps it.
LEMMA SetInv ==
  ASSUME IInv, NEW p \in Sets, Set(p)
  PROVE  IInv'
<1>1. /\ Building("update") /\ FreshName(p[1]) /\ Made("set", p) /\ out' = Nothing /\ table' = table
      /\ builder' = [builder EXCEPT !.sets = With(@, p)]
  BY DEF Set
<1>2. /\ CallsInv /\ WheresInv /\ Len(calls) < MaxCalls /\ calls \in Seq(Vocabulary)
      /\ builder = [kind |-> "update", from |-> table, sets |-> SaidNamed("set"),
                    wheres |-> builder.wheres]
  BY <1>1, BuildingUpdate
<1>3. /\ CallsInv' /\ Len(calls') = Len(calls) + 1
      /\ \A k : k # "set" => Said(k)' = Said(k) /\ SaidNamed(k)' = SaidNamed(k)
      /\ SaidNamed("set")' = With(SaidNamed("set"), p)
  BY <1>1, <1>2, Words, CallsGrow
<1>4. /\ builder'.wheres = builder.wheres
      /\ builder' = [kind |-> "update", from |-> table, sets |-> With(SaidNamed("set"), p),
                     wheres |-> builder'.wheres]
  BY <1>1, <1>2
<1>5. WheresInv'
  BY <1>2, <1>3, <1>4, WheresKept
<1> QED
  BY <1>1, <1>3, <1>4, <1>5, StillUpdate

\* What the invariant says of the builder and its calls, whatever was answered.
LEMMA OutAlone ==
  ASSUME IInv, UNCHANGED <<table, builder, calls>>
  PROVE  /\ CallsInv => CallsInv'
         /\ WheresInv => WheresInv'
         /\ OrderInv => OrderInv'
         /\ \A m : Said(m)' = Said(m) /\ SaidNamed(m)' = SaidNamed(m)
<1>1. \A m : Said(m)' = Said(m) /\ SaidNamed(m)' = SaidNamed(m)
  BY SaidIs
<1> QED
  BY <1>1 DEF CallsInv, WheresInv, OrderInv, NamesDiffer

\* Executing a select leaves its fields alone.
LEMMA ExecuteSelectInv ==
  ASSUME IInv, ExecuteSelect
  PROVE  IInv'
<1>1. /\ builder.kind = "select" /\ out' = select_execute(builder)
      /\ UNCHANGED <<table, builder, calls>>
  BY DEF ExecuteSelect
<1>2. SelectInv
  BY <1>1 DEF IInv
<1>3. out' = select_execute(builder')
  BY <1>1
<1>4. SelectInv'
  BY <1>1, <1>2, <1>3, OutAlone DEF SelectInv
<1> QED
  BY <1>1, <1>4 DEF IInv

\* So does executing an update.
LEMMA ExecuteUpdateInv ==
  ASSUME IInv, ExecuteUpdate
  PROVE  IInv'
<1>1. /\ builder.kind = "update" /\ out' = UpdateWith(update_dict(builder))
      /\ UNCHANGED <<table, builder, calls>>
  BY DEF ExecuteUpdate
<1>2. UpdateInv
  BY <1>1 DEF IInv
<1>3. out' = UpdateWith(update_dict(builder'))
  BY <1>1
<1>4. UpdateInv'
  BY <1>1, <1>2, <1>3, OutAlone DEF UpdateInv
<1> QED
  BY <1>1, <1>4 DEF IInv

\* Without a builder there is nothing to keep.
LEMMA IdleInv ==
  ASSUME IInv, table' = table, builder' = NoBuilder
  PROVE  IInv'
BY DEF IInv, NoBuilder

\* head, tail and take have no builder.
LEMMA SlicedInv ==
  ASSUME IInv, NEW m, NEW n, NEW v, Sliced(m, n, v)
  PROVE  IInv'
<1>1. table' = table /\ builder' = NoBuilder
  BY DEF Sliced, Idle
<1> QED
  BY <1>1, IdleInv

\* Nothing happens to anything.
LEMMA StutterInv ==
  ASSUME IInv, UNCHANGED vars
  PROVE  IInv'
<1>1. UNCHANGED <<table, builder, calls>> /\ out' = out
  BY DEF vars
<1>2. SelectInv => SelectInv'
  BY <1>1, OutAlone DEF SelectInv
<1>3. UpdateInv => UpdateInv'
  BY <1>1, OutAlone DEF UpdateInv
<1> QED
  BY <1>1, <1>2, <1>3 DEF IInv

\* Every step keeps the invariant.
LEMMA StepInv ==
  ASSUME IInv, [Next]_vars
  PROVE  IInv'
<1>1. CASE BeginSelect
  BY <1>1, BeginSelectInv
<1>2. CASE BeginUpdate
  BY <1>2, BeginUpdateInv
<1>3. CASE \E p \in Aggs : Agg(p)
  BY <1>3, AggInv
<1>4. CASE \E e \in Preds : Filter(e)
  BY <1>4, FilterInv
<1>5. CASE \E p \in Keys : By(p)
  BY <1>5, ByInv
<1>6. CASE \E o \in Orders : OrderBy(o)
  BY <1>6, OrderByInv
<1>7. CASE \E p \in Sets : Set(p)
  BY <1>7, SetInv
<1>8. CASE ExecuteSelect
  BY <1>8, ExecuteSelectInv
<1>9. CASE ExecuteUpdate
  BY <1>9, ExecuteUpdateInv
<1>10. CASE Drop
  BY <1>10, IdleInv DEF Drop
<1>11. CASE \E n \in Counts \cup {MinI64} : Sliced("head", n, head(table, n))
  BY <1>11, SlicedInv
<1>12. CASE \E n \in Counts \cup {MinI64} : Sliced("tail", n, tail(table, n))
  BY <1>12, SlicedInv
<1>13. CASE \E n \in Counts : Sliced("take", n, take_rows(Whole(table), n))
  BY <1>13, SlicedInv
<1>14. CASE UNCHANGED vars
  BY <1>14, StutterInv
<1> QED
  BY <1>1, <1>2, <1>3, <1>4, <1>5, <1>6, <1>7, <1>8, <1>9, <1>10, <1>11, <1>12, <1>13, <1>14 DEF Next

(* The fields of a builder are what the calls made on it say, and what it  *)
(* answered last is what execute makes of these fields: filters in the     *)
(* order they came, the last order, one expression under each name         *)
(* (query.rs:106-155 and 229-247).                                         *)
THEOREM Invariance == Spec => []IInv
<1>1. IInv /\ [Next]_vars => IInv'
  BY StepInv
<1> QED
  BY InitIInv, <1>1, PTL DEF Spec

(* SelectMeansCalls: whatever the tables, the calls and their expressions  *)
(* are, a select that answers (query.rs:157-218) answers with what the     *)
(* calls mean, read with every expression as it was written.               *)
THEOREM SelectIsMeant == Spec => []SelectMeansCalls
<1>1. IInv => SelectMeansCalls
  BY InvSelectMeansCalls
<1> QED
  BY <1>1, Invariance, PTL

(* MaskedSumsAnswered: a select whose filters all stand right under a sum  *)
(* or a count, at any depth, is never refused by the query path:           *)
(* dag_rewrite (query.rs:29-74) leaves it none of them.                    *)
THEOREM MasksAreAnswered == Spec => []MaskedSumsAnswered
<1>1. IInv => MaskedSumsAnswered
  BY InvMaskedSumsAnswered
<1> QED
  BY <1>1, Invariance, PTL

(* UpdateMeansCalls: an update (query.rs:249-276) writes the rows that     *)
(* pass all filters, with what was set for them, and no other cell.        *)
THEOREM UpdateIsMeant == Spec => []UpdateMeansCalls
<1>1. IInv => UpdateMeansCalls
  BY InvUpdateMeansCalls
<1> QED
  BY <1>1, Invariance, PTL

(* HeadTailSplit: head and tail (query.rs:324-331 and 371-374) split any   *)
(* table at any row, take a count and its negation alike, and refuse the   *)
(* least i64.                                                              *)
THEOREM HeadAndTailSplit == Spec => []HeadTailSplit
<1>1. IInv => HeadTailSplit
  BY InvHeadTailSplit DEF IInv
<1> QED
  BY <1>1, Invariance, PTL
=============================================================================
