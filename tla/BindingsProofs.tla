---------------------------- MODULE BindingsProofs ----------------------------
(***************************************************************************)
(* Theorems about Bindings.tla for any threads, lambdas, names and Fns,    *)
(* and any number of runtimes: apply and call agree, and a generated name  *)
(* is never another lambda's, however long its expression is kept.         *)
(***************************************************************************)
EXTENDS Bindings, TLAPS

AllNames == Names \cup Generated

(* Definitions are numbered as they come, and are of the program's names.  *)
(* The environment is empty between runtimes; runtimes are counted from 1. *)
Defined ==
  /\ \A n \in AllNames : lastDef[n] <= defs
  /\ \A n \in Generated : lastDef[n] = 0
  /\ owner = NoThread => env = Unbound
  /\ owner # NoThread => scopes >= 1

(* A generated name that is bound was taken by this runtime's thread, and  *)
(* one in an expression by the thread that has it: both are below the      *)
(* counter, so the next name is neither's.                                 *)
Counted ==
  /\ \A n \in Generated : env[n] # NoLambda => owner # NoThread /\ n < counter[owner]
  /\ \A e \in Exprs : expr[e].name \in Generated => expr[e].name < counter[expr[e].thread]

(* A name resolves to the lambda it was given or found with, unless the    *)
(* program has defined it since.                                           *)
Resolves(n, l, since) == env[n] = l \/ lastDef[n] > since

(* A Fn lives within a scope and its name resolves to its lambda.          *)
FnsResolve ==
  \A f \in Fns :
    /\ owner = NoThread => fn[f] = NoFn
    /\ fn[f].since <= defs
    /\ fn[f].name # NoName =>
         fn[f].lam # NoLambda /\ Resolves(fn[f].name, fn[f].lam, fn[f].since)

(* So does that of an expression of this runtime; the older ones name      *)
(* nothing that is bound.                                                  *)
ExprsResolve ==
  \A e \in Exprs : expr[e].name # NoName =>
    /\ expr[e].thread \in Threads
    /\ expr[e].scope \in 1..scopes /\ expr[e].since <= defs
    /\ owner = expr[e].thread =>
         IF expr[e].scope = scopes
           THEN Resolves(expr[e].name, expr[e].lam, expr[e].since)
           ELSE expr[e].name \in Generated => env[expr[e].name] = NoLambda

IInv == TypeOK /\ Defined /\ Counted /\ FnsResolve /\ ExprsResolve

-----------------------------------------------------------------------------
(* The program's names, the generated ones and "no name" are all apart.    *)
NameFacts ==
  /\ Names \cap Generated = {} /\ NoName \notin AllNames
  /\ Generated \subseteq Nat /\ \A n \in Nat : n \in Generated <=> n >= 1 /\ n <= MaxCount
  /\ MaxCount \in Nat /\ MaxDefs \in Nat /\ MaxScopes \in Nat
  /\ NoLambda \notin Lambdas /\ NoThread \notin Threads /\ NoHandler \notin Handlers

LEMMA Apart == NameFacts
BY NamesAssumption, BoundsAssumption DEF NameFacts, AllNames, Generated, NoName

(* The initial states satisfy the invariant.                               *)
LEMMA InitIInv == Init => IInv
BY Apart DEF NameFacts, Init, IInv, TypeOK, Defined, Counted, FnsResolve, ExprsResolve, Unbound,
             NoFn, NoExpr, AllNames, Generated, NoName

(* Every action keeps the types.                                           *)
LEMMA TypeStep == IInv /\ [Next]_vars => TypeOK'
<1> SUFFICES ASSUME IInv, [Next]_vars PROVE TypeOK'
  OBVIOUS
<1>0. NameFacts
  BY Apart
<1> USE DEF IInv, TypeOK, NameFacts, NoFn, NoName, Unbound
<1>1. ASSUME NEW t \in Threads, OpenScope(t) PROVE TypeOK'
  BY <1>0, <1>1 DEF OpenScope, fnVars, handlerVars
<1>2. ASSUME CloseScope PROVE TypeOK'
  BY <1>0, <1>2 DEF CloseScope
<1>3. ASSUME NEW n \in Names, NEW l \in Lambdas, Define(n, l) PROVE TypeOK'
  BY <1>0, <1>3 DEF Define, handlerVars, InScope
<1>4. ASSUME NEW f \in Fns, NEW l \in Lambdas, FnNew(f, l) PROVE TypeOK'
  BY <1>0, <1>4 DEF FnNew, handlerVars, InScope
<1>5. ASSUME NEW f \in Fns, NEW n \in Names, FromGlobal(f, n) PROVE TypeOK'
  BY <1>0, <1>5 DEF FromGlobal, handlerVars, InScope
<1>6. ASSUME NEW f \in Fns, NEW g \in Fns, CloneFn(f, g) PROVE TypeOK'
  BY <1>0, <1>6 DEF CloneFn, handlerVars
<1>7. ASSUME NEW f \in Fns, NEW e \in Exprs, ApplyNamed(f, e) PROVE TypeOK'
  BY <1>0, <1>7 DEF ApplyNamed, Applied, handlerVars
<1>8. ASSUME NEW f \in Fns, NEW e \in Exprs, ApplyBinds(f, e) PROVE TypeOK'
  BY <1>0, <1>8 DEF ApplyBinds, Applied, handlerVars, InScope
<1>9. ASSUME NEW h \in Handlers, BindObj(h) PROVE TypeOK'
  BY <1>0, <1>9 DEF BindObj, fnVars, Taken, InScope
<1>10. ASSUME UNCHANGED vars PROVE TypeOK'
  BY <1>0, <1>10 DEF vars, fnVars, handlerVars
<1> QED
  BY <1>1, <1>2, <1>3, <1>4, <1>5, <1>6, <1>7, <1>8, <1>9, <1>10 DEF Next

(* Definitions stay counted.                                               *)
LEMMA DefinedStep == IInv /\ [Next]_vars => Defined'
<1> SUFFICES ASSUME IInv, [Next]_vars PROVE Defined'
  OBVIOUS
<1>0. NameFacts
  BY Apart
<1> USE DEF IInv, TypeOK, NameFacts, AllNames, Defined, Unbound
<1>1. ASSUME NEW t \in Threads, OpenScope(t) PROVE Defined'
  BY <1>0, <1>1 DEF OpenScope, fnVars, handlerVars
<1>2. ASSUME CloseScope PROVE Defined'
  BY <1>0, <1>2 DEF CloseScope
<1>3. ASSUME NEW n \in Names, NEW l \in Lambdas, Define(n, l) PROVE Defined'
  BY <1>0, <1>3 DEF Define, handlerVars, InScope
<1>4. ASSUME NEW f \in Fns, NEW l \in Lambdas, FnNew(f, l) PROVE Defined'
  BY <1>0, <1>4 DEF FnNew, handlerVars, InScope
<1>5. ASSUME NEW f \in Fns, NEW n \in Names, FromGlobal(f, n) PROVE Defined'
  BY <1>0, <1>5 DEF FromGlobal, handlerVars, InScope
<1>6. ASSUME NEW f \in Fns, NEW g \in Fns, CloneFn(f, g) PROVE Defined'
  BY <1>0, <1>6 DEF CloneFn, handlerVars
<1>7. ASSUME NEW f \in Fns, NEW e \in Exprs, ApplyNamed(f, e) PROVE Defined'
  BY <1>0, <1>7 DEF ApplyNamed, Applied, handlerVars
<1>8. ASSUME NEW f \in Fns, NEW e \in Exprs, ApplyBinds(f, e) PROVE Defined'
  BY <1>0, <1>8 DEF ApplyBinds, Applied, handlerVars, InScope
<1>9. ASSUME NEW h \in Handlers, BindObj(h) PROVE Defined'
  BY <1>0, <1>9 DEF BindObj, fnVars, Taken, InScope
<1>10. ASSUME UNCHANGED vars PROVE Defined'
  BY <1>0, <1>10 DEF vars, fnVars, handlerVars
<1> QED
  BY <1>1, <1>2, <1>3, <1>4, <1>5, <1>6, <1>7, <1>8, <1>9, <1>10 DEF Next

(* Generated names stay below the counters.                                *)
LEMMA CountedStep == IInv /\ [Next]_vars => Counted'
<1> SUFFICES ASSUME IInv, [Next]_vars PROVE Counted'
  OBVIOUS
<1>0. NameFacts
  BY Apart
<1> USE DEF IInv, TypeOK, NameFacts, AllNames, Defined, Counted, Unbound
<1>1. ASSUME NEW t \in Threads, OpenScope(t) PROVE Counted'
  BY <1>0, <1>1 DEF OpenScope, fnVars, handlerVars
<1>2. ASSUME CloseScope PROVE Counted'
  BY <1>0, <1>2 DEF CloseScope
<1>3. ASSUME NEW n \in Names, NEW l \in Lambdas, Define(n, l) PROVE Counted'
  BY <1>0, <1>3 DEF Define, handlerVars, InScope
<1>4. ASSUME NEW f \in Fns, NEW l \in Lambdas, FnNew(f, l) PROVE Counted'
  BY <1>0, <1>4 DEF FnNew, handlerVars, InScope
<1>5. ASSUME NEW f \in Fns, NEW n \in Names, FromGlobal(f, n) PROVE Counted'
  BY <1>0, <1>5 DEF FromGlobal, handlerVars, InScope
<1>6. ASSUME NEW f \in Fns, NEW g \in Fns, CloneFn(f, g) PROVE Counted'
  BY <1>0, <1>6 DEF CloneFn, handlerVars
<1>7. ASSUME NEW f \in Fns, NEW e \in Exprs, ApplyNamed(f, e) PROVE Counted'
  <2>1. fn[f].name \in Generated => env[fn[f].name] # NoLambda
    BY <1>0, <1>7 DEF ApplyNamed, FnsResolve, Resolves
  <2> QED
    BY <1>0, <1>7, <2>1 DEF ApplyNamed, Applied, handlerVars, FnsResolve, NoFn
<1>8. ASSUME NEW f \in Fns, NEW e \in Exprs, ApplyBinds(f, e) PROVE Counted'
  <2>1. CASE env' = env /\ expr' = expr
    BY <1>0, <1>8, <2>1 DEF ApplyBinds, InScope
  <2>2. CASE env' = [env EXCEPT ![counter[owner]] = fn[f].lam] /\ Applied(f, e, counter[owner])
    <3>1. /\ owner \in Threads /\ counter[owner] \in Generated /\ owner' = owner
          /\ counter' = [counter EXCEPT ![owner] = counter[owner] + 1]
      BY <1>0, <1>8 DEF ApplyBinds, InScope
    <3>2. \A n \in Generated : env'[n] # NoLambda => owner' # NoThread /\ n < counter'[owner']
      BY <1>0, <2>2, <3>1
    <3>3. ASSUME NEW d \in Exprs
          PROVE  expr'[d].name \in Generated => expr'[d].name < counter'[expr'[d].thread]
      <4>1. CASE d = e
        BY <1>0, <2>2, <3>1, <4>1 DEF Applied
      <4>2. CASE d # e
        <5>1. expr'[d] = expr[d]
          BY <2>2, <4>2 DEF Applied
        <5>2. expr[d].name \in Generated =>
                expr[d].thread \in Threads /\ expr[d].name < counter[expr[d].thread]
          BY <1>0 DEF ExprsResolve
        <5>3. \A t \in Threads : counter[t] \in Nat /\ counter'[t] >= counter[t]
          BY <1>0, <3>1
        <5>4. \A n \in Generated : n \in Nat
          BY <1>0
        <5> HIDE DEF IInv, TypeOK, NameFacts, Defined, Counted
        <5>5. ASSUME expr[d].name \in Generated
              PROVE  expr[d].name < counter'[expr[d].thread]
          <6> DEFINE m == expr[d].name
                     c == counter[expr[d].thread]
                     c2 == counter'[expr[d].thread]
          <6>1. m \in Nat /\ c \in Nat /\ m < c /\ c2 >= c
            BY <5>2, <5>3, <5>4, <5>5
          <6>2. c2 \in Nat
            BY <1>0, <3>1, <5>2, <5>5 DEF NameFacts, TypeOK, IInv
          <6> QED
            BY <6>1, <6>2
        <5> QED
          BY <5>1, <5>5
      <4> QED
        BY <4>1, <4>2
    <3> QED
      BY <3>2, <3>3
  <2> QED
    BY <1>8, <2>1, <2>2 DEF ApplyBinds
<1>9. ASSUME NEW h \in Handlers, BindObj(h) PROVE Counted'
  BY <1>0, <1>9 DEF BindObj, fnVars, Taken, InScope
<1>10. ASSUME UNCHANGED vars PROVE Counted'
  BY <1>0, <1>10 DEF vars, fnVars, handlerVars
<1> QED
  BY <1>1, <1>2, <1>3, <1>4, <1>5, <1>6, <1>7, <1>8, <1>9, <1>10 DEF Next

(* The names of Fns go on resolving to their lambdas: the program defines  *)
(* them at a later date than the Fn's, and bind takes a name nobody has.   *)
LEMMA FnsStep == IInv /\ [Next]_vars => FnsResolve'
<1> SUFFICES ASSUME IInv, [Next]_vars PROVE FnsResolve'
  OBVIOUS
<1>0. NameFacts
  BY Apart
<1> USE DEF IInv, TypeOK, NameFacts, AllNames, Defined, Counted, FnsResolve, Resolves, NoFn, NoName, Unbound
<1>1. ASSUME NEW t \in Threads, OpenScope(t) PROVE FnsResolve'
  BY <1>0, <1>1 DEF OpenScope, fnVars, handlerVars
<1>2. ASSUME CloseScope PROVE FnsResolve'
  BY <1>0, <1>2 DEF CloseScope
<1>3. ASSUME NEW n \in Names, NEW l \in Lambdas, Define(n, l) PROVE FnsResolve'
  BY <1>0, <1>3 DEF Define, handlerVars, InScope
<1>4. ASSUME NEW f \in Fns, NEW l \in Lambdas, FnNew(f, l) PROVE FnsResolve'
  BY <1>0, <1>4 DEF FnNew, handlerVars, InScope
<1>5. ASSUME NEW f \in Fns, NEW n \in Names, FromGlobal(f, n) PROVE FnsResolve'
  BY <1>0, <1>5 DEF FromGlobal, handlerVars, InScope
<1>6. ASSUME NEW f \in Fns, NEW g \in Fns, CloneFn(f, g) PROVE FnsResolve'
  BY <1>0, <1>6 DEF CloneFn, handlerVars
<1>7. ASSUME NEW f \in Fns, NEW e \in Exprs, ApplyNamed(f, e) PROVE FnsResolve'
  BY <1>0, <1>7 DEF ApplyNamed, Applied, handlerVars
<1>8. ASSUME NEW f \in Fns, NEW e \in Exprs, ApplyBinds(f, e) PROVE FnsResolve'
  BY <1>0, <1>8 DEF ApplyBinds, Applied, handlerVars, InScope
<1>9. ASSUME NEW h \in Handlers, BindObj(h) PROVE FnsResolve'
  BY <1>0, <1>9 DEF BindObj, fnVars, Taken, InScope
<1>10. ASSUME UNCHANGED vars PROVE FnsResolve'
  BY <1>0, <1>10 DEF vars, fnVars, handlerVars
<1> QED
  BY <1>1, <1>2, <1>3, <1>4, <1>5, <1>6, <1>7, <1>8, <1>9, <1>10 DEF Next

(* And so do those of expressions, until their runtime ends.               *)
LEMMA ExprsStep == IInv /\ [Next]_vars => ExprsResolve'
<1> SUFFICES ASSUME IInv, [Next]_vars PROVE ExprsResolve'
  OBVIOUS
<1>0. NameFacts
  BY Apart
<1> USE DEF IInv, TypeOK, NameFacts, AllNames, Defined, Counted, FnsResolve, ExprsResolve, Resolves, NoName, Unbound
<1>1. ASSUME NEW t \in Threads, OpenScope(t) PROVE ExprsResolve'
  BY <1>0, <1>1 DEF OpenScope, fnVars, handlerVars
<1>2. ASSUME CloseScope PROVE ExprsResolve'
  BY <1>0, <1>2 DEF CloseScope
<1>3. ASSUME NEW n \in Names, NEW l \in Lambdas, Define(n, l) PROVE ExprsResolve'
  BY <1>0, <1>3 DEF Define, handlerVars, InScope
<1>4. ASSUME NEW f \in Fns, NEW l \in Lambdas, FnNew(f, l) PROVE ExprsResolve'
  BY <1>0, <1>4 DEF FnNew, handlerVars, InScope
<1>5. ASSUME NEW f \in Fns, NEW n \in Names, FromGlobal(f, n) PROVE ExprsResolve'
  BY <1>0, <1>5 DEF FromGlobal, handlerVars, InScope
<1>6. ASSUME NEW f \in Fns, NEW g \in Fns, CloneFn(f, g) PROVE ExprsResolve'
  BY <1>0, <1>6 DEF CloneFn, handlerVars
<1>7. ASSUME NEW f \in Fns, NEW e \in Exprs, ApplyNamed(f, e) PROVE ExprsResolve'
  <2>1. owner \in Threads /\ scopes \in 1..scopes
    BY <1>0, <1>7 DEF ApplyNamed, NoFn
  <2> QED
    BY <1>0, <1>7, <2>1 DEF ApplyNamed, Applied, handlerVars
<1>8. ASSUME NEW f \in Fns, NEW e \in Exprs, ApplyBinds(f, e) PROVE ExprsResolve'
  BY <1>0, <1>8 DEF ApplyBinds, Applied, handlerVars, InScope
<1>9. ASSUME NEW h \in Handlers, BindObj(h) PROVE ExprsResolve'
  BY <1>0, <1>9 DEF BindObj, fnVars, Taken, InScope
<1>10. ASSUME UNCHANGED vars PROVE ExprsResolve'
  BY <1>0, <1>10 DEF vars, fnVars, handlerVars
<1> QED
  BY <1>1, <1>2, <1>3, <1>4, <1>5, <1>6, <1>7, <1>8, <1>9, <1>10 DEF Next

-----------------------------------------------------------------------------
(* The invariant holds in every reachable state.                           *)
THEOREM Invariance == Spec => []IInv
<1>1. IInv /\ [Next]_vars => IInv'
  BY TypeStep, DefinedStep, CountedStep, FnsStep, ExprsStep DEF IInv
<1> QED
  BY InitIInv, <1>1, PTL DEF Spec

(* Every variable of Bindings.tla has its type.                            *)
THEOREM TypeCorrect == Spec => []TypeOK
<1>1. IInv => TypeOK
  BY DEF IInv
<1> QED
  BY Invariance, <1>1, PTL

(* An expression of apply runs the lambda that call runs, unless the       *)
(* program has defined its global again.                                   *)
THEOREM ApplyIsCall == Spec => []ApplyAgreesWithCall
<1>1. IInv => ApplyAgreesWithCall
  BY DEF IInv, ExprsResolve, Resolves, ApplyAgreesWithCall, Evaluable
<1> QED
  BY Invariance, <1>1, PTL

(* No generated name is ever another lambda's, in any runtime of any       *)
(* thread.                                                                 *)
THEOREM StaleNamesNothing == Spec => []StaleExprNamesNothing
<1>1. IInv => StaleExprNamesNothing
  BY DEF IInv, ExprsResolve, StaleExprNamesNothing, Evaluable
<1> QED
  BY Invariance, <1>1, PTL

(* A bind that returned Ok is the one dispatched.                          *)
THEOREM OkDispatched == Spec => []OkIsDispatched
<1>1. Init => OkIsDispatched
  BY DEF Init, OkIsDispatched
<1>2. OkIsDispatched /\ [Next]_vars => OkIsDispatched'
  BY DEF OkIsDispatched, Next, OpenScope, CloseScope, Define, FnNew, FromGlobal, CloneFn,
         ApplyNamed, ApplyBinds, BindObj, Taken, handlerVars, vars
<1> QED
  BY <1>1, <1>2, PTL DEF Spec
=============================================================================
