-------------------------------- MODULE Bindings --------------------------------
(***************************************************************************)
(* Names in the core's environment: rayforce/src/lambda.rs (Fn) and        *)
(* rayforce/src/env.rs (bind_vary, bind_unary).                            *)
(*                                                                         *)
(* A Fn is called through its object, and applied in a query through a     *)
(* name: the one it was found under, or one bind generates from a counter  *)
(* of the thread.  The expression apply returns holds that name and no     *)
(* Value, so it outlives the Fn, and the runtime too.  Each runtime has an *)
(* environment of its own; the counters are the threads'.                  *)
(*                                                                         *)
(* A handler is bound in two tables, the nested dictionaries and the flat  *)
(* one the dispatch of pushed frames looks in, each of which may refuse.   *)
(***************************************************************************)
EXTENDS Naturals

CONSTANTS
  Threads, NoThread,
  Lambdas, NoLambda,      \* lambda objects; what an unbound name resolves to
  Names,                  \* names the program gives to globals
  Fns, Exprs,             \* places that hold a Fn, and an expression of apply
  Handlers, NoHandler,    \* handler types; no binding
  MaxCount,               \* bound: names generated by one thread
  MaxDefs,                \* bound: definitions of globals by the program
  MaxScopes               \* bound: runtimes

ASSUME NamesAssumption ==
  /\ NoThread \notin Threads /\ NoLambda \notin Lambdas /\ NoHandler \notin Handlers
  /\ Names \cap Nat = {}
ASSUME BoundsAssumption == MaxCount \in Nat /\ MaxDefs \in Nat /\ MaxScopes \in Nat

Generated == 1..MaxCount      \* __rustfn_1, __rustfn_2, ...
NoName == 0
NoFn == [lam |-> NoLambda, name |-> NoName, since |-> 0]
NoExpr == [name |-> NoName, lam |-> NoLambda, since |-> 0, thread |-> NoThread, scope |-> 0]

VARIABLES
  owner,      \* the thread whose runtime is live, or NoThread
  scopes,     \* runtimes there have been
  counter,    \* BIND_COUNTER of each thread
  env,        \* the environment: what lambda a name is bound to
  defs,       \* definitions by the program so far
  lastDef,    \* history: which of them defined a name last
  fn,         \* the Fns: the object, bound_name, and defs when its global was found
  expr,       \* the expressions: the name; and as history what it was made of
  nested, flat, \* the two tables of handlers, of one name
  result      \* what the last bind of that name returned, and of which handler

fnVars == <<counter, env, defs, lastDef, fn, expr>>
handlerVars == <<nested, flat, result>>
vars == <<owner, scopes, fnVars, handlerVars>>

TypeOK ==
  /\ owner \in Threads \cup {NoThread} /\ scopes \in 0..MaxScopes
  /\ counter \in [Threads -> 1..MaxCount + 1]
  /\ env \in [Names \cup Generated -> Lambdas \cup {NoLambda}]
  /\ defs \in 0..MaxDefs /\ lastDef \in [Names \cup Generated -> 0..MaxDefs]
  /\ fn \in [Fns -> [lam : Lambdas \cup {NoLambda}, since : 0..MaxDefs,
                     name : Names \cup Generated \cup {NoName}]]
  /\ expr \in [Exprs -> [name : Names \cup Generated \cup {NoName}, since : 0..MaxDefs,
                         lam : Lambdas \cup {NoLambda}, thread : Threads \cup {NoThread},
                         scope : 0..MaxScopes]]
  /\ nested \in Handlers \cup {NoHandler} /\ flat \in Handlers \cup {NoHandler}
  /\ result \in {"none", "ok", "err"} \X (Handlers \cup {NoHandler})

Unbound == [n \in Names \cup Generated |-> NoLambda]

Init ==
  /\ owner = NoThread /\ scopes = 0
  /\ counter = [t \in Threads |-> 1]
  /\ env = Unbound /\ defs = 0 /\ lastDef = [n \in Names \cup Generated |-> 0]
  /\ fn = [f \in Fns |-> NoFn] /\ expr = [e \in Exprs |-> NoExpr]
  /\ nested = NoHandler /\ flat = NoHandler /\ result = <<"none", NoHandler>>

-----------------------------------------------------------------------------
(* Scopes *)

(* Slip: the names start over with each runtime.                           *)
OpenScopeCountsAnew(t) ==
  /\ owner = NoThread /\ scopes < MaxScopes
  /\ owner' = t /\ scopes' = scopes + 1
  /\ counter' = [counter EXCEPT ![t] = 1]
  /\ UNCHANGED <<env, defs, lastDef, fn, expr, handlerVars>>

OpenScope(t) ==
  /\ owner = NoThread /\ scopes < MaxScopes
  /\ owner' = t /\ scopes' = scopes + 1
  /\ UNCHANGED <<fnVars, handlerVars>>

(* The environment goes with the runtime, and the Fns, which hold Values,  *)
(* with the body of the scope.                                             *)
CloseScope ==
  /\ owner # NoThread
  /\ owner' = NoThread
  /\ env' = Unbound /\ fn' = [f \in Fns |-> NoFn]
  /\ nested' = NoHandler /\ flat' = NoHandler /\ result' = <<"none", NoHandler>>
  /\ UNCHANGED <<scopes, counter, defs, lastDef, expr>>

-----------------------------------------------------------------------------
(* Fn *)

InScope == owner # NoThread

(* set_global and eval by the program; names of the generated form are not *)
(* its to define.                                                          *)
Define(n, l) ==
  /\ InScope /\ defs < MaxDefs
  /\ env' = [env EXCEPT ![n] = l]
  /\ defs' = defs + 1 /\ lastDef' = [lastDef EXCEPT ![n] = defs + 1]
  /\ UNCHANGED <<owner, scopes, counter, fn, expr, handlerVars>>

(* Fn::new and Fn::from_value: a lambda without a name.                    *)
FnNew(f, l) ==
  /\ InScope
  /\ fn' = [fn EXCEPT ![f] = [lam |-> l, name |-> NoName, since |-> 0]]
  /\ UNCHANGED <<owner, scopes, counter, env, defs, lastDef, expr, handlerVars>>

(* Fn::from_global: the lambda, and the name it was found under.           *)
FromGlobal(f, n) ==
  /\ InScope /\ env[n] # NoLambda
  /\ fn' = [fn EXCEPT ![f] = [lam |-> env[n], name |-> n, since |-> defs]]
  /\ UNCHANGED <<owner, scopes, counter, env, defs, lastDef, expr, handlerVars>>

(* A clone shares the binding there is; it makes one of its own if there   *)
(* is none yet.                                                            *)
CloneFn(f, g) ==
  /\ fn[f] # NoFn /\ fn' = [fn EXCEPT ![g] = fn[f]]
  /\ UNCHANGED <<owner, scopes, counter, env, defs, lastDef, expr, handlerVars>>

(* apply, of a Fn that has a name.                                         *)
Applied(f, e, n) ==
  expr' = [expr EXCEPT ![e] =
    [name |-> n, lam |-> fn[f].lam, since |-> fn[f].since, thread |-> owner, scope |-> scopes]]

ApplyNamed(f, e) ==
  /\ fn[f].lam # NoLambda /\ fn[f].name # NoName
  /\ Applied(f, e, fn[f].name)
  /\ UNCHANGED <<owner, scopes, counter, env, defs, lastDef, fn, handlerVars>>

(* Slip: the name is recorded before it is bound.                          *)
BindRecordsFirst(f, e) ==
  LET n == counter[owner]
  IN  /\ InScope /\ fn[f].lam # NoLambda /\ fn[f].name = NoName
      /\ n \in Generated /\ counter' = [counter EXCEPT ![owner] = n + 1]
      /\ fn' = [fn EXCEPT ![f].name = n]
      /\ \/ /\ env' = [env EXCEPT ![n] = fn[f].lam] /\ Applied(f, e, n)
         \/ UNCHANGED <<env, expr>>
      /\ UNCHANGED <<owner, scopes, defs, lastDef, handlerVars>>

(* apply, of one that has none: bind takes the thread's next name, and the *)
(* core may refuse it, which uses the name up and leaves the Fn without.   *)
ApplyBinds(f, e) ==
  LET n == counter[owner]
  IN  /\ InScope /\ fn[f].lam # NoLambda /\ fn[f].name = NoName
      /\ n \in Generated /\ counter' = [counter EXCEPT ![owner] = n + 1]
      /\ \/ /\ env' = [env EXCEPT ![n] = fn[f].lam]
            /\ fn' = [fn EXCEPT ![f].name = n]
            /\ Applied(f, e, n)
         \/ UNCHANGED <<env, fn, expr>>
      /\ UNCHANGED <<owner, scopes, defs, lastDef, handlerVars>>

-----------------------------------------------------------------------------
(* bind_obj *)

Taken(h, byNested, byFlat) ==
  /\ nested' = IF byNested THEN h ELSE nested
  /\ flat' = IF byFlat THEN h ELSE flat

(* Both tables are tried, and what one has taken stays when the other      *)
(* refuses.                                                                *)
BindObj(h) ==
  /\ InScope
  /\ \E a, b \in BOOLEAN :
       Taken(h, a, b) /\ result' = <<IF a /\ b THEN "ok" ELSE "err", h>>
  /\ UNCHANGED <<owner, scopes, fnVars>>

-----------------------------------------------------------------------------
Next ==
  \/ \E t \in Threads : OpenScope(t)
  \/ CloseScope
  \/ \E n \in Names, l \in Lambdas : Define(n, l)
  \/ \E f \in Fns :
       \/ \E l \in Lambdas : FnNew(f, l)
       \/ \E n \in Names : FromGlobal(f, n)
       \/ \E g \in Fns : CloneFn(f, g)
       \/ \E e \in Exprs : ApplyNamed(f, e) \/ ApplyBinds(f, e)
  \/ \E h \in Handlers : BindObj(h)

Spec == Init /\ [][Next]_vars

-----------------------------------------------------------------------------
(* Properties *)

(* Where an expression can be evaluated: in a scope of its thread.         *)
Evaluable(e) == expr[e].name # NoName /\ owner = expr[e].thread

(* call and apply of one Fn run the same lambda: in its own runtime an     *)
(* expression resolves to the object its Fn holds, unless the program has  *)
(* defined the global again since the Fn was found (lambda.rs:8-16,        *)
(* 126-128).                                                               *)
ApplyAgreesWithCall ==
  \A e \in Exprs :
    Evaluable(e) /\ expr[e].scope = scopes =>
      env[expr[e].name] = expr[e].lam \/ lastDef[expr[e].name] > expr[e].since

(* An expression kept past its runtime names nothing, or nothing but what  *)
(* the program has defined itself: no later runtime of the thread, nor one *)
(* of another thread, gives its generated name to another lambda           *)
(* (lambda.rs:82-86).                                                      *)
StaleExprNamesNothing ==
  \A e \in Exprs :
    Evaluable(e) /\ expr[e].scope # scopes /\ expr[e].name \in Generated =>
      env[expr[e].name] = NoLambda

(* A bind that returned Ok is one the dispatch finds, whatever binds have  *)
(* half failed before it; the two tables differ only after an error        *)
(* (env.rs:143-149, 165-167).                                              *)
OkIsDispatched ==
  /\ result[1] = "ok" => flat = result[2] /\ nested = result[2]
  /\ nested # flat => result[1] = "err"
=============================================================================
