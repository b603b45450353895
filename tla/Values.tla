-------------------------------- MODULE Values --------------------------------
(***************************************************************************)
(* Values and their references: rayforce/src/value.rs, and the operations  *)
(* of vector.rs, list.rs, dict.rs, table.rs, env.rs and runtime.rs that    *)
(* make, share, take apart or change a value.                              *)
(*                                                                         *)
(* A Value is one counted reference to an object of the core's heap.  The  *)
(* core frees an object when its count reaches zero and checks nothing     *)
(* else: each operation must know whether the core call under it borrows,  *)
(* consumes or returns a reference, also when that call fails.  Mutators   *)
(* consume the reference and return another: to the same object if it was  *)
(* the only one, to a copy if not.                                         *)
(*                                                                         *)
(* Everything runs on the runtime's thread, so an operation is one step;   *)
(* what the core then frees, object by object, are steps of their own,     *)
(* with nothing in between.                                                *)
(***************************************************************************)
EXTENDS Naturals, Sequences, FiniteSets

CONSTANTS
  Objs,       \* blocks of the heap, used again once they are free
  Handles,    \* places that hold a Value
  None,       \* a place that holds none
  Null,       \* the null singleton, which is not counted
  Payloads,   \* what the cells of a vector can be
  MaxLen      \* bound: elements of a list

ASSUME NamesAssumption == None \notin Objs /\ Null \notin Objs /\ None # Null
ASSUME LenAssumption == MaxLen \in Nat \ {0}
ASSUME FiniteAssumption == IsFiniteSet(Objs) /\ IsFiniteSet(Handles)

VARIABLES
  kind,       \* kind[o]: what block o is, or "free"
  rc,         \* rc[o]: its reference count
  data,       \* data[o]: the cells of a vector
  kids,       \* kids[o]: what a list, dict or table holds, or a view looks at
  handle,     \* handle[h]: the pointer of the Value in h, or None
  env,        \* the object the core's environment binds to a name, or None
  args,       \* the arguments of the handler the core is calling
  releasing   \* references the core has been given to release

heapVars == <<kind, rc, data, kids>>
vars == <<heapVars, handle, env, args, releasing>>

Kinds == {"free", "vec", "view", "list", "dict", "table"}

TypeOK ==
  /\ kind \in [Objs -> Kinds]
  /\ rc \in [Objs -> Nat]
  /\ data \in [Objs -> Payloads \cup {None}]
  /\ kids \in [Objs -> Seq(Objs)]
  /\ \A o \in Objs : Len(kids[o]) <= MaxLen + 1
  /\ \A o \in Objs : kind[o] \in {"free", "vec"} => kids[o] = <<>>
  /\ handle \in [Handles -> Objs \cup {None, Null}]
  /\ env \in Objs \cup {None}
  /\ args \in Seq(Objs) /\ releasing \in Seq(Objs)

Init ==
  /\ kind = [o \in Objs |-> "free"]
  /\ rc = [o \in Objs |-> 0]
  /\ data = [o \in Objs |-> None]
  /\ kids = [o \in Objs |-> <<>>]
  /\ handle = [h \in Handles |-> None]
  /\ env = None /\ args = <<>> /\ releasing = <<>>

-----------------------------------------------------------------------------
(* The core *)

(* The core is not in the middle of freeing something.                     *)
Idle == releasing = <<>>

(* A fresh block, with the one reference the caller is given.              *)
Alloc(n, k, p, ks) ==
  /\ kind[n] = "free"
  /\ kind' = [kind EXCEPT ![n] = k]
  /\ data' = [data EXCEPT ![n] = p]
  /\ kids' = [kids EXCEPT ![n] = ks]

Occurrences(o, s) == Cardinality({i \in DOMAIN s : s[i] = o})
Retained(s) == [o \in Objs |-> rc[o] + Occurrences(o, s)]

(* ray_release: the last reference frees the block and what it holds.      *)
ReleaseOne ==
  /\ releasing # <<>>
  /\ LET o == Head(releasing)
     IN  /\ rc' = [rc EXCEPT ![o] = @ - 1]
         /\ IF rc[o] = 1
              THEN /\ kind' = [kind EXCEPT ![o] = "free"]
                   /\ data' = [data EXCEPT ![o] = None]
                   /\ kids' = [kids EXCEPT ![o] = <<>>]
                   /\ releasing' = Tail(releasing) \o kids[o]
              ELSE /\ releasing' = Tail(releasing)
                   /\ UNCHANGED <<kind, data, kids>>
  /\ UNCHANGED <<handle, env, args>>

(* What the copy of a vector or of a view starts from.                     *)
CellsOf(o) == IF kind[o] = "view" THEN data[kids[o][1]] ELSE data[o]
Unshared(o) == rc[o] = 1 /\ kind[o] # "view"

-----------------------------------------------------------------------------
(* Making and sharing values *)

Holds(h, kinds) == handle[h] \in Objs /\ kind[handle[h]] \in kinds
Empty(h) == handle[h] = None

(* from_owned of what a constructor, eval or an exchange returned: the     *)
(* reference is the caller's already.                                      *)
FromOwned(h, n) == Empty(h) /\ handle' = [handle EXCEPT ![h] = n]

(* Slip: a pointer the core still owns is wrapped as an owned one.         *)
FromBorrowedAsOwned(h, o) == Empty(h) /\ handle' = [handle EXCEPT ![h] = o] /\ UNCHANGED rc

(* from_borrowed: the core keeps its own, the Value takes another.         *)
FromBorrowed(h, o) ==
  /\ Empty(h)
  /\ handle' = [handle EXCEPT ![h] = o]
  /\ rc' = Retained(<<o>>)

NewVec(h, n, p) ==
  /\ Idle
  /\ Alloc(n, "vec", p, <<>>)
  /\ rc' = [rc EXCEPT ![n] = 1]
  /\ FromOwned(h, n)
  /\ UNCHANGED <<env, args, releasing>>

(* ray_vec_slice: a view that keeps the vector it looks at.                *)
Slice(h, g, n) ==
  /\ Idle /\ Holds(h, {"vec"})
  /\ Alloc(n, "view", None, <<handle[h]>>)
  /\ rc' = [Retained(<<handle[h]>>) EXCEPT ![n] = 1]
  /\ FromOwned(g, n)
  /\ UNCHANGED <<env, args, releasing>>

(* concat: new cells, whatever the two arguments share; an error changes    *)
(* nothing.                                                                *)
Concat(h, g, k, n, p) ==
  /\ Holds(h, {"vec", "view"}) /\ Holds(g, {"vec", "view"})
  /\ NewVec(k, n, p)

(* Value::get of a vector boxes a cell, a vector of its own here, or the    *)
(* null singleton, of which no reference is counted.                       *)
VecGet(h, g, n) ==
  /\ Idle /\ Holds(h, {"vec", "view"})
  /\ \/ NewVec(g, n, CellsOf(handle[h]))
     \/ FromOwned(g, Null) /\ UNCHANGED <<heapVars, env, args, releasing>>

(* Value::list and Table::new: the box retains each item.  A table's       *)
(* columns are vectors or lists.                                           *)
Build(h, n, k, items) ==
  /\ Idle
  /\ \A i \in DOMAIN items :
       Holds(items[i], IF k = "table" THEN {"vec", "view", "list"} ELSE Kinds \ {"free"})
  /\ LET ks == [i \in DOMAIN items |-> handle[items[i]]]
     IN  /\ Alloc(n, k, None, ks)
         /\ rc' = [Retained(ks) EXCEPT ![n] = 1]
  /\ FromOwned(h, n)
  /\ UNCHANGED <<env, args, releasing>>

ListNew(h, n, items) == Build(h, n, "list", items)
TableNew(h, n, items) == Build(h, n, "table", items)

(* Value::dict: both arguments are moved into the core call, which owns    *)
(* them from there whether it succeeds or not.                             *)
DictNew(h, g, k, n) ==
  /\ Idle /\ h # g
  /\ Holds(h, {"vec", "list"}) /\ Holds(g, {"vec", "list"})
  /\ Empty(k)
  /\ \/ /\ Alloc(n, "dict", None, <<handle[h], handle[g]>>)
        /\ rc' = [rc EXCEPT ![n] = 1]
        /\ handle' = [handle EXCEPT ![h] = None, ![g] = None, ![k] = n]
        /\ UNCHANGED releasing
     \/ /\ releasing' = <<handle[h], handle[g]>>
        /\ handle' = [handle EXCEPT ![h] = None, ![g] = None]
        /\ UNCHANGED heapVars
  /\ UNCHANGED <<env, args>>

(* What a box holds, borrowed from it.                                     *)
Inspect(h, g, i) ==
  /\ Idle
  /\ i \in DOMAIN kids[handle[h]]
  /\ FromBorrowed(g, kids[handle[h]][i])
  /\ UNCHANGED <<kind, data, kids, env, args, releasing>>

ListGet(h, g, i) == Holds(h, {"list"}) /\ Inspect(h, g, i)
DictPart(h, g, i) == Holds(h, {"dict"}) /\ Inspect(h, g, i)
Column(h, g, i) == Holds(h, {"table"}) /\ Inspect(h, g, i)

(* dict_get: the core returns a reference of its own making.               *)
DictGet(h, g, i) ==
  /\ Idle /\ Holds(h, {"dict"})
  /\ LET values == kids[handle[h]][2]
     IN  /\ kind[values] = "list" /\ i \in DOMAIN kids[values]
         /\ FromOwned(g, kids[values][i])
         /\ rc' = Retained(<<kids[values][i]>>)
  /\ UNCHANGED <<kind, data, kids, env, args, releasing>>

(* Slip: a clone that shares the pointer and not the count.                *)
CloneUncounted(h, g) ==
  /\ Idle /\ handle[h] # None /\ Empty(g)
  /\ handle' = [handle EXCEPT ![g] = handle[h]]
  /\ UNCHANGED <<heapVars, env, args, releasing>>

(* Clone; the null singleton is not counted.                               *)
Clone(h, g) ==
  /\ Idle /\ handle[h] # None /\ Empty(g)
  /\ handle' = [handle EXCEPT ![g] = handle[h]]
  /\ rc' = Retained(<<handle[h]>>)
  /\ UNCHANGED <<kind, data, kids, env, args, releasing>>

Given(h) == IF handle[h] = Null THEN <<>> ELSE <<handle[h]>>

Drop(h) ==
  /\ Idle /\ handle[h] # None
  /\ releasing' = Given(h)
  /\ handle' = [handle EXCEPT ![h] = None]
  /\ UNCHANGED <<heapVars, env, args>>

-----------------------------------------------------------------------------
(* Mutators *)

(* install_mutation: the reference in h was consumed by the core call,     *)
(* which gave n back; on an error there is nothing left to hold.           *)
InstallMutation(h, n) == handle' = [handle EXCEPT ![h] = n]
MutationFails(h) ==
  /\ releasing' = <<handle[h]>>
  /\ InstallMutation(h, Null)
  /\ UNCHANGED heapVars

(* Slip: set leaves the bounds check to the core, which rejects an index   *)
(* before it takes the reference.                                          *)
SetUnchecked(h, n, p) ==
  /\ Idle /\ Holds(h, {"vec", "view"})
  /\ \/ /\ MutationFails(h)
     \/ /\ InstallMutation(h, Null)
        /\ UNCHANGED <<heapVars, releasing>>
  /\ UNCHANGED <<env, args>>

(* set and push, on an index in range and of the vector's own type.        *)
Set(h, n, p) ==
  /\ Idle /\ Holds(h, {"vec", "view"})
  /\ \/ /\ Unshared(handle[h])
        /\ data' = [data EXCEPT ![handle[h]] = p]
        /\ UNCHANGED <<kind, rc, kids, handle, releasing>>
     \/ /\ ~Unshared(handle[h])
        /\ Alloc(n, "vec", p, <<>>)
        /\ rc' = [rc EXCEPT ![n] = 1]
        /\ InstallMutation(h, n)
        /\ releasing' = <<handle[h]>>
     \/ MutationFails(h)
  /\ UNCHANGED <<env, args>>

(* Slip: the old reference is released by list_push as well, when the core *)
(* has consumed it already.                                                *)
ListPushReleasesTwice(h, g, n) ==
  /\ Idle /\ Holds(h, {"list"}) /\ Holds(g, Kinds)
  /\ ~Unshared(handle[h])
  /\ LET ks == Append(kids[handle[h]], handle[g])
     IN  /\ Len(ks) <= MaxLen
         /\ Alloc(n, "list", None, ks)
         /\ rc' = [Retained(ks) EXCEPT ![n] = 1]
  /\ InstallMutation(h, n)
  /\ releasing' = <<handle[h], handle[h]>>
  /\ UNCHANGED <<env, args>>

(* list_push: the list retains the item, which may be the list itself      *)
(* under another handle.                                                   *)
ListPush(h, g, n) ==
  /\ Idle /\ Holds(h, {"list"}) /\ Holds(g, Kinds)
  /\ h # g
  /\ LET ks == Append(kids[handle[h]], handle[g])
     IN  /\ Len(ks) <= MaxLen
         /\ \/ /\ Unshared(handle[h])
               /\ kids' = [kids EXCEPT ![handle[h]] = ks]
               /\ rc' = Retained(<<handle[g]>>)
               /\ UNCHANGED <<kind, data, handle, releasing>>
            \/ /\ ~Unshared(handle[h])
               /\ Alloc(n, "list", None, ks)
               /\ rc' = [Retained(ks) EXCEPT ![n] = 1]
               /\ InstallMutation(h, n)
               /\ releasing' = <<handle[h]>>
            \/ MutationFails(h)
  /\ UNCHANGED <<env, args>>

(* set_null: a core call that returns no pointer, so the cells are written *)
(* where they are, whoever shares them; views are rejected.                *)
SetNull(h, p) ==
  /\ Idle /\ Holds(h, {"vec"})
  /\ data' = [data EXCEPT ![handle[h]] = p]
  /\ UNCHANGED <<kind, rc, kids, handle, env, args, releasing>>

-----------------------------------------------------------------------------
(* The environment and handlers *)

(* set_global: the environment retains the value and lets go of the last.  *)
SetGlobal(h) ==
  /\ Idle /\ handle[h] \in Objs
  /\ rc' = Retained(<<handle[h]>>)
  /\ env' = handle[h]
  /\ releasing' = IF env = None THEN <<>> ELSE <<env>>
  /\ UNCHANGED <<kind, data, kids, handle, args>>

GetGlobal(h) ==
  /\ Idle /\ env # None
  /\ FromBorrowed(h, env)
  /\ UNCHANGED <<kind, data, kids, env, args, releasing>>

(* eval and eval_value: a result of the caller's own is fresh, or another   *)
(* reference to what a name is bound to or to the value evaluated; a void   *)
(* one is the null singleton.                                              *)
EvalValue(h, g, n, p) ==
  /\ Idle /\ handle[h] # None
  /\ \/ NewVec(g, n, p)
     \/ \E x \in {handle[h], env, Null} \ {None} :
          /\ FromOwned(g, x)
          /\ rc' = Retained(<<x>>)
          /\ UNCHANGED <<kind, data, kids, env, args, releasing>>

(* The loop calls a bound handler with an argument of the core's.          *)
CallHandler(n, p) ==
  /\ Idle /\ args = <<>>
  /\ Alloc(n, "vec", p, <<>>)
  /\ rc' = [rc EXCEPT ![n] = 1]
  /\ args' = <<n>>
  /\ UNCHANGED <<handle, env, releasing>>

(* Args::get, and the argument of a unary handler.                         *)
ArgsGet(h) ==
  /\ Idle /\ args # <<>>
  /\ FromBorrowed(h, args[1])
  /\ UNCHANGED <<kind, data, kids, env, args, releasing>>

(* The trampoline hands the reference of the reply to the core; of a panic *)
(* it makes the null singleton.  The core lets go of reply and argument.   *)
HandlerReturns(h) ==
  /\ Idle /\ args # <<>> /\ handle[h] # None
  /\ releasing' = Given(h) \o args
  /\ handle' = [handle EXCEPT ![h] = None]
  /\ args' = <<>>
  /\ UNCHANGED <<heapVars, env>>

HandlerPanics ==
  /\ Idle /\ args # <<>>
  /\ releasing' = args
  /\ args' = <<>>
  /\ UNCHANGED <<heapVars, handle, env>>

-----------------------------------------------------------------------------
Items == UNION {[1..n -> Handles] : n \in 0..MaxLen}

Construct ==
  \E h \in Handles, n \in Objs :
    \/ \E p \in Payloads : NewVec(h, n, p)
    \/ \E g \in Handles : Slice(h, g, n) \/ VecGet(h, g, n)
    \/ \E g, k \in Handles, p \in Payloads : Concat(h, g, k, n, p)
    \/ \E items \in Items : ListNew(h, n, items) \/ TableNew(h, n, items)
    \/ \E g, k \in Handles : DictNew(h, g, k, n)

Share ==
  \E h, g \in Handles :
    \/ \E i \in 1..MaxLen + 1 : 
         ListGet(h, g, i) \/ DictPart(h, g, i) \/ Column(h, g, i) \/ DictGet(h, g, i)
    \/ Clone(h, g) \/ Drop(h)

Mutate ==
  \E h \in Handles :
    \/ \E n \in Objs, p \in Payloads : Set(h, n, p)
    \/ \E g \in Handles, n \in Objs : ListPush(h, g, n)
    \/ \E p \in Payloads : SetNull(h, p)

Global ==
  \E h \in Handles :
    \/ SetGlobal(h) \/ GetGlobal(h)
    \/ \E g \in Handles, n \in Objs, p \in Payloads : EvalValue(h, g, n, p)

Handler ==
  \/ \E n \in Objs, p \in Payloads : CallHandler(n, p)
  \/ \E h \in Handles : ArgsGet(h) \/ HandlerReturns(h)
  \/ HandlerPanics

Next == ReleaseOne \/ Construct \/ Share \/ Mutate \/ Global \/ Handler

Spec == Init /\ [][Next]_vars

-----------------------------------------------------------------------------
(* Properties *)

(* Every reference to o there is: in a Value, in a box, in the environment, *)
(* in the arguments of a handler, or on its way to be released.            *)
Refs(o) ==
  Cardinality({h \in Handles : handle[h] = o})
  + Cardinality({e \in Objs \X (1..MaxLen + 1) : e[2] \in DOMAIN kids[e[1]] /\ kids[e[1]][e[2]] = o})
  + (IF env = o THEN 1 ELSE 0)
  + Occurrences(o, args) + Occurrences(o, releasing)

(* The count of an object is the number of references to it, whatever      *)
(* calls have consumed, retained or failed, so it is freed with the last   *)
(* one and never before: "Value owns exactly one reference" (value.rs:3).  *)
CountsExact ==
  \A o \in Objs : rc[o] = Refs(o) /\ (kind[o] = "free" <=> rc[o] = 0)

(* No Value points to a block that has been freed, on its own or through a *)
(* box it keeps (value.rs:16-29).                                          *)
Roots == {handle[h] : h \in Handles} \cup {env} \cup {args[i] : i \in DOMAIN args}
Closed(S) == \A o \in S \cap Objs : \A i \in DOMAIN kids[o] : kids[o][i] \in S
ReachedFrom(S) == {o \in Objs : \A T \in SUBSET Objs : S \cap Objs \subseteq T /\ Closed(T) => o \in T}
NoDanglingValue == \A o \in ReachedFrom(Roots) : kind[o] # "free"

(* Nothing is allocated that nobody can reach: no path, error paths among  *)
(* them, loses a reference, and no list ends up inside itself              *)
(* (vector.rs:360-363).                                                    *)
NothingLeaks == Idle => \A o \in Objs : kind[o] # "free" => o \in ReachedFrom(Roots)

(* What a Value shows: the cells of a vector, or what a box holds.         *)
Contents(o) == <<kind[o], CellsOf(o), kids[o]>>
SameContents(S) == \A o \in S : Contents(o)' = Contents(o)

(* The Values that were not replaced and show something else after a step; *)
(* the environment and the arguments of a handler look on as well.         *)
Witnesses ==
  {h \in Handles : handle'[h] = handle[h] /\ ~SameContents(ReachedFrom({handle[h]}))}
  \cup {s \in {<<env>>, args} : s \in {<<env'>>, args'}
                               /\ ~SameContents(ReachedFrom({s[i] : i \in DOMAIN s}))}
SeenByOneAtMost == Cardinality(Witnesses) <= 1
SetNullStep == \E h \in Handles, p \in Payloads : SetNull(h, p)

(* A change through one Value is seen through no other, however they share *)
(* their storage: copy on write keeps clones, views, what is in a list and *)
(* what the environment holds as they were (vector.rs:9-10).  set_null is  *)
(* left out here, which writes in place.                                   *)
ChangesStayPrivate == [][SetNullStep \/ SeenByOneAtMost]_vars
=============================================================================
