---------------------------- MODULE ValuesProofs ----------------------------
(***************************************************************************)
(* Theorems about Values.tla, for any finite heap, any places for Values   *)
(* and lists of any length: counts are exact, so nothing dangles, and      *)
(* since no box holds itself nothing leaks.                                *)
(***************************************************************************)
EXTENDS Values, FiniteSetTheorems, SequenceTheorems, TLAPS

(* The terms of Refs, as functions of what they count in.                  *)
Held(hd, o) == Cardinality({h \in Handles : hd[h] = o})
Sites(kd, o) == {e \in Objs \X (1..MaxLen + 1) : e[2] \in DOMAIN kd[e[1]] /\ kd[e[1]][e[2]] = o}
Boxed(kd, o) == Cardinality(Sites(kd, o))
Same(a, b) == IF a = b THEN 1 ELSE 0
At(o, s) == {i \in DOMAIN s : s[i] = o}

(* What boxes hold: sequences of objects, no longer than MaxLen allows.    *)
Kids == {s \in Seq(Objs) : Len(s) <= MaxLen + 1}

-----------------------------------------------------------------------------
(* Occurrences in a sequence                                               *)

LEMMA OccNat ==
  ASSUME NEW s \in Seq(Objs), NEW o
  PROVE  /\ IsFiniteSet(At(o, s)) /\ Occurrences(o, s) = Cardinality(At(o, s))
         /\ Occurrences(o, s) \in Nat
         /\ Occurrences(o, s) = 0 <=> \A i \in DOMAIN s : s[i] # o
<1>1. IsFiniteSet(DOMAIN s)
  BY LenProperties, FS_Interval
<1>2. At(o, s) \in SUBSET DOMAIN s
  BY DEF At
<1>3. IsFiniteSet(At(o, s))
  BY <1>1, <1>2, FS_Subset
<1>4. Occurrences(o, s) = Cardinality(At(o, s))
  BY DEF Occurrences, At
<1>5. Cardinality(At(o, s)) \in Nat
  BY <1>3, FS_CardinalityType
<1>6. Cardinality(At(o, s)) = 0 <=> At(o, s) = {}
  BY <1>3, FS_EmptySet
<1> QED
  BY <1>3, <1>4, <1>5, <1>6 DEF At

LEMMA OccConcat ==
  ASSUME NEW s \in Seq(Objs), NEW t \in Seq(Objs), NEW o
  PROVE  Occurrences(o, s \o t) = Occurrences(o, s) + Occurrences(o, t)
<1> DEFINE Late == {i \in Len(s) + 1 .. Len(s) + Len(t) : t[i - Len(s)] = o}
           f == [j \in At(o, t) |-> j + Len(s)]
<1>1. /\ Len(s) \in Nat /\ DOMAIN s = 1..Len(s)
      /\ Len(t) \in Nat /\ DOMAIN t = 1..Len(t)
  BY LenProperties
<1>2. /\ s \o t \in Seq(Objs) /\ DOMAIN (s \o t) = 1..Len(s) + Len(t)
      /\ \A i \in 1..Len(s) + Len(t) :
           (s \o t)[i] = IF i <= Len(s) THEN s[i] ELSE t[i - Len(s)]
  BY ConcatProperties, LenProperties
<1>3. At(o, s \o t) = At(o, s) \cup Late /\ At(o, s) \cap Late = {}
  BY <1>1, <1>2 DEF At
<1>4. f \in Bijection(At(o, t), Late)
  <2>1. f \in [At(o, t) -> Late]
    BY <1>1 DEF At
  <2>2. \A i, j \in At(o, t) : f[i] = f[j] => i = j
    BY <1>1 DEF At
  <2>3. \A k \in Late : \E j \in At(o, t) : f[j] = k
    <3> TAKE k \in Late
    <3>1. k - Len(s) \in At(o, t) /\ k = (k - Len(s)) + Len(s)
      BY <1>1 DEF At
    <3> QED
      BY <3>1
  <2> QED
    BY <2>1, <2>2, <2>3 DEF Bijection, Injection, Surjection, IsInjective
<1>5. IsFiniteSet(At(o, s)) /\ IsFiniteSet(At(o, t))
  BY OccNat
<1>6. IsFiniteSet(Late) /\ Cardinality(Late) = Cardinality(At(o, t))
  BY <1>4, <1>5, FS_Bijection DEF ExistsBijection
<1>7. Cardinality(At(o, s \o t)) = Cardinality(At(o, s)) + Cardinality(Late) - Cardinality({})
  BY <1>3, <1>5, <1>6, FS_Union
<1>8. /\ Cardinality({}) = 0
      /\ Cardinality(At(o, s)) \in Nat /\ Cardinality(Late) \in Nat
  BY <1>5, <1>6, FS_EmptySet, FS_CardinalityType
<1>9. \A q : Occurrences(o, q) = Cardinality(At(o, q))
  BY DEF Occurrences, At
<1>10. Occurrences(o, s \o t) = Cardinality(At(o, s)) + Cardinality(At(o, t))
  BY <1>6, <1>7, <1>8, <1>9
<1> QED
  BY <1>9, <1>10

LEMMA OccEmpty == \A o : Occurrences(o, <<>>) = 0
<1> TAKE o
<1>1. At(o, <<>>) = {}
  BY DEF At
<1> QED
  BY <1>1, FS_EmptySet DEF Occurrences

LEMMA OccOne == \A x, o : Occurrences(o, <<x>>) = Same(x, o)
<1> TAKE x, o
<1>1. At(o, <<x>>) = IF x = o THEN {1} ELSE {}
  BY DEF At
<1>2. Occurrences(o, <<x>>) = Cardinality(At(o, <<x>>))
  BY DEF Occurrences, At
<1> QED
  BY <1>1, <1>2, FS_EmptySet, FS_Singleton DEF Same

LEMMA OccTwo ==
  ASSUME NEW x, NEW y, NEW o
  PROVE  Occurrences(o, <<x, y>>) = Same(x, o) + Same(y, o)
<1>1. At(o, <<x, y>>) = (IF x = o THEN {1} ELSE {}) \cup (IF y = o THEN {2} ELSE {})
  BY DEF At
<1>2. /\ Cardinality({}) = 0 /\ IsFiniteSet({1})
      /\ Cardinality({1}) = 1 /\ Cardinality({2}) = 1
  BY FS_EmptySet, FS_Singleton
<1>3. Cardinality({1} \cup {2}) = 2
  BY <1>2, FS_AddElement
<1>4. Occurrences(o, <<x, y>>) = Cardinality(At(o, <<x, y>>))
  BY DEF Occurrences, At
<1>5. CASE x = o /\ y = o
  BY <1>1, <1>3, <1>4, <1>5 DEF Same
<1>6. CASE x = o /\ y # o
  BY <1>1, <1>2, <1>4, <1>6 DEF Same
<1>7. CASE x # o /\ y = o
  BY <1>1, <1>2, <1>4, <1>7 DEF Same
<1>8. CASE x # o /\ y # o
  BY <1>1, <1>2, <1>4, <1>8 DEF Same
<1> QED
  BY <1>5, <1>6, <1>7, <1>8

LEMMA OccHead ==
  ASSUME NEW s \in Seq(Objs), s # <<>>, NEW o
  PROVE  Occurrences(o, s) = Same(Head(s), o) + Occurrences(o, Tail(s))
<1>1. Head(s) \in Objs /\ Tail(s) \in Seq(Objs) /\ <<Head(s)>> \in Seq(Objs) /\ s = <<Head(s)>> \o Tail(s)
  OBVIOUS
<1>2. Occurrences(o, <<Head(s)>> \o Tail(s))
        = Occurrences(o, <<Head(s)>>) + Occurrences(o, Tail(s))
  BY <1>1, OccConcat
<1>3. Occurrences(o, <<Head(s)>>) = Same(Head(s), o)
  BY OccOne
<1> QED
  BY <1>1, <1>2, <1>3

LEMMA OccAppend ==
  ASSUME NEW s \in Seq(Objs), NEW x \in Objs, NEW o
  PROVE  Occurrences(o, Append(s, x)) = Occurrences(o, s) + Same(x, o)
<1>1. Append(s, x) = s \o <<x>> /\ <<x>> \in Seq(Objs)
  OBVIOUS
<1>2. Occurrences(o, s \o <<x>>) = Occurrences(o, s) + Occurrences(o, <<x>>)
  BY <1>1, OccConcat
<1>3. Occurrences(o, <<x>>) = Same(x, o)
  BY OccOne
<1> QED
  BY <1>1, <1>2, <1>3

-----------------------------------------------------------------------------
(* Handles and boxes                                                       *)

LEMMA HeldNat ==
  ASSUME NEW hd, NEW o
  PROVE  /\ IsFiniteSet({h \in Handles : hd[h] = o})
         /\ Held(hd, o) \in Nat
         /\ Held(hd, o) = 0 <=> \A h \in Handles : hd[h] # o
<1>1. {h \in Handles : hd[h] = o} \in SUBSET Handles
  OBVIOUS
<1>2. IsFiniteSet({h \in Handles : hd[h] = o})
  BY <1>1, FiniteAssumption, FS_Subset
<1> QED
  BY <1>2, FS_CardinalityType, FS_EmptySet DEF Held

(* A handle that is given another pointer.                                 *)
LEMMA HeldChange ==
  ASSUME NEW hd, NEW he, NEW h \in Handles, \A g \in Handles \ {h} : he[g] = hd[g], NEW o
  PROVE  Held(he, o) = Held(hd, o) - Same(hd[h], o) + Same(he[h], o)
<1> DEFINE A == {g \in Handles : hd[g] = o}
           B == {g \in Handles : he[g] = o}
<1>1. B \ {h} = A \ {h} /\ (h \in A <=> hd[h] = o) /\ (h \in B <=> he[h] = o)
  OBVIOUS
<1>2. IsFiniteSet(A) /\ IsFiniteSet(B)
  BY HeldNat
<1>3. /\ Cardinality(A) \in Nat /\ Cardinality(B) \in Nat
      /\ Cardinality(A \ {h}) = IF h \in A THEN Cardinality(A) - 1 ELSE Cardinality(A)
      /\ Cardinality(B \ {h}) = IF h \in B THEN Cardinality(B) - 1 ELSE Cardinality(B)
  BY <1>2, FS_RemoveElement, FS_CardinalityType
<1>4. Cardinality(B \ {h}) = Cardinality(A \ {h})
  BY <1>1
<1> HIDE DEF A, B
<1>5. /\ Same(hd[h], o) = IF h \in A THEN 1 ELSE 0
      /\ Same(he[h], o) = IF h \in B THEN 1 ELSE 0
  BY <1>1 DEF Same
<1>6. Cardinality(B) = Cardinality(A) - Same(hd[h], o) + Same(he[h], o)
  BY <1>3, <1>4, <1>5
<1> QED
  BY <1>6 DEF A, B, Held

LEMMA Emptied ==
  ASSUME NEW hd, NEW he, NEW h \in Handles, he[h] = None,
         \A g \in Handles \ {h} : he[g] = hd[g]
  PROVE  \A o \in Objs : Held(he, o) = Held(hd, o) - Same(hd[h], o)
<1> TAKE o \in Objs
<1>1. Held(he, o) = Held(hd, o) - Same(hd[h], o) + Same(None, o)
  BY HeldChange
<1>2. Held(hd, o) \in Nat /\ Same(None, o) = 0 /\ Same(hd[h], o) \in Nat
  BY HeldNat, NamesAssumption DEF Same
<1> QED
  BY <1>1, <1>2

LEMMA Filled ==
  ASSUME NEW hd, NEW he, NEW h \in Handles, hd[h] = None,
         \A g \in Handles \ {h} : he[g] = hd[g]
  PROVE  \A o \in Objs : Held(he, o) = Held(hd, o) + Same(he[h], o)
<1> TAKE o \in Objs
<1>1. Held(he, o) = Held(hd, o) - Same(None, o) + Same(he[h], o)
  BY HeldChange
<1>2. Held(hd, o) \in Nat /\ Same(None, o) = 0 /\ Same(he[h], o) \in Nat
  BY HeldNat, NamesAssumption DEF Same
<1> QED
  BY <1>1, <1>2

LEMMA BoxedNat ==
  ASSUME NEW kd \in [Objs -> Kids], NEW o
  PROVE  /\ IsFiniteSet(Sites(kd, o))
         /\ Boxed(kd, o) \in Nat
         /\ Boxed(kd, o) = 0 <=> \A b \in Objs : \A i \in DOMAIN kd[b] : kd[b][i] # o
<1> USE LenAssumption, FiniteAssumption DEF LenAssumption, FiniteAssumption
<1>1. IsFiniteSet(Objs \X (1..MaxLen + 1))
  <2>1. 1 \in Int /\ MaxLen + 1 \in Int
    OBVIOUS
  <2>2. IsFiniteSet(1..MaxLen + 1)
    BY <2>1, FS_Interval
  <2> QED
    BY <2>2, FS_Product
<1>2. Sites(kd, o) \in SUBSET (Objs \X (1..MaxLen + 1))
  BY DEF Sites
<1>3. IsFiniteSet(Sites(kd, o))
  BY <1>1, <1>2, FS_Subset
<1>4. \A b \in Objs : DOMAIN kd[b] \subseteq 1..MaxLen + 1
  BY LenProperties DEF Kids
<1>5. Sites(kd, o) = {} <=> \A b \in Objs : \A i \in DOMAIN kd[b] : kd[b][i] # o
  <2>1. ASSUME Sites(kd, o) = {}, NEW b \in Objs, NEW i \in DOMAIN kd[b], kd[b][i] = o
        PROVE  FALSE
    <3>1. <<b, i>> \in Sites(kd, o)
      BY <1>4, <2>1 DEF Sites
    <3> QED
      BY <2>1, <3>1
  <2>2. ASSUME NEW e \in Sites(kd, o)
        PROVE  e[1] \in Objs /\ e[2] \in DOMAIN kd[e[1]] /\ kd[e[1]][e[2]] = o
    BY DEF Sites
  <2> QED
    BY <2>1, <2>2
<1> QED
  BY <1>3, <1>5, FS_CardinalityType, FS_EmptySet DEF Boxed

(* A block that is given other contents.                                   *)
LEMMA BoxedChange ==
  ASSUME NEW kd \in [Objs -> Kids], NEW ke \in [Objs -> Kids], NEW n \in Objs,
         \A b \in Objs \ {n} : ke[b] = kd[b], NEW o
  PROVE  Boxed(ke, o) = Boxed(kd, o) - Occurrences(o, kd[n]) + Occurrences(o, ke[n])
<1> DEFINE Here(k) == {e \in Sites(k, o) : e[1] = n}
           Else(k) == {e \in Sites(k, o) : e[1] # n}
<1>2. \A k \in [Objs -> Kids] : /\ IsFiniteSet(Here(k)) /\ IsFiniteSet(Else(k))
                                /\ Cardinality(Here(k)) = Occurrences(o, k[n])
  <2> SUFFICES ASSUME NEW k \in [Objs -> Kids]
               PROVE  /\ IsFiniteSet(Here(k)) /\ IsFiniteSet(Else(k))
                      /\ Cardinality(Here(k)) = Occurrences(o, k[n])
    OBVIOUS
  <2>1. IsFiniteSet(Here(k)) /\ IsFiniteSet(Else(k))
    <3>1. Here(k) \in SUBSET Sites(k, o) /\ Else(k) \in SUBSET Sites(k, o)
      OBVIOUS
    <3> QED
      BY <3>1, BoxedNat, FS_Subset
  <2> DEFINE f == [i \in At(o, k[n]) |-> <<n, i>>]
  <2>2. DOMAIN k[n] \subseteq 1..MaxLen + 1
    BY LenProperties, LenAssumption DEF Kids
  <2>3. f \in [At(o, k[n]) -> Here(k)]
    BY <2>2 DEF At, Sites
  <2>4. \A i, j \in At(o, k[n]) : f[i] = f[j] => i = j
    OBVIOUS
  <2>5. \A e \in Here(k) : \E i \in At(o, k[n]) : f[i] = e
    <3> TAKE e \in Here(k)
    <3>1. e[2] \in At(o, k[n]) /\ e = <<n, e[2]>>
      BY DEF At, Sites
    <3> QED
      BY <3>1
  <2>6. f \in Bijection(At(o, k[n]), Here(k))
    BY <2>3, <2>4, <2>5 DEF Bijection, Injection, Surjection, IsInjective
  <2>7. IsFiniteSet(At(o, k[n])) /\ Occurrences(o, k[n]) = Cardinality(At(o, k[n]))
    BY OccNat DEF Kids
  <2> QED
    BY <2>1, <2>6, <2>7, FS_Bijection DEF ExistsBijection
<1>3. \A k \in [Objs -> Kids] : Boxed(k, o) = Cardinality(Else(k)) + Occurrences(o, k[n])
  <2> TAKE k \in [Objs -> Kids]
  <2>1. Sites(k, o) = Else(k) \cup Here(k) /\ Else(k) \cap Here(k) = {}
    OBVIOUS
  <2>2. Cardinality(Sites(k, o)) = Cardinality(Else(k)) + Cardinality(Here(k)) - Cardinality({})
    BY <1>2, <2>1, FS_Union
  <2>3. Cardinality({}) = 0 /\ Cardinality(Else(k)) \in Nat /\ Cardinality(Here(k)) \in Nat
    BY <1>2, FS_EmptySet, FS_CardinalityType
  <2>4. Cardinality(Here(k)) = Occurrences(o, k[n])
    BY <1>2
  <2>5. Cardinality(Sites(k, o)) = Cardinality(Else(k)) + Occurrences(o, k[n])
    BY <2>2, <2>3, <2>4
  <2> QED
    BY <2>5 DEF Boxed
<1>4. Else(ke) = Else(kd)
  BY DEF Sites
<1>5. /\ Cardinality(Else(kd)) \in Nat
      /\ Occurrences(o, kd[n]) \in Nat /\ Occurrences(o, ke[n]) \in Nat
  BY <1>2, FS_CardinalityType, OccNat DEF Kids
<1>6. /\ Boxed(ke, o) = Cardinality(Else(kd)) + Occurrences(o, ke[n])
      /\ Boxed(kd, o) = Cardinality(Else(kd)) + Occurrences(o, kd[n])
  BY <1>3, <1>4
<1> HIDE DEF Else, Here
<1> QED
  BY <1>5, <1>6

-----------------------------------------------------------------------------
(* The inductive invariant                                                 *)

(* Boxes do not go round: in any set of objects there is one that no       *)
(* object of the set holds.                                                *)
Founded ==
  \A T \in SUBSET Objs : T # {} =>
    \E o \in T : \A b \in T : \A i \in DOMAIN kids[b] : kids[b][i] # o

(* A dict has its keys and its values, a view the vector it looks at.      *)
Shaped(k, ks) ==
  /\ k = "dict" => Len(ks) = 2
  /\ k = "view" => Len(ks) = 1 /\ kind[ks[1]] = "vec"
Shapes == \A o \in Objs : Shaped(kind[o], kids[o])

IInv == TypeOK /\ CountsExact /\ Founded /\ Shapes

Total(o) ==
  Held(handle, o) + Boxed(kids, o) + Same(env, o) + Occurrences(o, args) + Occurrences(o, releasing)

LEMMA KidsType == TypeOK => kids \in [Objs -> Kids]
BY DEF TypeOK, Kids

LEMMA RefsTotal ==
  ASSUME TypeOK, NEW o \in Objs
  PROVE  /\ Refs(o) = Total(o)
         /\ Held(handle, o) \in Nat /\ Boxed(kids, o) \in Nat /\ Same(env, o) \in Nat
         /\ Occurrences(o, args) \in Nat /\ Occurrences(o, releasing) \in Nat
<1>1. Refs(o) = Total(o)
  BY DEF Refs, Total, Held, Boxed, Sites, Same
<1>2. Held(handle, o) \in Nat /\ Boxed(kids, o) \in Nat
  BY KidsType, HeldNat, BoxedNat
<1>3. Occurrences(o, args) \in Nat /\ Occurrences(o, releasing) \in Nat
  BY OccNat DEF TypeOK
<1> QED
  BY <1>1, <1>2, <1>3 DEF Same

TotalsRight == \A o \in Objs : Refs(o) = Total(o) /\ Total(o) \in Nat
LEMMA TotalNat == TypeOK => TotalsRight
BY RefsTotal DEF Total, TotalsRight
LEMMA TotalNatNext == TypeOK' => TotalsRight'
BY TotalNat, PTL

(* Nothing refers to a free block.                                         *)
LEMMA FreeUnreferenced ==
  ASSUME TypeOK, CountsExact, NEW n \in Objs, kind[n] = "free"
  PROVE  /\ rc[n] = 0
         /\ \A h \in Handles : handle[h] # n
         /\ \A b \in Objs : \A i \in DOMAIN kids[b] : kids[b][i] # n
         /\ env # n
         /\ \A i \in DOMAIN args : args[i] # n
         /\ \A i \in DOMAIN releasing : releasing[i] # n
<1>1. rc[n] = 0 /\ Total(n) = 0
  BY RefsTotal DEF CountsExact
<1>2. /\ Held(handle, n) = 0 /\ Boxed(kids, n) = 0 /\ Same(env, n) = 0
      /\ Occurrences(n, args) = 0 /\ Occurrences(n, releasing) = 0
  BY <1>1, RefsTotal DEF Total
<1>3. \A h \in Handles : handle[h] # n
  BY <1>2, HeldNat
<1>4. \A b \in Objs : \A i \in DOMAIN kids[b] : kids[b][i] # n
  BY <1>2, KidsType, BoxedNat
<1>5. env # n
  BY <1>2 DEF Same
<1>6. \A i \in DOMAIN args : args[i] # n
  BY <1>2, OccNat DEF TypeOK
<1>7. \A i \in DOMAIN releasing : releasing[i] # n
  BY <1>2, OccNat DEF TypeOK
<1> QED
  BY <1>1, <1>3, <1>4, <1>5, <1>6, <1>7

(* The one reference to an object that is not shared is the handle it was  *)
(* found in.                                                               *)
LEMMA SoleReference ==
  ASSUME TypeOK, CountsExact, NEW h \in Handles, handle[h] \in Objs, rc[handle[h]] = 1
  PROVE  /\ \A g \in Handles : handle[g] = handle[h] => g = h
         /\ \A b \in Objs : \A i \in DOMAIN kids[b] : kids[b][i] # handle[h]
         /\ env # handle[h]
         /\ \A i \in DOMAIN args : args[i] # handle[h]
         /\ \A i \in DOMAIN releasing : releasing[i] # handle[h]
<1> DEFINE o == handle[h]
<1>1. Total(o) = 1
  BY RefsTotal DEF CountsExact
<1>2. Held(handle, o) >= 1
  <2>1. Held(handle, o) \in Nat /\ (Held(handle, o) = 0 <=> \A g \in Handles : handle[g] # o)
    BY HeldNat
  <2> QED
    BY <2>1
<1>3. /\ Held(handle, o) = 1 /\ Boxed(kids, o) = 0 /\ Same(env, o) = 0
      /\ Occurrences(o, args) = 0 /\ Occurrences(o, releasing) = 0
  BY <1>1, <1>2, RefsTotal DEF Total
<1>4. \A g \in Handles : handle[g] = o => g = h
  <2>1. IsFiniteSet({g \in Handles : handle[g] = o})
    BY HeldNat
  <2>2. PICK x : {g \in Handles : handle[g] = o} = {x}
    BY <1>3, <2>1, FS_Singleton DEF Held
  <2> QED
    BY <2>2
<1>5. \A b \in Objs : \A i \in DOMAIN kids[b] : kids[b][i] # o
  BY <1>3, KidsType, BoxedNat
<1>6. env # o
  BY <1>3 DEF Same
<1>7. \A i \in DOMAIN args : args[i] # o
  BY <1>3, OccNat DEF TypeOK
<1>8. \A i \in DOMAIN releasing : releasing[i] # o
  BY <1>3, OccNat DEF TypeOK
<1> QED
  BY <1>4, <1>5, <1>6, <1>7, <1>8

(* What is referred to is not free.                                        *)
LEMMA ReferencedLives ==
  ASSUME TypeOK, CountsExact
  PROVE  /\ \A h \in Handles : handle[h] \in Objs => kind[handle[h]] # "free"
         /\ \A b \in Objs : \A i \in DOMAIN kids[b] : kind[kids[b][i]] # "free"
         /\ env \in Objs => kind[env] # "free"
         /\ \A i \in DOMAIN args : kind[args[i]] # "free"
         /\ \A i \in DOMAIN releasing : kind[releasing[i]] # "free"
<1>1. /\ \A b \in Objs : \A i \in DOMAIN kids[b] : kids[b][i] \in Objs
      /\ \A i \in DOMAIN args : args[i] \in Objs
      /\ \A i \in DOMAIN releasing : releasing[i] \in Objs
  BY DEF TypeOK
<1> QED
  BY <1>1, FreeUnreferenced

(* Counts stay exact if they follow the references.                        *)
LEMMA CountsFollow ==
  ASSUME TypeOK, CountsExact, TypeOK',
         \A o \in Objs : /\ rc'[o] - rc[o] = Total(o)' - Total(o)
                         /\ kind'[o] = "free" <=> rc'[o] = 0
  PROVE  CountsExact'
<1>1. SUFFICES ASSUME NEW o \in Objs PROVE rc'[o] = Refs(o)'
  BY DEF CountsExact
<1>2. Refs(o) = Total(o) /\ Total(o) \in Nat
  BY TotalNat DEF TotalsRight
<1>3. Refs(o)' = Total(o)' /\ Total(o)' \in Nat
  BY TotalNatNext DEF TotalsRight
<1>4. rc[o] \in Nat /\ rc'[o] \in Nat /\ rc[o] = Refs(o)
  BY DEF TypeOK, CountsExact
<1> QED
  BY <1>2, <1>3, <1>4

(* Boxes do not begin to go round if the one that changes was emptied or   *)
(* is in none.                                                             *)
LEMMA FoundedKept ==
  ASSUME Founded, NEW n \in Objs, NEW ks \in Kids, kids'[n] = ks,
         \A b \in Objs \ {n} : kids'[b] = kids[b],
         \/ ks = <<>>
         \/ \A b \in Objs : \A i \in DOMAIN kids'[b] : kids'[b][i] # n
  PROVE  Founded'
<1> SUFFICES ASSUME NEW T \in SUBSET Objs, T # {}
             PROVE  \E o \in T : \A b \in T : \A i \in DOMAIN kids'[b] : kids'[b][i] # o
  BY DEF Founded
<1>1. PICK o \in T : \A b \in T : \A i \in DOMAIN kids[b] : kids[b][i] # o
  BY DEF Founded
<1>2. CASE ks = <<>>
  <2>1. \A b \in T : \A i \in DOMAIN kids'[b] : i \in DOMAIN kids[b] /\ kids'[b][i] = kids[b][i]
    BY <1>2
  <2> QED
    BY <1>1, <2>1
<1>3. CASE \A b \in Objs : \A i \in DOMAIN kids'[b] : kids'[b][i] # n
  <2>1. CASE n \in T
    BY <1>3, <2>1
  <2>2. CASE n \notin T
    <3>1. \A b \in T : kids'[b] = kids[b]
      BY <2>2
    <3> QED
      BY <1>1, <3>1
  <2> QED
    BY <2>1, <2>2
<1> QED
  BY <1>2, <1>3

-----------------------------------------------------------------------------
(* What operations do to the counts                                        *)

LEMMA RetainedIs ==
  ASSUME TypeOK, NEW ks \in Seq(Objs)
  PROVE  /\ Retained(ks) \in [Objs -> Nat]
         /\ \A o \in Objs : Retained(ks)[o] = rc[o] + Occurrences(o, ks)
<1>1. \A o \in Objs : Occurrences(o, ks) \in Nat /\ rc[o] \in Nat
  BY OccNat DEF TypeOK
<1> QED
  BY <1>1 DEF Retained

LEMMA RetainedOne ==
  ASSUME TypeOK, NEW x
  PROVE  /\ Retained(<<x>>) \in [Objs -> Nat]
         /\ \A o \in Objs : Retained(<<x>>)[o] = rc[o] + Same(x, o)
<1>1. \A o \in Objs : Occurrences(o, <<x>>) = Same(x, o) /\ rc[o] \in Nat
  BY OccOne DEF TypeOK
<1> QED
  BY <1>1 DEF Retained, Same

LEMMA HandleSet ==
  ASSUME NEW h \in Handles, \A g \in Handles \ {h} : handle'[g] = handle[g]
  PROVE  \A o \in Objs : Held(handle', o) = Held(handle, o) - Same(handle[h], o) + Same(handle'[h], o)
<1> TAKE o \in Objs
<1> QED
  BY HeldChange

LEMMA Placed ==
  ASSUME TypeOK, NEW h \in Handles, NEW x \in Objs \cup {Null}, FromOwned(h, x)
  PROVE  /\ handle' \in [Handles -> Objs \cup {None, Null}]
         /\ \A o \in Objs : Held(handle', o) = Held(handle, o) + Same(x, o)
<1>1. /\ handle' \in [Handles -> Objs \cup {None, Null}]
      /\ handle[h] = None /\ handle'[h] = x
      /\ \A g \in Handles \ {h} : handle'[g] = handle[g]
  BY DEF TypeOK, FromOwned, Empty
<1>2. \A o \in Objs : Held(handle', o) = Held(handle, o) + Same(handle'[h], o)
  BY <1>1, Filled
<1> QED
  BY <1>1, <1>2

LEMMA Installed ==
  ASSUME TypeOK, NEW h \in Handles, NEW x \in Objs \cup {Null}, InstallMutation(h, x)
  PROVE  /\ handle' \in [Handles -> Objs \cup {None, Null}]
         /\ \A o \in Objs : Held(handle', o) = Held(handle, o) - Same(handle[h], o) + Same(x, o)
<1>1. /\ handle' \in [Handles -> Objs \cup {None, Null}] /\ handle'[h] = x
      /\ \A g \in Handles \ {h} : handle'[g] = handle[g]
  BY DEF TypeOK, InstallMutation
<1> QED
  BY <1>1, HandleSet

LEMMA OnlyKid == ASSUME NEW ks \in Kids, Len(ks) = 1 PROVE ks[1] \in Objs
<1>1. ks \in Seq(Objs) /\ 1 \in 1..Len(ks)
  BY DEF Kids
<1> QED
  BY <1>1, ElementOfSeq

LEMMA RetainedFresh ==
  ASSUME TypeOK, NEW ks \in Kids, NEW n \in Objs, rc[n] = 0, Occurrences(n, ks) = 0,
         rc' = [Retained(ks) EXCEPT ![n] = 1]
  PROVE  /\ rc' \in [Objs -> Nat]
         /\ \A o \in Objs : rc'[o] = rc[o] + Occurrences(o, ks) + Same(n, o)
<1>1. /\ Retained(ks) \in [Objs -> Nat]
      /\ \A o \in Objs : Retained(ks)[o] = rc[o] + Occurrences(o, ks)
  BY RetainedIs DEF Kids
<1> QED
  BY <1>1 DEF Same

(* A fresh block that holds what ks lists.                                 *)
LEMMA Fresh ==
  ASSUME IInv, NEW n \in Objs, NEW k \in Kinds \ {"free"}, NEW p \in Payloads \cup {None},
         NEW ks \in Kids, k = "vec" => ks = <<>>, Shaped(k, ks),
         \A i \in DOMAIN ks : kind[ks[i]] # "free",
         Alloc(n, k, p, ks)
  PROVE  /\ rc[n] = 0 /\ Occurrences(n, ks) = 0
         /\ kind' \in [Objs -> Kinds] /\ data' \in [Objs -> Payloads \cup {None}]
         /\ kids' \in [Objs -> Seq(Objs)]
         /\ \A o \in Objs : Len(kids'[o]) <= MaxLen + 1
         /\ \A o \in Objs : kind'[o] \in {"free", "vec"} => kids'[o] = <<>>
         /\ \A o \in Objs : kind'[o] = "free" <=> o # n /\ kind[o] = "free"
         /\ \A o \in Objs : Boxed(kids', o) = Boxed(kids, o) + Occurrences(o, ks)
         /\ Founded' /\ Shapes'
<1> USE DEF IInv, Alloc
<1>1. /\ rc[n] = 0 /\ kids[n] = <<>>
      /\ \A b \in Objs : \A i \in DOMAIN kids[b] : kids[b][i] # n
  BY FreeUnreferenced DEF TypeOK
<1>2. Occurrences(n, ks) = 0
  <2>1. ks \in Seq(Objs) /\ \A i \in DOMAIN ks : ks[i] # n
    BY DEF Kids
  <2> QED
    BY <2>1, OccNat
<1>3. /\ kind' \in [Objs -> Kinds] /\ data' \in [Objs -> Payloads \cup {None}]
      /\ \A o \in Objs : kind'[o] = "free" <=> o # n /\ kind[o] = "free"
  BY DEF TypeOK
<1>4. /\ kids' \in [Objs -> Seq(Objs)]
      /\ \A o \in Objs : Len(kids'[o]) <= MaxLen + 1
      /\ \A o \in Objs : kind'[o] \in {"free", "vec"} => kids'[o] = <<>>
  BY DEF TypeOK, Kids
<1>5. kids \in [Objs -> Kids]
  BY KidsType
<1>6. \A o \in Objs : Boxed(kids', o) = Boxed(kids, o) + Occurrences(o, ks)
  <2> TAKE o \in Objs
  <2>1. Boxed(kids', o) = Boxed(kids, o) - Occurrences(o, kids[n]) + Occurrences(o, ks)
    <3>1. /\ kids' \in [Objs -> Kids] /\ kids'[n] = ks
          /\ \A b \in Objs \ {n} : kids'[b] = kids[b]
      BY <1>5
    <3> QED
      BY <1>5, <3>1, BoxedChange
  <2>2. Occurrences(o, kids[n]) = 0
    BY <1>1, OccEmpty
  <2>3. Boxed(kids, o) \in Nat
    BY <1>5, BoxedNat
  <2>4. Occurrences(o, ks) \in Nat
    BY OccNat DEF Kids
  <2> QED
    BY <2>1, <2>2, <2>3, <2>4
<1>7. Founded'
  <2>1. \A b \in Objs : \A i \in DOMAIN kids'[b] : kids'[b][i] # n
    BY <1>1, <1>5
  <2> QED
    BY <1>5, <2>1, FoundedKept
<1>8. Shapes'
  <2> SUFFICES ASSUME NEW o \in Objs PROVE Shaped(kind[o], kids[o])'
    BY DEF Shapes
  <2>1. CASE o = n
    <3>1. kind'[o] = k /\ kids'[o] = ks
      BY <2>1 DEF TypeOK
    <3>2. ASSUME k = "view"
          PROVE  Len(ks) = 1 /\ kind[ks[1]] = "vec" /\ ks[1] \in Objs /\ ks[1] # n
      <4>1. Len(ks) = 1 /\ kind[ks[1]] = "vec"
        BY <3>2 DEF Shaped
      <4>2. ks[1] \in Objs
        BY <4>1, OnlyKid
      <4> QED
        BY <4>1, <4>2
    <3>3. \A x \in Objs \ {n} : kind'[x] = kind[x]
      OBVIOUS
    <3> QED
      BY <3>1, <3>2, <3>3 DEF Shaped
  <2>2. CASE o # n
    <3>1. /\ kind'[o] = kind[o] /\ kids'[o] = kids[o]
          /\ \A x \in Objs \ {n} : kind'[x] = kind[x]
      BY <2>2
    <3>2. kind[o] = "view" => kids[o][1] \in Objs /\ kids[o][1] # n
      BY <1>1 DEF Shapes, Shaped, TypeOK
    <3> QED
      BY <3>1, <3>2 DEF Shapes, Shaped
  <2> QED
    BY <2>1, <2>2
<1> QED
  BY <1>1, <1>2, <1>3, <1>4, <1>6, <1>7, <1>8

(* A reference the core keeps, and another for a Value: Inspect, DictGet,  *)
(* Clone, GetGlobal, ArgsGet.                                              *)
LEMMA Borrowed ==
  ASSUME IInv, NEW g \in Handles, NEW x \in Objs \cup {Null},
         x \in Objs => kind[x] # "free",
         FromOwned(g, x), rc' = Retained(<<x>>),
         UNCHANGED <<kind, data, kids, env, args, releasing>>
  PROVE  IInv'
<1> USE DEF IInv
<1>1. /\ rc' \in [Objs -> Nat]
      /\ \A o \in Objs : rc'[o] = rc[o] + Same(x, o)
  BY RetainedOne
<1>2. /\ handle' \in [Handles -> Objs \cup {None, Null}]
      /\ \A o \in Objs : Held(handle', o) = Held(handle, o) + Same(x, o)
  BY Placed
<1>3. TypeOK'
  BY <1>1, <1>2 DEF TypeOK
<1>4. ASSUME NEW o \in Objs
      PROVE  rc'[o] - rc[o] = Total(o)' - Total(o) /\ (kind'[o] = "free" <=> rc'[o] = 0)
  <2>1. Total(o)' = Total(o) + Same(x, o)
    BY <1>2, RefsTotal DEF Total, Same
  <2>2. rc[o] \in Nat /\ (kind[o] = "free" <=> rc[o] = 0) /\ Total(o) \in Nat
    BY TotalNat DEF CountsExact, TotalsRight
  <2> QED
    BY <1>1, <2>1, <2>2 DEF Same
<1>5. Founded' /\ Shapes'
  <2>1. kids' = kids /\ kind' = kind
    OBVIOUS
  <2>2. Founded'
    BY <2>1 DEF Founded
  <2>3. Shapes'
    BY <2>1 DEF Shapes, Shaped
  <2> QED
    BY <2>2, <2>3
<1> QED
  BY <1>3, <1>4, <1>5, CountsFollow

(* A fresh block given to an empty place, which retains what it holds:     *)
(* NewVec, Slice, Build.                                                   *)
LEMMA Made ==
  ASSUME IInv, NEW n \in Objs, NEW k \in Kinds \ {"free"}, NEW p \in Payloads \cup {None},
         NEW ks \in Kids, k = "vec" => ks = <<>>, Shaped(k, ks),
         \A i \in DOMAIN ks : kind[ks[i]] # "free",
         Alloc(n, k, p, ks), rc' = [Retained(ks) EXCEPT ![n] = 1],
         NEW h \in Handles, FromOwned(h, n), UNCHANGED <<env, args, releasing>>
  PROVE  IInv'
<1> USE DEF IInv
<1>1. /\ rc[n] = 0 /\ Occurrences(n, ks) = 0
      /\ kind' \in [Objs -> Kinds] /\ data' \in [Objs -> Payloads \cup {None}]
      /\ kids' \in [Objs -> Seq(Objs)]
      /\ \A o \in Objs : Len(kids'[o]) <= MaxLen + 1
      /\ \A o \in Objs : kind'[o] \in {"free", "vec"} => kids'[o] = <<>>
      /\ \A o \in Objs : kind'[o] = "free" <=> o # n /\ kind[o] = "free"
      /\ \A o \in Objs : Boxed(kids', o) = Boxed(kids, o) + Occurrences(o, ks)
      /\ Founded' /\ Shapes'
  BY Fresh
<1>2. /\ rc' \in [Objs -> Nat]
      /\ \A o \in Objs : rc'[o] = rc[o] + Occurrences(o, ks) + Same(n, o)
  BY <1>1, RetainedFresh
<1>3. /\ handle' \in [Handles -> Objs \cup {None, Null}]
      /\ \A o \in Objs : Held(handle', o) = Held(handle, o) + Same(n, o)
  BY Placed
<1>4. TypeOK'
  BY <1>1, <1>2, <1>3 DEF TypeOK
<1>5. ASSUME NEW o \in Objs
      PROVE  rc'[o] - rc[o] = Total(o)' - Total(o) /\ (kind'[o] = "free" <=> rc'[o] = 0)
  <2>1. Occurrences(o, ks) \in Nat /\ (Occurrences(o, ks) # 0 => kind[o] # "free")
    BY OccNat DEF Kids
  <2>2. Total(o)' = Total(o) + Occurrences(o, ks) + Same(n, o)
    <3>1. /\ Boxed(kids', o) = Boxed(kids, o) + Occurrences(o, ks)
          /\ Held(handle', o) = Held(handle, o) + Same(n, o)
      BY <1>1, <1>3
    <3>2. /\ Held(handle, o) \in Nat /\ Boxed(kids, o) \in Nat /\ Same(env, o) \in Nat
          /\ Occurrences(o, args) \in Nat /\ Occurrences(o, releasing) \in Nat
          /\ Same(n, o) \in Nat
      BY RefsTotal DEF Same
    <3> QED
      BY <2>1, <3>1, <3>2 DEF Total
  <2>3. rc[o] \in Nat /\ (kind[o] = "free" <=> rc[o] = 0) /\ Total(o) \in Nat
    BY TotalNat DEF CountsExact, TotalsRight
  <2> QED
    BY <1>1, <1>2, <2>1, <2>2, <2>3 DEF Same
<1> QED
  BY <1>1, <1>4, <1>5, CountsFollow

(* A fresh block that takes the place of what a handle held, which goes:   *)
(* the copies of Set and ListPush.                                         *)
LEMMA Replaced ==
  ASSUME IInv, NEW n \in Objs, NEW k \in Kinds \ {"free"}, NEW p \in Payloads \cup {None},
         NEW ks \in Kids, k = "vec" => ks = <<>>, Shaped(k, ks),
         \A i \in DOMAIN ks : kind[ks[i]] # "free",
         Alloc(n, k, p, ks), rc' = [Retained(ks) EXCEPT ![n] = 1],
         NEW h \in Handles, handle[h] \in Objs, InstallMutation(h, n),
         Idle, releasing' = <<handle[h]>>, UNCHANGED <<env, args>>
  PROVE  IInv'
<1> USE DEF IInv
<1>1. /\ rc[n] = 0 /\ Occurrences(n, ks) = 0
      /\ kind' \in [Objs -> Kinds] /\ data' \in [Objs -> Payloads \cup {None}]
      /\ kids' \in [Objs -> Seq(Objs)]
      /\ \A o \in Objs : Len(kids'[o]) <= MaxLen + 1
      /\ \A o \in Objs : kind'[o] \in {"free", "vec"} => kids'[o] = <<>>
      /\ \A o \in Objs : kind'[o] = "free" <=> o # n /\ kind[o] = "free"
      /\ \A o \in Objs : Boxed(kids', o) = Boxed(kids, o) + Occurrences(o, ks)
      /\ Founded' /\ Shapes'
  BY Fresh
<1>2. /\ rc' \in [Objs -> Nat]
      /\ \A o \in Objs : rc'[o] = rc[o] + Occurrences(o, ks) + Same(n, o)
  BY <1>1, RetainedFresh
<1>3. /\ handle' \in [Handles -> Objs \cup {None, Null}]
      /\ \A o \in Objs : Held(handle', o) = Held(handle, o) - Same(handle[h], o) + Same(n, o)
  BY Installed
<1>4. TypeOK'
  <2>1. releasing' \in Seq(Objs) /\ UNCHANGED <<env, args>>
    OBVIOUS
  <2> QED
    BY <1>1, <1>2, <1>3, <2>1 DEF TypeOK
<1>5. ASSUME NEW o \in Objs
      PROVE  rc'[o] - rc[o] = Total(o)' - Total(o) /\ (kind'[o] = "free" <=> rc'[o] = 0)
  <2>1. Occurrences(o, ks) \in Nat /\ (Occurrences(o, ks) # 0 => kind[o] # "free")
    BY OccNat DEF Kids
  <2>2. Total(o)' = Total(o) + Occurrences(o, ks) + Same(n, o)
    <3>1. /\ Boxed(kids', o) = Boxed(kids, o) + Occurrences(o, ks)
          /\ Held(handle', o) = Held(handle, o) - Same(handle[h], o) + Same(n, o)
      BY <1>1, <1>3
    <3>2. Occurrences(o, releasing') = Same(handle[h], o) /\ Occurrences(o, releasing) = 0
      BY OccEmpty, OccOne DEF Idle
    <3>3. Same(handle[h], o) \in Nat /\ Same(n, o) \in Nat
      BY DEF Same
    <3>4. /\ Held(handle, o) \in Nat /\ Boxed(kids, o) \in Nat /\ Same(env, o) \in Nat
          /\ Occurrences(o, args) \in Nat
      BY RefsTotal
    <3> QED
      BY <2>1, <3>1, <3>2, <3>3, <3>4 DEF Total
  <2>3. rc[o] \in Nat /\ (kind[o] = "free" <=> rc[o] = 0) /\ Total(o) \in Nat
    BY TotalNat DEF CountsExact, TotalsRight
  <2> QED
    BY <1>1, <1>2, <2>1, <2>2, <2>3 DEF Same
<1> QED
  BY <1>1, <1>4, <1>5, CountsFollow

(* References that only change hands: no count and no block changes.       *)
LEMMA HandedOver ==
  ASSUME IInv, UNCHANGED heapVars, TypeOK', \A o \in Objs : Total(o)' = Total(o)
  PROVE  IInv'
<1>1. CountsExact'
  <2>1. \A o \in Objs : Total(o) \in Nat /\ rc[o] \in Nat /\ (kind[o] = "free" <=> rc[o] = 0)
    BY TotalNat DEF IInv, CountsExact, TotalsRight
  <2> QED
    BY <2>1, CountsFollow DEF IInv, heapVars
<1>2. Founded' /\ Shapes'
  BY DEF IInv, Founded, Shapes, Shaped, heapVars
<1> QED
  BY <1>1, <1>2 DEF IInv

(* The null singleton is no object, so nothing is counted of it.           *)
LEMMA GivenIs ==
  ASSUME TypeOK, NEW h \in Handles, handle[h] # None
  PROVE  /\ Given(h) \in Seq(Objs)
         /\ \A o \in Objs : Occurrences(o, Given(h)) = Same(handle[h], o)
<1>1. CASE handle[h] = Null
  <2>1. Given(h) = <<>> /\ \A o \in Objs : Same(handle[h], o) = 0
    BY <1>1, NamesAssumption DEF Given, Same
  <2>2. <<>> \in Seq(Objs) /\ \A o \in Objs : Occurrences(o, <<>>) = 0
    BY OccEmpty, OccOne
  <2> QED
    BY <2>1, <2>2
<1>2. CASE handle[h] # Null
  <2>1. handle[h] \in Objs /\ Given(h) = <<handle[h]>>
    BY <1>2 DEF TypeOK, Given
  <2>2. \A o \in Objs : Occurrences(o, <<handle[h]>>) = Same(handle[h], o)
    BY OccEmpty, OccOne
  <2> QED
    BY <2>1, <2>2
<1> QED
  BY <1>1, <1>2

LEMMA DropStep == ASSUME IInv, NEW h \in Handles, Drop(h) PROVE IInv'
<1>1. /\ handle' \in [Handles -> Objs \cup {None, Null}]
      /\ \A o \in Objs : Held(handle', o) = Held(handle, o) - Same(handle[h], o)
  <2>1. /\ handle' \in [Handles -> Objs \cup {None, Null}] /\ handle'[h] = None
        /\ \A g \in Handles \ {h} : handle'[g] = handle[g]
    BY DEF IInv, TypeOK, Drop
  <2> QED
    BY <2>1, Emptied
<1>2. Given(h) \in Seq(Objs) /\ \A o \in Objs : Occurrences(o, Given(h)) = Same(handle[h], o)
  BY GivenIs DEF IInv, Drop
<1>3. releasing = <<>> /\ releasing' = Given(h) /\ UNCHANGED <<heapVars, env, args>>
  BY DEF Drop, Idle
<1>4. TypeOK'
  BY <1>1, <1>2, <1>3 DEF IInv, TypeOK, heapVars
<1>5. ASSUME NEW o \in Objs PROVE Total(o)' = Total(o)
  <2>1. Occurrences(o, releasing) = 0
    BY <1>3, OccEmpty, OccOne
  <2>2. /\ Held(handle', o) = Held(handle, o) - Same(handle[h], o)
        /\ Occurrences(o, releasing') = Same(handle[h], o) /\ Same(handle[h], o) \in Nat
    BY <1>1, <1>2, <1>3 DEF Same
  <2> QED
    BY <1>3, <2>1, <2>2, RefsTotal DEF Total, IInv, heapVars
<1> QED
  BY <1>3, <1>4, <1>5, HandedOver

LEMMA HandlerReturnsStep == ASSUME IInv, NEW h \in Handles, HandlerReturns(h) PROVE IInv'
<1>1. /\ handle' \in [Handles -> Objs \cup {None, Null}]
      /\ \A o \in Objs : Held(handle', o) = Held(handle, o) - Same(handle[h], o)
  <2>1. /\ handle' \in [Handles -> Objs \cup {None, Null}] /\ handle'[h] = None
        /\ \A g \in Handles \ {h} : handle'[g] = handle[g]
    BY DEF IInv, TypeOK, HandlerReturns
  <2> QED
    BY <2>1, Emptied
<1>2. Given(h) \in Seq(Objs) /\ \A o \in Objs : Occurrences(o, Given(h)) = Same(handle[h], o)
  BY GivenIs DEF IInv, HandlerReturns
<1>3. /\ releasing = <<>> /\ releasing' = Given(h) \o args /\ args' = <<>>
      /\ UNCHANGED <<heapVars, env>> /\ args \in Seq(Objs)
  BY DEF HandlerReturns, Idle, IInv, TypeOK
<1>4. releasing' \in Seq(Objs)
  BY <1>2, <1>3, ConcatProperties
<1>5. TypeOK'
  BY <1>1, <1>3, <1>4 DEF IInv, TypeOK, heapVars
<1>6. ASSUME NEW o \in Objs PROVE Total(o)' = Total(o)
  <2>1. Occurrences(o, releasing) = 0 /\ Occurrences(o, args') = 0
    BY <1>3, OccEmpty, OccOne
  <2>2. Occurrences(o, releasing') = Same(handle[h], o) + Occurrences(o, args)
    BY <1>2, <1>3, OccConcat
  <2>3. /\ Held(handle', o) = Held(handle, o) - Same(handle[h], o)
        /\ Same(handle[h], o) \in Nat
    BY <1>1 DEF Same
  <2> QED
    BY <1>3, <2>1, <2>2, <2>3, RefsTotal DEF Total, IInv, heapVars
<1> QED
  BY <1>3, <1>5, <1>6, HandedOver

LEMMA MutationFailsStep ==
  ASSUME IInv, NEW h \in Handles, handle[h] \in Objs, Idle, MutationFails(h),
         UNCHANGED <<env, args>>
  PROVE  IInv'
<1>1. /\ handle' \in [Handles -> Objs \cup {None, Null}]
      /\ \A o \in Objs : Held(handle', o) = Held(handle, o) - Same(handle[h], o) + Same(Null, o)
  BY Installed DEF IInv, MutationFails
<1>2. releasing = <<>> /\ releasing' = <<handle[h]>> /\ UNCHANGED heapVars
  BY DEF MutationFails, Idle
<1>3. TypeOK'
  BY <1>1, <1>2 DEF IInv, TypeOK, heapVars
<1>4. ASSUME NEW o \in Objs PROVE Total(o)' = Total(o)
  <2>1. Occurrences(o, releasing) = 0 /\ Same(Null, o) = 0
    BY <1>2, OccEmpty, OccOne, NamesAssumption DEF Same
  <2>2. Occurrences(o, releasing') = Same(handle[h], o)
    BY <1>2, OccEmpty, OccOne
  <2>3. /\ Held(handle', o) = Held(handle, o) - Same(handle[h], o) + Same(Null, o)
        /\ Same(handle[h], o) \in Nat
    BY <1>1 DEF Same
  <2> QED
    BY <1>2, <2>1, <2>2, <2>3, RefsTotal DEF Total, IInv, heapVars
<1> QED
  BY <1>2, <1>3, <1>4, HandedOver

LEMMA HandlerPanicsStep == ASSUME IInv, HandlerPanics PROVE IInv'
<1>1. /\ releasing = <<>> /\ releasing' = args /\ args' = <<>>
      /\ UNCHANGED <<heapVars, handle, env>>
  BY DEF HandlerPanics, Idle
<1>2. TypeOK'
  BY <1>1 DEF IInv, TypeOK, heapVars
<1>3. ASSUME NEW o \in Objs PROVE Total(o)' = Total(o)
  <2>1. Occurrences(o, releasing) = 0 /\ Occurrences(o, args') = 0
    BY <1>1, OccEmpty, OccOne
  <2> QED
    BY <1>1, <2>1, RefsTotal DEF Total, IInv, heapVars
<1> QED
  BY <1>1, <1>2, <1>3, HandedOver

LEMMA DictNewStep ==
  ASSUME IInv, NEW h \in Handles, NEW g \in Handles, NEW k \in Handles, NEW n \in Objs,
         DictNew(h, g, k, n)
  PROVE  IInv'
<1>1. /\ h # g /\ handle[h] \in Objs /\ handle[g] \in Objs /\ handle[k] = None
      /\ releasing = <<>> /\ UNCHANGED <<env, args>>
      /\ k # h /\ k # g
  BY NamesAssumption DEF DictNew, Holds, Empty, Idle
<1> DEFINE ks == <<handle[h], handle[g]>>
           hd == [handle EXCEPT ![h] = None]
           he == [hd EXCEPT ![g] = None]
<1>2. ks \in Kids /\ kind[handle[h]] # "free" /\ kind[handle[g]] # "free"
  BY <1>1, LenAssumption DEF DictNew, Holds, Kids
<1>3. \A o \in Objs : Occurrences(o, ks) = Same(handle[h], o) + Same(handle[g], o)
  BY <1>1, OccTwo
<1>4. /\ hd \in [Handles -> Objs \cup {None, Null}] /\ hd[h] = None
      /\ \A f \in Handles \ {h} : hd[f] = handle[f]
      /\ he \in [Handles -> Objs \cup {None, Null}] /\ he[g] = None
      /\ \A f \in Handles \ {g} : he[f] = hd[f]
  BY DEF IInv, TypeOK
<1>5. hd[g] = handle[g] /\ he[k] = None
  BY <1>1, <1>4
<1> HIDE DEF ks, hd, he
<1>6. \A o \in Objs : Held(he, o) = Held(handle, o) - Same(handle[h], o) - Same(handle[g], o)
  <2> TAKE o \in Objs
  <2>1. Held(hd, o) = Held(handle, o) - Same(handle[h], o)
    BY <1>4, Emptied
  <2>2. Held(he, o) = Held(hd, o) - Same(hd[g], o)
    BY <1>4, Emptied
  <2> QED
    BY <1>5, <2>1, <2>2
<1>7. CASE /\ Alloc(n, "dict", None, ks) /\ rc' = [rc EXCEPT ![n] = 1]
           /\ handle' = [handle EXCEPT ![h] = None, ![g] = None, ![k] = n]
           /\ UNCHANGED releasing
  <2>1. /\ rc[n] = 0 /\ Occurrences(n, ks) = 0
        /\ kind' \in [Objs -> Kinds] /\ data' \in [Objs -> Payloads \cup {None}]
        /\ kids' \in [Objs -> Seq(Objs)]
        /\ \A o \in Objs : Len(kids'[o]) <= MaxLen + 1
        /\ \A o \in Objs : kind'[o] \in {"free", "vec"} => kids'[o] = <<>>
        /\ \A o \in Objs : kind'[o] = "free" <=> o # n /\ kind[o] = "free"
        /\ \A o \in Objs : Boxed(kids', o) = Boxed(kids, o) + Occurrences(o, ks)
        /\ Founded' /\ Shapes'
    <3>1. \A i \in DOMAIN ks : kind[ks[i]] # "free"
      BY <1>2 DEF ks
    <3>2. "dict" \in Kinds \ {"free"} /\ Shaped("dict", ks)
      BY DEF Kinds, Shaped, ks
    <3> QED
      BY <1>2, <1>7, <3>1, <3>2, Fresh
  <2>2. rc' \in [Objs -> Nat] /\ \A o \in Objs : rc'[o] = rc[o] + Same(n, o)
    BY <1>7, <2>1 DEF Same, IInv, TypeOK
  <2>3. /\ handle' \in [Handles -> Objs \cup {None, Null}] /\ handle'[k] = n
        /\ \A f \in Handles \ {k} : handle'[f] = he[f]
    BY <1>1, <1>7 DEF IInv, TypeOK, hd, he
  <2>4. TypeOK'
    BY <1>1, <1>7, <2>1, <2>2, <2>3 DEF IInv, TypeOK
  <2>5. ASSUME NEW o \in Objs
        PROVE  rc'[o] - rc[o] = Total(o)' - Total(o) /\ (kind'[o] = "free" <=> rc'[o] = 0)
    <3>1. Held(handle', o) = Held(he, o) + Same(n, o)
      BY <1>5, <2>3, Filled
    <3>2. /\ Same(n, o) \in Nat
          /\ Same(handle[h], o) \in Nat /\ Same(handle[g], o) \in Nat
      BY DEF Same
    <3>3. /\ Held(handle, o) \in Nat /\ Boxed(kids, o) \in Nat /\ Same(env, o) \in Nat
          /\ Occurrences(o, args) \in Nat /\ Occurrences(o, releasing) \in Nat
      BY RefsTotal DEF IInv
    <3>4. Held(handle', o) + Boxed(kids', o) = Held(handle, o) + Boxed(kids, o) + Same(n, o)
      BY <1>3, <1>6, <2>1, <3>1, <3>2, <3>3
    <3>5. Total(o)' = Total(o) + Same(n, o)
      BY <1>1, <1>7, <3>2, <3>3, <3>4 DEF Total
    <3>6. rc[o] \in Nat /\ (kind[o] = "free" <=> rc[o] = 0) /\ Total(o) \in Nat
      BY TotalNat DEF IInv, CountsExact, TotalsRight
    <3> QED
      BY <2>1, <2>2, <3>5, <3>6 DEF Same
  <2> QED
    BY <2>1, <2>4, <2>5, CountsFollow DEF IInv
<1>8. CASE /\ releasing' = ks
           /\ handle' = [handle EXCEPT ![h] = None, ![g] = None]
           /\ UNCHANGED heapVars
  <2>1. handle' = he /\ releasing' \in Seq(Objs)
    BY <1>2, <1>8 DEF hd, he, Kids
  <2>2. TypeOK'
    BY <1>1, <1>4, <1>8, <2>1 DEF IInv, TypeOK, heapVars
  <2>3. ASSUME NEW o \in Objs PROVE Total(o)' = Total(o)
    <3>1. /\ Held(handle', o) = Held(handle, o) - Same(handle[h], o) - Same(handle[g], o)
          /\ Occurrences(o, releasing') = Same(handle[h], o) + Same(handle[g], o)
          /\ Occurrences(o, releasing) = 0
      BY <1>1, <1>3, <1>6, <1>8, <2>1, OccEmpty
    <3>2. /\ Held(handle, o) \in Nat /\ Boxed(kids, o) \in Nat /\ Same(env, o) \in Nat
          /\ Occurrences(o, args) \in Nat
          /\ Same(handle[h], o) \in Nat /\ Same(handle[g], o) \in Nat
      BY RefsTotal DEF IInv, Same
    <3> QED
      BY <1>1, <1>8, <3>1, <3>2 DEF Total, heapVars
  <2> QED
    BY <1>8, <2>2, <2>3, HandedOver
<1> QED
  BY <1>7, <1>8 DEF DictNew, ks

(* Cells that are written where they are: no reference changes.            *)
LEMMA Written ==
  ASSUME IInv, NEW o \in Objs, NEW p \in Payloads, data' = [data EXCEPT ![o] = p],
         UNCHANGED <<kind, rc, kids, handle, env, args, releasing>>
  PROVE  IInv'
<1>1. TypeOK'
  BY DEF IInv, TypeOK
<1>2. CountsExact'
  BY DEF IInv, CountsExact, Refs
<1>3. Founded' /\ Shapes'
  BY DEF IInv, Founded, Shapes, Shaped
<1> QED
  BY <1>1, <1>2, <1>3 DEF IInv

(* A list that nobody shares takes the item in place.                      *)
LEMMA PushedInPlace ==
  ASSUME IInv, NEW h \in Handles, NEW g \in Handles, h # g,
         handle[h] \in Objs, kind[handle[h]] = "list", rc[handle[h]] = 1,
         handle[g] \in Objs, NEW ks, ks = Append(kids[handle[h]], handle[g]),
         Len(ks) <= MaxLen, kids' \in [Objs -> Seq(Objs)], kids'[handle[h]] = ks,
         \A b \in Objs \ {handle[h]} : kids'[b] = kids[b],
         rc' = Retained(<<handle[g]>>),
         UNCHANGED <<kind, data, handle, env, args, releasing>>
  PROVE  IInv'
<1> DEFINE l == handle[h]
<1>0. kids[l] \in Seq(Objs)
  BY DEF IInv, TypeOK
<1>1. /\ ks \in Seq(Objs) /\ ks \in Kids
      /\ \A i \in DOMAIN ks : (i \in DOMAIN kids[l] /\ ks[i] = kids[l][i]) \/ ks[i] = handle[g]
  <2>1. ks \in Seq(Objs) /\ Len(ks) <= MaxLen + 1
    BY <1>0, LenAssumption
  <2>2. \A i \in DOMAIN ks : (i \in DOMAIN kids[l] /\ ks[i] = kids[l][i]) \/ ks[i] = handle[g]
    BY <1>0
  <2> QED
    BY <2>1, <2>2 DEF Kids
<1>2. /\ kids \in [Objs -> Kids] /\ kids' \in [Objs -> Kids] /\ kids'[l] = ks
      /\ \A b \in Objs \ {l} : kids'[b] = kids[b]
  BY <1>1, KidsType DEF IInv
<1>3. /\ rc' \in [Objs -> Nat]
      /\ \A o \in Objs : rc'[o] = rc[o] + Same(handle[g], o)
  BY RetainedOne DEF IInv
<1>4. TypeOK'
  BY <1>2, <1>3 DEF IInv, TypeOK, Kids
<1>5. ASSUME NEW o \in Objs
      PROVE  rc'[o] - rc[o] = Total(o)' - Total(o) /\ (kind'[o] = "free" <=> rc'[o] = 0)
  <2>1. Boxed(kids', o) = Boxed(kids, o) - Occurrences(o, kids[l]) + Occurrences(o, ks)
    <3>1. Boxed(kids', o) = Boxed(kids, o) - Occurrences(o, kids[l]) + Occurrences(o, kids'[l])
      BY <1>2, BoxedChange
    <3> QED
      BY <1>2, <3>1
  <2>2. Occurrences(o, ks) = Occurrences(o, kids[l]) + Same(handle[g], o)
    BY <1>1, OccAppend
  <2>3. Occurrences(o, kids[l]) \in Nat /\ Same(handle[g], o) \in Nat
    BY <1>1, OccNat DEF Same
  <2>4. /\ Held(handle, o) \in Nat /\ Boxed(kids, o) \in Nat /\ Same(env, o) \in Nat
        /\ Occurrences(o, args) \in Nat /\ Occurrences(o, releasing) \in Nat
    BY RefsTotal DEF IInv
  <2>5. Boxed(kids', o) = Boxed(kids, o) + Same(handle[g], o)
    BY <2>1, <2>2, <2>3, <2>4
  <2>6. Total(o)' = Total(o) + Same(handle[g], o)
    BY <2>3, <2>4, <2>5 DEF Total
  <2>7. rc[o] \in Nat /\ (kind[o] = "free" <=> rc[o] = 0) /\ Total(o) \in Nat
    BY TotalNat DEF IInv, CountsExact, TotalsRight
  <2>8. kind[handle[g]] # "free"
    BY ReferencedLives DEF IInv
  <2>9. rc'[o] = rc[o] + Same(handle[g], o) /\ kind'[o] = kind[o]
    BY <1>3
  <2> QED
    BY <2>6, <2>7, <2>8, <2>9 DEF Same
<1>6. Founded'
  <2>1. /\ \A f \in Handles : handle[f] = l => f = h
        /\ \A b \in Objs : \A i \in DOMAIN kids[b] : kids[b][i] # l
    BY SoleReference DEF IInv
  <2>2. \A b \in Objs : \A i \in DOMAIN kids'[b] : kids'[b][i] # l
    BY <1>1, <1>2, <2>1
  <2> QED
    BY <1>1, <1>2, <2>2, FoundedKept DEF IInv
<1>7. Shapes'
  <2>1. \A o \in Objs : kind'[o] = kind[o] /\ (kind[o] # "list" => kids'[o] = kids[o])
    BY <1>2
  <2> QED
    BY <2>1 DEF IInv, Shapes, Shaped
<1> QED
  BY <1>4, <1>5, <1>6, <1>7, CountsFollow DEF IInv

LEMMA SetGlobalStep == ASSUME IInv, NEW h \in Handles, SetGlobal(h) PROVE IInv'
<1>1. /\ releasing = <<>> /\ handle[h] \in Objs /\ env' = handle[h]
      /\ UNCHANGED <<kind, data, kids, handle, args>>
      /\ releasing' = IF env = None THEN <<>> ELSE <<env>>
  BY DEF SetGlobal, Idle
<1>2. /\ rc' \in [Objs -> Nat]
      /\ \A o \in Objs : rc'[o] = rc[o] + Same(handle[h], o)
  BY RetainedOne DEF IInv, SetGlobal
<1>3. /\ releasing' \in Seq(Objs)
      /\ \A o \in Objs : Occurrences(o, releasing') = Same(env, o)
  <2>1. CASE env = None
    <3>1. releasing' = <<>> /\ \A o \in Objs : Same(env, o) = 0
      BY <1>1, <2>1, NamesAssumption DEF Same
    <3> QED
      BY <3>1, OccEmpty
  <2>2. CASE env # None
    <3>1. releasing' = <<env>> /\ env \in Objs
      BY <1>1, <2>2 DEF IInv, TypeOK
    <3>2. \A o \in Objs : Occurrences(o, <<env>>) = Same(env, o)
      BY OccOne
    <3> QED
      BY <3>1, <3>2
  <2> QED
    BY <2>1, <2>2
<1>4. TypeOK'
  BY <1>1, <1>2, <1>3 DEF IInv, TypeOK
<1>5. ASSUME NEW o \in Objs
      PROVE  rc'[o] - rc[o] = Total(o)' - Total(o) /\ (kind'[o] = "free" <=> rc'[o] = 0)
  <2>1. Occurrences(o, releasing) = 0 /\ Occurrences(o, releasing') = Same(env, o)
    BY <1>1, <1>3, OccEmpty
  <2>2. Same(env', o) = Same(handle[h], o) /\ Same(handle[h], o) \in Nat
    BY <1>1 DEF Same
  <2>3. Total(o)' = Total(o) + Same(handle[h], o)
    BY <1>1, <2>1, <2>2, RefsTotal DEF Total, IInv
  <2>4. rc[o] \in Nat /\ (kind[o] = "free" <=> rc[o] = 0) /\ Total(o) \in Nat
    BY TotalNat DEF IInv, CountsExact, TotalsRight
  <2>5. kind[handle[h]] # "free"
    BY <1>1, ReferencedLives DEF IInv
  <2>6. rc'[o] = rc[o] + Same(handle[h], o) /\ kind'[o] = kind[o]
    BY <1>1, <1>2
  <2> QED
    BY <2>3, <2>4, <2>5, <2>6 DEF Same
<1>6. Founded' /\ Shapes'
  BY <1>1 DEF IInv, Founded, Shapes, Shaped
<1> QED
  BY <1>4, <1>5, <1>6, CountsFollow DEF IInv

LEMMA RetainedNone == TypeOK => Retained(<<>>) = rc
<1> SUFFICES ASSUME TypeOK PROVE Retained(<<>>) = rc
  OBVIOUS
<1>1. \A o \in Objs : Occurrences(o, <<>>) = 0 /\ rc[o] \in Nat
  BY OccEmpty DEF TypeOK
<1> QED
  BY <1>1 DEF Retained, TypeOK

LEMMA RetainedNull == TypeOK => Retained(<<Null>>) = rc
<1> SUFFICES ASSUME TypeOK PROVE Retained(<<Null>>) = rc
  OBVIOUS
<1>1. \A o \in Objs : Same(Null, o) = 0 /\ rc[o] \in Nat
  BY NamesAssumption DEF TypeOK, Same
<1>2. \A o \in Objs : Retained(<<Null>>)[o] = rc[o]
  BY <1>1, RetainedOne
<1> QED
  BY <1>2 DEF Retained, TypeOK

LEMMA NoKids == <<>> \in Kids /\ DOMAIN <<>> = {}
BY LenAssumption DEF Kids

LEMMA CallHandlerStep ==
  ASSUME IInv, NEW n \in Objs, NEW p \in Payloads, CallHandler(n, p)
  PROVE  IInv'
<1>1. /\ args = <<>> /\ args' = <<n>> /\ UNCHANGED <<handle, env, releasing>>
      /\ Alloc(n, "vec", p, <<>>) /\ rc' = [rc EXCEPT ![n] = 1]
  BY DEF CallHandler
<1>2. /\ rc[n] = 0 /\ Occurrences(n, <<>>) = 0
      /\ kind' \in [Objs -> Kinds] /\ data' \in [Objs -> Payloads \cup {None}]
      /\ kids' \in [Objs -> Seq(Objs)]
      /\ \A o \in Objs : Len(kids'[o]) <= MaxLen + 1
      /\ \A o \in Objs : kind'[o] \in {"free", "vec"} => kids'[o] = <<>>
      /\ \A o \in Objs : kind'[o] = "free" <=> o # n /\ kind[o] = "free"
      /\ \A o \in Objs : Boxed(kids', o) = Boxed(kids, o) + Occurrences(o, <<>>)
      /\ Founded' /\ Shapes'
  <2>1. "vec" \in Kinds \ {"free"} /\ Shaped("vec", <<>>)
    BY DEF Kinds, Shaped
  <2> QED
    BY <1>1, <2>1, NoKids, Fresh
<1>3. rc' \in [Objs -> Nat] /\ \A o \in Objs : rc'[o] = rc[o] + Same(n, o)
  BY <1>1, <1>2 DEF Same, IInv, TypeOK
<1>4. TypeOK'
  BY <1>1, <1>2, <1>3 DEF IInv, TypeOK
<1>5. ASSUME NEW o \in Objs
      PROVE  rc'[o] - rc[o] = Total(o)' - Total(o) /\ (kind'[o] = "free" <=> rc'[o] = 0)
  <2>1. /\ Occurrences(o, args) = 0 /\ Occurrences(o, args') = Same(n, o)
        /\ Occurrences(o, <<>>) = 0
    BY <1>1, OccEmpty, OccOne
  <2>2. /\ Held(handle, o) \in Nat /\ Boxed(kids, o) \in Nat /\ Same(env, o) \in Nat
        /\ Occurrences(o, releasing) \in Nat /\ Same(n, o) \in Nat
    BY RefsTotal DEF IInv, Same
  <2>3. Boxed(kids', o) = Boxed(kids, o)
    BY <1>2, <2>1, <2>2
  <2>4. Total(o)' = Total(o) + Same(n, o)
    BY <1>1, <2>1, <2>2, <2>3 DEF Total
  <2>5. rc[o] \in Nat /\ (kind[o] = "free" <=> rc[o] = 0) /\ Total(o) \in Nat
    BY TotalNat DEF IInv, CountsExact, TotalsRight
  <2> QED
    BY <1>2, <1>3, <2>4, <2>5 DEF Same
<1> QED
  BY <1>2, <1>4, <1>5, CountsFollow DEF IInv

(* What is about to be freed is in no box and in no handle.                *)
LEMMA SoleRelease ==
  ASSUME TypeOK, CountsExact, NEW i \in DOMAIN releasing, rc[releasing[i]] = 1
  PROVE  /\ \A h \in Handles : handle[h] # releasing[i]
         /\ \A b \in Objs : \A j \in DOMAIN kids[b] : kids[b][j] # releasing[i]
         /\ env # releasing[i]
         /\ \A j \in DOMAIN args : args[j] # releasing[i]
<1> DEFINE o == releasing[i]
<1>1. o \in Objs
  BY DEF TypeOK
<1>2. Total(o) = 1
  BY <1>1, RefsTotal DEF CountsExact
<1>3. Occurrences(o, releasing) \in Nat /\ Occurrences(o, releasing) # 0
  BY OccNat DEF TypeOK
<1>4. /\ Held(handle, o) = 0 /\ Boxed(kids, o) = 0 /\ Same(env, o) = 0
      /\ Occurrences(o, args) = 0
  <2>1. /\ Held(handle, o) \in Nat /\ Boxed(kids, o) \in Nat /\ Same(env, o) \in Nat
        /\ Occurrences(o, args) \in Nat
    BY <1>1, RefsTotal
  <2>2. Held(handle, o) + Boxed(kids, o) + Same(env, o) + Occurrences(o, args)
          + Occurrences(o, releasing) = 1
    BY <1>2 DEF Total
  <2>3. Occurrences(o, releasing) >= 1
    BY <1>3
  <2> HIDE DEF o
  <2> QED
    BY <1>3, <2>1, <2>2, <2>3
<1>5. \A h \in Handles : handle[h] # o
  BY <1>4, HeldNat
<1>6. \A b \in Objs : \A j \in DOMAIN kids[b] : kids[b][j] # o
  BY <1>4, KidsType, BoxedNat
<1>7. env # o
  BY <1>4 DEF Same
<1>8. \A j \in DOMAIN args : args[j] # o
  BY <1>4, OccNat DEF TypeOK
<1> QED
  BY <1>5, <1>6, <1>7, <1>8

LEMMA ReleaseOneStep == ASSUME IInv, ReleaseOne PROVE IInv'
<1> DEFINE o == Head(releasing)
           rest == Tail(releasing)
<1>1. /\ releasing # <<>> /\ releasing \in Seq(Objs) /\ UNCHANGED <<handle, env, args>>
      /\ rc' = [rc EXCEPT ![o] = @ - 1]
  BY DEF ReleaseOne, IInv, TypeOK
<1>2. o \in Objs /\ rest \in Seq(Objs) /\ o = releasing[1] /\ 1 \in DOMAIN releasing
  BY <1>1
<1>3. \A x \in Objs : Occurrences(x, releasing) = Same(o, x) + Occurrences(x, rest)
  BY <1>1, OccHead
<1>4. /\ \A x \in Objs : rc[x] \in Nat /\ (kind[x] = "free" <=> rc[x] = 0)
      /\ kind[o] # "free"
  BY <1>2, ReferencedLives DEF IInv, TypeOK, CountsExact
<1> HIDE DEF o, rest
<1>5. /\ rc' \in [Objs -> Nat]
      /\ \A x \in Objs : rc'[x] = rc[x] - Same(o, x)
  BY <1>1, <1>2, <1>4 DEF Same, IInv, TypeOK
<1>6. CASE rc[o] = 1
  <2>1. /\ kind' = [kind EXCEPT ![o] = "free"] /\ data' = [data EXCEPT ![o] = None]
        /\ kids' = [kids EXCEPT ![o] = <<>>] /\ releasing' = rest \o kids[o]
    BY <1>6 DEF ReleaseOne, o, rest
  <2>2. kids \in [Objs -> Kids] /\ kids[o] \in Seq(Objs)
    BY <1>2, KidsType DEF IInv, TypeOK
  <2>3. /\ kids' \in [Objs -> Kids] /\ kids'[o] = <<>>
        /\ \A b \in Objs \ {o} : kids'[b] = kids[b]
    BY <1>2, <2>1, <2>2, NoKids
  <2>4. releasing' \in Seq(Objs)
    BY <1>2, <2>1, <2>2, ConcatProperties
  <2>5. kind' \in [Objs -> Kinds] /\ data' \in [Objs -> Payloads \cup {None}]
    BY <2>1 DEF IInv, TypeOK, Kinds
  <2>6. \A x \in Objs : kind'[x] \in {"free", "vec"} => kids'[x] = <<>>
    BY <2>1, <2>3 DEF IInv, TypeOK
  <2>7. TypeOK'
    BY <1>1, <1>5, <2>3, <2>4, <2>5, <2>6 DEF IInv, TypeOK, Kids
  <2>8. ASSUME NEW x \in Objs
        PROVE  rc'[x] - rc[x] = Total(x)' - Total(x) /\ (kind'[x] = "free" <=> rc'[x] = 0)
    <3>1. Boxed(kids', x) = Boxed(kids, x) - Occurrences(x, kids[o]) + Occurrences(x, kids'[o])
      BY <1>2, <2>2, <2>3, BoxedChange
    <3>2. Occurrences(x, kids'[o]) = 0
      BY <2>3, OccEmpty
    <3>3. Occurrences(x, rest \o kids[o]) = Occurrences(x, rest) + Occurrences(x, kids[o])
      BY <1>2, <2>2, OccConcat
    <3>4. Occurrences(x, releasing') = Occurrences(x, rest) + Occurrences(x, kids[o])
      BY <2>1, <3>3
    <3>5. /\ Occurrences(x, rest) \in Nat /\ Occurrences(x, kids[o]) \in Nat
          /\ Same(o, x) \in Nat
      BY <1>2, <2>2, OccNat DEF Same
    <3>6. /\ Held(handle, x) \in Nat /\ Boxed(kids, x) \in Nat /\ Same(env, x) \in Nat
          /\ Occurrences(x, args) \in Nat
      BY RefsTotal DEF IInv
    <3>7. Boxed(kids', x) + Occurrences(x, releasing')
            = Boxed(kids, x) + Occurrences(x, releasing) - Same(o, x)
      BY <1>3, <3>1, <3>2, <3>4, <3>5, <3>6
    <3>8. Boxed(kids', x) \in Nat
      BY <2>3, BoxedNat
    <3>9. Occurrences(x, releasing') \in Nat /\ Occurrences(x, releasing) \in Nat
      BY <1>1, <2>4, OccNat
    <3>10. Total(x)' = Total(x) - Same(o, x)
      <4>1. Total(x)' = Held(handle, x) + Boxed(kids', x) + Same(env, x) + Occurrences(x, args)
                          + Occurrences(x, releasing')
        BY <1>1 DEF Total
      <4> QED
        BY <3>5, <3>6, <3>7, <3>8, <3>9, <4>1 DEF Total
    <3>11. Total(x) \in Nat
      BY TotalNat DEF IInv, TotalsRight
    <3>12. rc'[x] = rc[x] - Same(o, x) /\ (kind'[x] = "free" <=> x = o \/ kind[x] = "free")
      BY <1>5, <2>1 DEF IInv, TypeOK
    <3> QED
      BY <1>4, <1>6, <3>10, <3>11, <3>12 DEF Same
  <2>9. Founded'
    BY <1>2, <2>3, NoKids, FoundedKept DEF IInv
  <2>10. Shapes'
    <3>1. /\ kind'[o] = "free"
          /\ \A x \in Objs \ {o} : kind'[x] = kind[x] /\ kids'[x] = kids[x]
      BY <1>2, <2>1, <2>3 DEF IInv, TypeOK
    <3>2. \A x \in Objs : kind[x] = "view" => kids[x][1] \in Objs /\ kids[x][1] # o
      BY <1>2, <1>6, SoleRelease DEF IInv, TypeOK, Shapes, Shaped
    <3> QED
      BY <3>1, <3>2 DEF IInv, Shapes, Shaped
  <2> QED
    BY <2>7, <2>8, <2>9, <2>10, CountsFollow DEF IInv
<1>7. CASE rc[o] # 1
  <2>1. releasing' = rest /\ UNCHANGED <<kind, data, kids>>
    BY <1>7 DEF ReleaseOne, o, rest
  <2>2. TypeOK'
    BY <1>1, <1>2, <1>5, <2>1 DEF IInv, TypeOK
  <2>3. ASSUME NEW x \in Objs
        PROVE  rc'[x] - rc[x] = Total(x)' - Total(x) /\ (kind'[x] = "free" <=> rc'[x] = 0)
    <3>1. Occurrences(x, releasing) = Same(o, x) + Occurrences(x, releasing')
      BY <1>3, <2>1
    <3>2. /\ Held(handle, x) \in Nat /\ Boxed(kids, x) \in Nat /\ Same(env, x) \in Nat
          /\ Occurrences(x, args) \in Nat /\ Same(o, x) \in Nat
          /\ Occurrences(x, releasing') \in Nat
      BY <1>2, <2>1, RefsTotal, OccNat DEF IInv, Same
    <3>3. Total(x)' = Total(x) - Same(o, x)
      BY <1>1, <2>1, <3>1, <3>2 DEF Total
    <3>4. Total(x) \in Nat
      BY TotalNat DEF IInv, TotalsRight
    <3>5. rc'[x] = rc[x] - Same(o, x) /\ kind'[x] = kind[x]
      BY <1>5, <2>1
    <3> QED
      BY <1>2, <1>4, <1>7, <3>3, <3>4, <3>5 DEF Same
  <2>4. Founded' /\ Shapes'
    BY <2>1 DEF IInv, Founded, Shapes, Shaped
  <2> QED
    BY <2>2, <2>3, <2>4, CountsFollow DEF IInv
<1> QED
  BY <1>6, <1>7

-----------------------------------------------------------------------------
(* Each operation keeps the invariant                                      *)

LEMMA NewVecStep ==
  ASSUME IInv, NEW h \in Handles, NEW n \in Objs,
         NEW p \in Payloads \cup {None}, NewVec(h, n, p)
  PROVE  IInv'
<1>1. /\ Alloc(n, "vec", p, <<>>) /\ rc' = [Retained(<<>>) EXCEPT ![n] = 1]
      /\ FromOwned(h, n) /\ UNCHANGED <<env, args, releasing>>
  BY RetainedNone DEF NewVec, IInv
<1>2. "vec" \in Kinds \ {"free"} /\ Shaped("vec", <<>>)
  BY DEF Kinds, Shaped
<1> QED
  BY <1>1, <1>2, NoKids, Made

LEMMA SliceStep ==
  ASSUME IInv, NEW h \in Handles, NEW g \in Handles, NEW n \in Objs, Slice(h, g, n)
  PROVE  IInv'
<1> DEFINE ks == <<handle[h]>>
<1>1. /\ handle[h] \in Objs /\ kind[handle[h]] = "vec"
      /\ Alloc(n, "view", None, ks) /\ rc' = [Retained(ks) EXCEPT ![n] = 1]
      /\ FromOwned(g, n) /\ UNCHANGED <<env, args, releasing>>
  BY DEF Slice, Holds
<1>2. ks \in Kids /\ \A i \in DOMAIN ks : kind[ks[i]] # "free"
  BY <1>1, LenAssumption DEF Kids
<1>3. "view" \in Kinds \ {"free"} /\ Shaped("view", ks)
  BY <1>1 DEF Kinds, Shaped
<1> HIDE DEF ks
<1> QED
  BY <1>1, <1>2, <1>3, Made

LEMMA VecGetStep ==
  ASSUME IInv, NEW h \in Handles, NEW g \in Handles, NEW n \in Objs, VecGet(h, g, n)
  PROVE  IInv'
<1>1. CASE NewVec(g, n, CellsOf(handle[h]))
  <2>1. handle[h] \in Objs
    BY DEF VecGet, Holds
  <2>2. ASSUME kind[handle[h]] = "view" PROVE kids[handle[h]][1] \in Objs
    <3>1. kids[handle[h]] \in Kids /\ Len(kids[handle[h]]) = 1
      BY <2>1, <2>2 DEF IInv, TypeOK, Shapes, Shaped, Kids
    <3> QED
      BY <3>1, OnlyKid
  <2>3. CellsOf(handle[h]) \in Payloads \cup {None}
    BY <2>1, <2>2 DEF IInv, TypeOK, CellsOf
  <2> QED
    BY <1>1, <2>3, NewVecStep
<1>2. CASE FromOwned(g, Null) /\ UNCHANGED <<heapVars, env, args, releasing>>
  <2>1. Retained(<<Null>>) = rc
    BY RetainedNull DEF IInv
  <2>2. /\ FromOwned(g, Null) /\ rc' = Retained(<<Null>>)
        /\ UNCHANGED <<kind, data, kids, env, args, releasing>>
    BY <1>2, <2>1 DEF heapVars
  <2> QED
    BY <2>2, NamesAssumption, Borrowed
<1> QED
  BY <1>1, <1>2 DEF VecGet

LEMMA BuildStep ==
  ASSUME IInv, NEW h \in Handles, NEW n \in Objs, NEW k \in {"list", "table"},
         NEW items \in Items, Build(h, n, k, items)
  PROVE  IInv'
<1> DEFINE ks == [i \in DOMAIN items |-> handle[items[i]]]
<1>1. /\ \A i \in DOMAIN items : handle[items[i]] \in Objs /\ kind[handle[items[i]]] # "free"
      /\ Alloc(n, k, None, ks) /\ rc' = [Retained(ks) EXCEPT ![n] = 1]
      /\ FromOwned(h, n) /\ UNCHANGED <<env, args, releasing>>
  BY DEF Build, Holds
<1>2. ks \in Kids /\ \A i \in DOMAIN ks : kind[ks[i]] # "free"
  <2>1. PICK m \in 0..MaxLen : items \in [1..m -> Handles]
    BY DEF Items
  <2>2. ks \in [1..m -> Objs]
    BY <1>1, <2>1
  <2>3. m \in Nat /\ m <= MaxLen + 1
    BY <2>1, LenAssumption
  <2>4. ks \in Seq(Objs) /\ Len(ks) = m
    BY <2>2, <2>3
  <2> QED
    BY <1>1, <2>3, <2>4 DEF Kids
<1>3. k \in Kinds \ {"free"} /\ k # "vec" /\ Shaped(k, ks)
  BY DEF Kinds, Shaped
<1> HIDE DEF ks
<1> QED
  BY <1>1, <1>2, <1>3, Made

LEMMA ConstructStep == ASSUME IInv, Construct PROVE IInv'
<1>1. PICK h \in Handles, n \in Objs :
        \/ \E p \in Payloads : NewVec(h, n, p)
        \/ \E g \in Handles : Slice(h, g, n) \/ VecGet(h, g, n)
        \/ \E g, k \in Handles, p \in Payloads : Concat(h, g, k, n, p)
        \/ \E items \in Items : ListNew(h, n, items) \/ TableNew(h, n, items)
        \/ \E g, k \in Handles : DictNew(h, g, k, n)
  BY DEF Construct
<1>2. CASE \E p \in Payloads : NewVec(h, n, p)
  BY <1>2, NewVecStep
<1>3. CASE \E g \in Handles : Slice(h, g, n) \/ VecGet(h, g, n)
  BY <1>3, SliceStep, VecGetStep
<1>4. CASE \E g, k \in Handles, p \in Payloads : Concat(h, g, k, n, p)
  BY <1>4, NewVecStep DEF Concat
<1>5. CASE \E items \in Items : ListNew(h, n, items) \/ TableNew(h, n, items)
  BY <1>5, BuildStep DEF ListNew, TableNew
<1>6. CASE \E g, k \in Handles : DictNew(h, g, k, n)
  BY <1>6, DictNewStep
<1> QED
  BY <1>1, <1>2, <1>3, <1>4, <1>5, <1>6

LEMMA InspectStep ==
  ASSUME IInv, NEW h \in Handles, NEW g \in Handles, NEW i, handle[h] \in Objs,
         Inspect(h, g, i)
  PROVE  IInv'
<1> DEFINE x == kids[handle[h]][i]
<1>1. /\ handle[h] \in Objs /\ i \in DOMAIN kids[handle[h]]
      /\ FromOwned(g, x) /\ rc' = Retained(<<x>>)
      /\ UNCHANGED <<kind, data, kids, env, args, releasing>>
  BY DEF Inspect, FromBorrowed, FromOwned
<1>2. x \in Objs /\ kind[x] # "free"
  BY <1>1, ReferencedLives DEF IInv, TypeOK
<1> HIDE DEF x
<1> QED
  BY <1>1, <1>2, Borrowed

LEMMA DictGetStep ==
  ASSUME IInv, NEW h \in Handles, NEW g \in Handles, NEW i \in 1..MaxLen + 1, DictGet(h, g, i)
  PROVE  IInv'
<1> DEFINE values == kids[handle[h]][2]
           x == kids[values][i]
<1>1. /\ kind[values] = "list" /\ i \in DOMAIN kids[values]
      /\ FromOwned(g, x) /\ rc' = Retained(<<x>>)
      /\ UNCHANGED <<kind, data, kids, env, args, releasing>>
  BY DEF DictGet
<1>2. values \in Objs
  <2>1. handle[h] \in Objs /\ kind[handle[h]] = "dict"
    BY DEF DictGet, Holds
  <2>2. Len(kids[handle[h]]) = 2 /\ kids[handle[h]] \in Seq(Objs)
    BY <2>1 DEF IInv, TypeOK, Shapes, Shaped
  <2> QED
    BY <2>2
<1>3. x \in Objs /\ kind[x] # "free"
  BY <1>1, <1>2, ReferencedLives DEF IInv, TypeOK
<1> HIDE DEF x, values
<1> QED
  BY <1>1, <1>3, Borrowed

LEMMA CloneStep ==
  ASSUME IInv, NEW h \in Handles, NEW g \in Handles, Clone(h, g)
  PROVE  IInv'
<1> DEFINE x == handle[h]
<1>1. /\ x # None /\ FromOwned(g, x) /\ rc' = Retained(<<x>>)
      /\ UNCHANGED <<kind, data, kids, env, args, releasing>>
  BY DEF Clone, FromOwned
<1>2. x \in Objs \cup {Null} /\ (x \in Objs => kind[x] # "free")
  BY <1>1, ReferencedLives DEF IInv, TypeOK
<1> HIDE DEF x
<1> QED
  BY <1>1, <1>2, Borrowed

LEMMA ShareStep == ASSUME IInv, Share PROVE IInv'
BY InspectStep, DictGetStep, CloneStep, DropStep DEF Share, ListGet, DictPart,
   Column, Holds

LEMMA SetStep ==
  ASSUME IInv, NEW h \in Handles, NEW n \in Objs, NEW p \in Payloads, Set(h, n, p)
  PROVE  IInv'
<1>1. /\ Idle /\ handle[h] \in Objs /\ UNCHANGED <<env, args>>
  BY DEF Set, Holds
<1>2. CASE /\ data' = [data EXCEPT ![handle[h]] = p]
           /\ UNCHANGED <<kind, rc, kids, handle, releasing>>
  BY <1>1, <1>2, Written
<1>3. CASE /\ Alloc(n, "vec", p, <<>>) /\ rc' = [rc EXCEPT ![n] = 1]
           /\ InstallMutation(h, n) /\ releasing' = <<handle[h]>>
  <2>1. rc' = [Retained(<<>>) EXCEPT ![n] = 1] /\ "vec" \in Kinds \ {"free"}
        /\ Shaped("vec", <<>>)
    BY <1>3, RetainedNone DEF IInv, Kinds, Shaped
  <2> QED
    BY <1>1, <1>3, <2>1, NoKids, Replaced
<1>4. CASE MutationFails(h)
  BY <1>1, <1>4, MutationFailsStep
<1> QED
  BY <1>2, <1>3, <1>4 DEF Set

LEMMA ListPushStep ==
  ASSUME IInv, NEW h \in Handles, NEW g \in Handles, NEW n \in Objs, ListPush(h, g, n)
  PROVE  IInv'
<1> DEFINE ks == Append(kids[handle[h]], handle[g])
<1>1. /\ Idle /\ h # g /\ UNCHANGED <<env, args>>
      /\ handle[h] \in Objs /\ kind[handle[h]] = "list"
      /\ handle[g] \in Objs /\ Len(ks) <= MaxLen
  BY DEF ListPush, Holds
<1>2. ks \in Kids /\ \A i \in DOMAIN ks : kind[ks[i]] # "free"
  <2>1. kids[handle[h]] \in Seq(Objs)
    BY <1>1 DEF IInv, TypeOK
  <2>2. kind[handle[g]] # "free" /\ \A i \in DOMAIN kids[handle[h]] : kind[kids[handle[h]][i]] # "free"
    BY <1>1, ReferencedLives DEF IInv
  <2>3. ks \in Seq(Objs) /\ \A i \in DOMAIN ks :
          (i \in DOMAIN kids[handle[h]] /\ ks[i] = kids[handle[h]][i]) \/ ks[i] = handle[g]
    BY <1>1, <2>1
  <2>4. Len(ks) <= MaxLen + 1
    BY <1>1, <2>3, LenAssumption
  <2> QED
    BY <2>2, <2>3, <2>4 DEF Kids
<1> HIDE DEF ks
<1>3. CASE /\ Unshared(handle[h]) /\ kids' = [kids EXCEPT ![handle[h]] = ks]
           /\ rc' = Retained(<<handle[g]>>)
           /\ UNCHANGED <<kind, data, handle, releasing>>
  <2>1. /\ kids' \in [Objs -> Seq(Objs)] /\ kids'[handle[h]] = ks
        /\ \A b \in Objs \ {handle[h]} : kids'[b] = kids[b]
    BY <1>1, <1>2, <1>3 DEF IInv, TypeOK, Kids
  <2>2. rc[handle[h]] = 1
    BY <1>3 DEF Unshared
  <2>3. UNCHANGED <<kind, data, handle, env, args, releasing>> /\ rc' = Retained(<<handle[g]>>)
    BY <1>1, <1>3
  <2>4. ks = Append(kids[handle[h]], handle[g])
    BY DEF ks
  <2> QED
    BY <1>1, <2>1, <2>2, <2>3, <2>4, PushedInPlace
<1>4. CASE /\ Alloc(n, "list", None, ks) /\ rc' = [Retained(ks) EXCEPT ![n] = 1]
           /\ InstallMutation(h, n) /\ releasing' = <<handle[h]>>
  <2>1. "list" \in Kinds \ {"free"} /\ Shaped("list", ks)
    BY DEF Kinds, Shaped
  <2> QED
    BY <1>1, <1>2, <1>4, <2>1, Replaced
<1>5. CASE MutationFails(h)
  BY <1>1, <1>5, MutationFailsStep
<1> QED
  BY <1>3, <1>4, <1>5 DEF ListPush, ks

LEMMA SetNullKeeps ==
  ASSUME IInv, NEW h \in Handles, NEW p \in Payloads, SetNull(h, p)
  PROVE  IInv'
<1>1. /\ handle[h] \in Objs /\ data' = [data EXCEPT ![handle[h]] = p]
      /\ UNCHANGED <<kind, rc, kids, handle, env, args, releasing>>
  BY DEF SetNull, Holds
<1> QED
  BY <1>1, Written

LEMMA MutateStep == ASSUME IInv, Mutate PROVE IInv'
<1>1. PICK h \in Handles :
        \/ \E n \in Objs, p \in Payloads : Set(h, n, p)
        \/ \E g \in Handles, n \in Objs : ListPush(h, g, n)
        \/ \E p \in Payloads : SetNull(h, p)
  BY DEF Mutate
<1>2. CASE \E n \in Objs, p \in Payloads : Set(h, n, p)
  BY <1>2, SetStep
<1>3. CASE \E g \in Handles, n \in Objs : ListPush(h, g, n)
  BY <1>3, ListPushStep
<1>4. CASE \E p \in Payloads : SetNull(h, p)
  BY <1>4, SetNullKeeps
<1> QED
  BY <1>1, <1>2, <1>3, <1>4

LEMMA EvalValueStep ==
  ASSUME IInv, NEW h \in Handles, NEW g \in Handles, NEW n \in Objs, NEW p \in Payloads,
         EvalValue(h, g, n, p)
  PROVE  IInv'
<1>1. CASE NewVec(g, n, p)
  BY <1>1, NewVecStep
<1>2. ASSUME NEW x \in {handle[h], env, Null} \ {None},
             FromOwned(g, x), rc' = Retained(<<x>>),
             UNCHANGED <<kind, data, kids, env, args, releasing>>
      PROVE  IInv'
  <2>1. x \in Objs \cup {Null} /\ (x \in Objs => kind[x] # "free")
    BY ReferencedLives, NamesAssumption DEF IInv, TypeOK
  <2> QED
    BY <1>2, <2>1, Borrowed
<1> QED
  BY <1>1, <1>2 DEF EvalValue

LEMMA GlobalStep == ASSUME IInv, Global PROVE IInv'
<1>1. ASSUME NEW h \in Handles, GetGlobal(h) PROVE IInv'
  <2>1. /\ FromOwned(h, env) /\ rc' = Retained(<<env>>) /\ env # None
        /\ UNCHANGED <<kind, data, kids, env, args, releasing>>
    BY <1>1 DEF GetGlobal, FromBorrowed, FromOwned
  <2>2. env \in Objs /\ kind[env] # "free"
    BY <2>1, ReferencedLives DEF IInv, TypeOK
  <2> QED
    BY <2>1, <2>2, Borrowed
<1> QED
  BY <1>1, SetGlobalStep, EvalValueStep DEF Global

LEMMA HandlerStep == ASSUME IInv, Handler PROVE IInv'
<1>1. ASSUME NEW h \in Handles, ArgsGet(h) PROVE IInv'
  <2> DEFINE x == args[1]
  <2>1. /\ FromOwned(h, x) /\ rc' = Retained(<<x>>) /\ args # <<>>
        /\ UNCHANGED <<kind, data, kids, env, args, releasing>>
    BY <1>1 DEF ArgsGet, FromBorrowed, FromOwned
  <2>2. 1 \in DOMAIN args /\ x \in Objs
    BY <2>1 DEF IInv, TypeOK
  <2>3. kind[x] # "free"
    BY <2>2, ReferencedLives DEF IInv
  <2> HIDE DEF x
  <2> QED
    BY <2>1, <2>2, <2>3, Borrowed
<1> QED
  BY <1>1, CallHandlerStep, HandlerReturnsStep, HandlerPanicsStep DEF Handler

LEMMA InitIInv == Init => IInv
<1> SUFFICES ASSUME Init PROVE IInv
  OBVIOUS
<1>1. TypeOK
  BY LenAssumption DEF Init, TypeOK, Kinds
<1>2. ASSUME NEW o \in Objs PROVE rc[o] = Refs(o) /\ (kind[o] = "free" <=> rc[o] = 0)
  <2>1. Held(handle, o) = 0
    <3>1. \A h \in Handles : handle[h] # o
      BY NamesAssumption DEF Init
    <3> QED
      BY <3>1, HeldNat
  <2>2. Boxed(kids, o) = 0
    <3>1. \A b \in Objs : \A i \in DOMAIN kids[b] : kids[b][i] # o
      BY DEF Init
    <3> QED
      BY <1>1, <3>1, KidsType, BoxedNat
  <2>3. Same(env, o) = 0
    BY NamesAssumption DEF Init, Same
  <2>4. Occurrences(o, args) = 0 /\ Occurrences(o, releasing) = 0
    BY OccEmpty DEF Init
  <2>5. Total(o) = 0
    BY <2>1, <2>2, <2>3, <2>4 DEF Total
  <2> QED
    BY <1>1, <2>5, RefsTotal DEF Init
<1>3. Founded /\ Shapes
  BY DEF Founded, Shapes, Shaped, Init
<1> QED
  BY <1>1, <1>2, <1>3 DEF IInv, CountsExact

LEMMA IInvStep == IInv /\ [Next]_vars => IInv'
<1> SUFFICES ASSUME IInv, [Next]_vars PROVE IInv'
  OBVIOUS
<1>1. CASE Next
  BY <1>1, ReleaseOneStep, ConstructStep, ShareStep, MutateStep, GlobalStep,
     HandlerStep DEF Next
<1>2. CASE UNCHANGED vars
  <2>1. TypeOK'
    BY <1>2 DEF IInv, TypeOK, vars, heapVars
  <2>2. CountsExact'
    BY <1>2 DEF IInv, CountsExact, Refs, vars, heapVars
  <2>3. Founded'
    BY <1>2 DEF IInv, Founded, vars, heapVars
  <2>4. Shapes'
    BY <1>2 DEF IInv, Shapes, Shaped, vars, heapVars
  <2> QED
    BY <2>1, <2>2, <2>3, <2>4 DEF IInv
<1> QED
  BY <1>1, <1>2

-----------------------------------------------------------------------------
(* Theorems                                                                *)

(* The invariant: counts follow the references, boxes do not go round.     *)
THEOREM Invariance == Spec => []IInv
<1> QED
  BY InitIInv, IInvStep, PTL DEF Spec

(* Every variable has the type it should.                                  *)
THEOREM TypeCorrect == Spec => []TypeOK
<1>1. IInv => TypeOK
  BY DEF IInv
<1> QED
  BY <1>1, Invariance, PTL

(* A Value owns exactly one reference, and the count of an object is the   *)
(* number of its references, on every path (value.rs:3).                   *)
THEOREM ExactCounts == Spec => []CountsExact
<1>1. IInv => CountsExact
  BY DEF IInv
<1> QED
  BY <1>1, Invariance, PTL

(* No Value points to a block that has been freed (value.rs:16-29).        *)
THEOREM NoDangling == Spec => []NoDanglingValue
<1>1. ASSUME IInv, NEW o \in ReachedFrom(Roots) PROVE kind[o] # "free"
  <2> DEFINE T == {x \in Objs : kind[x] # "free"}
  <2>1. Roots \cap Objs \subseteq T
    BY <1>1, ReferencedLives, NamesAssumption DEF IInv, Roots
  <2>2. Closed(T)
    BY <1>1, ReferencedLives DEF IInv, TypeOK, Closed
  <2>3. o \in T
    BY <1>1, <2>1, <2>2 DEF ReachedFrom
  <2> QED
    BY <2>3
<1>2. IInv => NoDanglingValue
  BY <1>1 DEF NoDanglingValue
<1> QED
  BY <1>2, Invariance, PTL

(* No path loses a reference, and no list ends up inside itself            *)
(* (vector.rs:360-363).                                                    *)
THEOREM NoLeak == Spec => []NothingLeaks
<1>1. ASSUME IInv, Idle, NEW o \in Objs, kind[o] # "free" PROVE o \in ReachedFrom(Roots)
  <2> DEFINE U == {x \in Objs : kind[x] # "free" /\ x \notin ReachedFrom(Roots)}
  <2>1. SUFFICES ASSUME U # {} PROVE FALSE
    BY <1>1
  <2>2. U \in SUBSET Objs
    OBVIOUS
  <2>3. PICK x \in U : \A b \in U : \A i \in DOMAIN kids[b] : kids[b][i] # x
    BY <1>1, <2>1, <2>2 DEF IInv, Founded
  <2>4. x \in Objs /\ kind[x] # "free" /\ x \notin ReachedFrom(Roots)
    BY <2>3
  <2>5. PICK T \in SUBSET Objs : Roots \cap Objs \subseteq T /\ Closed(T) /\ x \notin T
    BY <2>4 DEF ReachedFrom
  <2>6. /\ \A h \in Handles : handle[h] # x
        /\ env # x
        /\ \A i \in DOMAIN args : args[i] # x
    BY <2>4, <2>5 DEF Roots
  <2>7. \A b \in Objs : \A i \in DOMAIN kids[b] : kids[b][i] # x
    <3> SUFFICES ASSUME NEW b \in Objs, NEW i \in DOMAIN kids[b], kids[b][i] = x PROVE FALSE
      OBVIOUS
    <3>1. kind[b] # "free"
      BY <1>1 DEF IInv, TypeOK
    <3>2. b \in ReachedFrom(Roots)
      BY <2>3, <3>1
    <3>3. b \in T
      BY <2>5, <3>2 DEF ReachedFrom
    <3>4. x \in T
      BY <2>5, <3>3 DEF Closed
    <3> QED
      BY <2>5, <3>4
  <2>8. Total(x) = 0
    <3>1. Held(handle, x) = 0
      BY <2>6, HeldNat
    <3>2. Boxed(kids, x) = 0
      BY <1>1, <2>7, KidsType, BoxedNat DEF IInv
    <3>3. Same(env, x) = 0
      BY <2>6 DEF Same
    <3>4. Occurrences(x, args) = 0
      BY <1>1, <2>6, OccNat DEF IInv, TypeOK
    <3>5. Occurrences(x, releasing) = 0
      BY <1>1, OccEmpty DEF Idle
    <3> QED
      BY <3>1, <3>2, <3>3, <3>4, <3>5 DEF Total
  <2>9. rc[x] = 0
    BY <1>1, <2>4, <2>8, TotalNat DEF IInv, CountsExact, TotalsRight
  <2> QED
    BY <1>1, <2>4, <2>9 DEF IInv, CountsExact
<1>2. IInv => NothingLeaks
  BY <1>1 DEF NothingLeaks
<1> QED
  BY <1>2, Invariance, PTL

-----------------------------------------------------------------------------
(* What a step changes, and who can see it                                 *)

Parentless(c) == \A b \in Objs : \A i \in DOMAIN kids[b] : kids[b][i] # c
OnlyAt(c) ==
  \A x \in Objs \ {c} : kind'[x] = kind[x] /\ data'[x] = data[x] /\ kids'[x] = kids[x]

(* A step writes no block, one that was free, one that is being freed, or  *)
(* one that a single handle refers to; set_null, any.                      *)
Effect ==
  \/ UNCHANGED <<kind, data, kids>>
  \/ \E n \in Objs : kind[n] = "free" /\ OnlyAt(n)
  \/ releasing # <<>> /\ rc[Head(releasing)] = 1 /\ OnlyAt(Head(releasing))
  \/ \E h \in Handles : handle[h] \in Objs /\ rc[handle[h]] = 1 /\ OnlyAt(handle[h])
  \/ SetNullStep

LEMMA StepEffect == ASSUME IInv, Next PROVE Effect
<1>1. CASE ReleaseOne
  BY <1>1 DEF ReleaseOne, Effect, OnlyAt, IInv, TypeOK
<1>2. ASSUME NEW n \in Objs, NEW k, NEW p, NEW ks, Alloc(n, k, p, ks) PROVE Effect
  BY <1>2 DEF Alloc, Effect, OnlyAt
<1>3. CASE Construct
  <2>1. PICK h \in Handles, n \in Objs :
          \/ \E p \in Payloads : NewVec(h, n, p)
          \/ \E g \in Handles : Slice(h, g, n) \/ VecGet(h, g, n)
          \/ \E g, k \in Handles, p \in Payloads : Concat(h, g, k, n, p)
          \/ \E items \in Items : ListNew(h, n, items) \/ TableNew(h, n, items)
          \/ \E g, k \in Handles : DictNew(h, g, k, n)
    BY <1>3 DEF Construct
  <2>2. CASE \E p \in Payloads : NewVec(h, n, p)
    BY <1>2, <2>2 DEF NewVec
  <2>3. CASE \E g \in Handles : Slice(h, g, n) \/ VecGet(h, g, n)
    BY <1>2, <2>3 DEF Slice, VecGet, NewVec, heapVars, Effect
  <2>4. CASE \E g, k \in Handles, p \in Payloads : Concat(h, g, k, n, p)
    BY <1>2, <2>4 DEF Concat, NewVec
  <2>5. CASE \E items \in Items : ListNew(h, n, items) \/ TableNew(h, n, items)
    BY <1>2, <2>5 DEF ListNew, TableNew, Build
  <2>6. CASE \E g, k \in Handles : DictNew(h, g, k, n)
    BY <1>2, <2>6 DEF DictNew, heapVars, Effect
  <2> QED
    BY <2>1, <2>2, <2>3, <2>4, <2>5, <2>6
<1>4. CASE Share
  BY <1>4 DEF Share, ListGet, DictPart, Column, Inspect, DictGet, Clone, Drop,
     heapVars, Effect
<1>5. CASE Mutate
  <2>1. ASSUME NEW h \in Handles, NEW n \in Objs, NEW p \in Payloads, Set(h, n, p) PROVE Effect
    <3>1. CASE Unshared(handle[h]) /\ data' = [data EXCEPT ![handle[h]] = p] /\ UNCHANGED <<kind, kids>>
      BY <2>1, <3>1 DEF Unshared, Effect, OnlyAt, IInv, TypeOK
    <3>2. CASE Alloc(n, "vec", p, <<>>)
      BY <1>2, <3>2
    <3>3. CASE MutationFails(h)
      BY <3>3 DEF MutationFails, heapVars, Effect
    <3> QED
      BY <2>1, <3>1, <3>2, <3>3 DEF Set
  <2>2. ASSUME NEW h \in Handles, NEW g \in Handles, NEW n \in Objs, ListPush(h, g, n) PROVE Effect
    <3> DEFINE ks == Append(kids[handle[h]], handle[g])
    <3>1. CASE Unshared(handle[h]) /\ kids' = [kids EXCEPT ![handle[h]] = ks] /\ UNCHANGED <<kind, data>>
      <4> HIDE DEF ks
      <4> QED
        BY <2>2, <3>1 DEF Unshared, Effect, OnlyAt, IInv, TypeOK
    <3>2. CASE Alloc(n, "list", None, ks)
      BY <1>2, <3>2
    <3>3. CASE MutationFails(h)
      BY <3>3 DEF MutationFails, heapVars, Effect
    <3> QED
      BY <2>2, <3>1, <3>2, <3>3 DEF ListPush
  <2> QED
    BY <1>5, <2>1, <2>2 DEF Mutate, Effect, SetNullStep
<1>6. CASE Global
  <2>1. ASSUME NEW h \in Handles, NEW g \in Handles, NEW n \in Objs, NEW p \in Payloads,
               EvalValue(h, g, n, p)
        PROVE  Effect
    BY <1>2, <2>1 DEF EvalValue, NewVec, Effect
  <2> QED
    BY <1>6, <2>1 DEF Global, SetGlobal, GetGlobal, Effect
<1>7. CASE Handler
  <2>1. ASSUME NEW n \in Objs, NEW p \in Payloads, CallHandler(n, p) PROVE Effect
    BY <1>2, <2>1 DEF CallHandler
  <2> QED
    BY <1>7, <2>1 DEF Handler, ArgsGet, HandlerReturns, HandlerPanics,
       heapVars, Effect
<1> QED
  BY <1>1, <1>3, <1>4, <1>5, <1>6, <1>7 DEF Next

(* A change at one block that no box holds is seen only by who refers to   *)
(* that block: a view looks at another.                                    *)
LEMMA SeenThrough ==
  ASSUME IInv, NEW c \in Objs, Parentless(c), OnlyAt(c),
         NEW S, ~SameContents(ReachedFrom(S))
  PROVE  c \in S
<1>1. \A o \in Objs \ {c} : Contents(o)' = Contents(o)
  <2> TAKE o \in Objs \ {c}
  <2>1. kind'[o] = kind[o] /\ data'[o] = data[o] /\ kids'[o] = kids[o]
    BY DEF OnlyAt
  <2>2. ASSUME kind[o] = "view" PROVE data'[kids[o][1]] = data[kids[o][1]]
    <3>1. kids[o] \in Kids /\ Len(kids[o]) = 1
      BY <2>2 DEF IInv, TypeOK, Shapes, Shaped, Kids
    <3>2. kids[o][1] \in Objs
      BY <3>1, OnlyKid
    <3>3. 1 \in DOMAIN kids[o]
      BY <3>1
    <3>4. kids[o][1] # c
      BY <3>3 DEF Parentless
    <3> QED
      BY <3>2, <3>4 DEF OnlyAt
  <2> QED
    BY <2>1, <2>2 DEF Contents, CellsOf
<1>2. c \in ReachedFrom(S)
  BY <1>1 DEF SameContents, ReachedFrom
<1>3. SUFFICES ASSUME c \notin S PROVE FALSE
  OBVIOUS
<1> DEFINE T == Objs \ {c}
<1>4. T \in SUBSET Objs /\ S \cap Objs \subseteq T
  BY <1>3
<1>5. Closed(T)
  BY DEF Closed, Parentless, IInv, TypeOK
<1> QED
  BY <1>2, <1>4, <1>5 DEF ReachedFrom

LEMMA AtMostOne == ASSUME NEW h, Witnesses \subseteq {h} PROVE SeenByOneAtMost
<1>1. IsFiniteSet({h}) /\ Cardinality({h}) = 1
  BY FS_Singleton
<1>2. Cardinality(Witnesses) <= Cardinality({h})
  BY <1>1, FS_Subset
<1> QED
  BY <1>1, <1>2 DEF SeenByOneAtMost

(* A change through one Value is seen through no other, whatever shares    *)
(* its storage (vector.rs:9-10).                                           *)
THEOREM PrivateChanges == Spec => ChangesStayPrivate
<1>1. ASSUME IInv, NEW c \in Objs, Parentless(c), OnlyAt(c), env # c,
             \A i \in DOMAIN args : args[i] # c, NEW f,
             \A g \in Handles : handle[g] = c => g = f
      PROVE  SeenByOneAtMost
  <2>1. ASSUME NEW w \in Witnesses PROVE w = f
    <3>1. CASE w \in Handles /\ ~SameContents(ReachedFrom({handle[w]}))
      <4>1. c \in {handle[w]}
        BY <1>1, <3>1, SeenThrough
      <4> QED
        BY <1>1, <3>1, <4>1
    <3>2. CASE w \in {<<env>>, args} /\ ~SameContents(ReachedFrom({w[i] : i \in DOMAIN w}))
      <4>1. c \in {w[i] : i \in DOMAIN w}
        BY <1>1, <3>2, SeenThrough
      <4>2. PICK i \in DOMAIN w : w[i] = c
        BY <4>1
      <4>3. CASE w = <<env>>
        BY <1>1, <4>2, <4>3
      <4>4. CASE w = args
        BY <1>1, <4>2, <4>4
      <4> QED
        BY <3>2, <4>3, <4>4
    <3> QED
      BY <2>1, <3>1, <3>2 DEF Witnesses
  <2>2. Witnesses \subseteq {f}
    BY <2>1
  <2> QED
    BY <2>2, AtMostOne
<1>2. ASSUME IInv, NEW c \in Objs, Parentless(c), OnlyAt(c), env # c,
             \A i \in DOMAIN args : args[i] # c, \A g \in Handles : handle[g] # c
      PROVE  SeenByOneAtMost
  <2>1. \A g \in Handles : handle[g] = c => g = c
    BY <1>2
  <2> QED
    BY <1>1, <1>2, <2>1
<1>3. ASSUME IInv, Next PROVE SetNullStep \/ SeenByOneAtMost
  <2>1. CASE UNCHANGED <<kind, data, kids>>
    <3>1. \A S : SameContents(S)
      BY <2>1 DEF SameContents, Contents, CellsOf
    <3>2. Witnesses = {}
      BY <3>1 DEF Witnesses
    <3> QED
      BY <3>2, AtMostOne
  <2>2. CASE \E n \in Objs : kind[n] = "free" /\ OnlyAt(n)
    <3>1. PICK n \in Objs : kind[n] = "free" /\ OnlyAt(n)
      BY <2>2
    <3>2. /\ Parentless(n) /\ env # n /\ \A i \in DOMAIN args : args[i] # n
          /\ \A h \in Handles : handle[h] # n
      BY <1>3, <3>1, FreeUnreferenced DEF IInv, Parentless
    <3> QED
      BY <1>2, <1>3, <3>1, <3>2
  <2>3. CASE releasing # <<>> /\ rc[Head(releasing)] = 1 /\ OnlyAt(Head(releasing))
    <3>1. 1 \in DOMAIN releasing /\ releasing[1] = Head(releasing) /\ releasing[1] \in Objs
      BY <1>3, <2>3 DEF IInv, TypeOK
    <3>2. /\ Parentless(releasing[1]) /\ env # releasing[1]
          /\ \A i \in DOMAIN args : args[i] # releasing[1]
          /\ \A h \in Handles : handle[h] # releasing[1]
      BY <1>3, <2>3, <3>1, SoleRelease DEF IInv, Parentless
    <3> QED
      BY <1>2, <1>3, <2>3, <3>1, <3>2
  <2>4. CASE \E h \in Handles : handle[h] \in Objs /\ rc[handle[h]] = 1 /\ OnlyAt(handle[h])
    <3>1. PICK h \in Handles : handle[h] \in Objs /\ rc[handle[h]] = 1 /\ OnlyAt(handle[h])
      BY <2>4
    <3>2. /\ Parentless(handle[h]) /\ env # handle[h]
          /\ \A i \in DOMAIN args : args[i] # handle[h]
          /\ \A g \in Handles : handle[g] = handle[h] => g = h
      BY <1>3, <3>1, SoleReference DEF IInv, Parentless
    <3> QED
      BY <1>1, <1>3, <3>1, <3>2
  <2> QED
    BY <1>3, <2>1, <2>2, <2>3, <2>4, StepEffect DEF Effect
<1> QED
  BY <1>3, Invariance, PTL DEF Spec, ChangesStayPrivate

=============================================================================
