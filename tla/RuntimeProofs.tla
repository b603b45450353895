---------------------------- MODULE RuntimeProofs ----------------------------
(***************************************************************************)
(* Theorems about Runtime.tla for any set of threads and any number of     *)
(* runtimes: mutual exclusion of scopes, soundness of the thread check and *)
(* of the teardown order, and that the mechanism implements ScopeLock.     *)
(***************************************************************************)
EXTENDS Runtime, TLAPS

(* The steps of a scope at which its thread has the core's heap mapped, at *)
(* which OWNS_RUNTIME is set, and at which the runtime may have a loop.    *)
HeapUp == {"own", "body", "dropPoll", "dropCore"}
Owned == {"body", "dropPoll", "dropCore", "disown"}
LoopUp == {"body", "dropPoll"}

(* Only one thread is in a scope, and LIVE says whether any is.            *)
Exclusion ==
  /\ \A t, u \in Threads : InScope(t) /\ InScope(u) => t = u
  /\ live <=> \E t \in Threads : InScope(t)

(* The thread-locals follow the step the thread is at.                     *)
PerThread ==
  \A t \in Threads :
    /\ owns[t] <=> pc[t] \in Owned
    /\ pc[t] \in HeapUp => heap[t] = core /\ core # 0
    /\ pc[t] \notin HeapUp => heap[t] = 0
    /\ handle[t] # 0 => pc[t] = "body" /\ handle[t] = rtPoll
    /\ pc[t] = "create" => created < MaxRuntimes
    /\ last[t] # "nullVM"

(* The process-wide state is up only while some thread accounts for it.    *)
CoreInScope == core # 0 => \E t \in Threads : pc[t] \in HeapUp
LoopInScope ==
  /\ rtPoll # 0 => rtPoll = core /\ \E t \in Threads : pc[t] \in LoopUp
  /\ \A p \in loops : p = rtPoll
  /\ rtPoll # 0 => rtPoll \in loops

IInv == TypeOK /\ Exclusion /\ PerThread /\ CoreInScope /\ LoopInScope

-----------------------------------------------------------------------------
LEMMA InitIInv == Init => IInv
<1> SUFFICES ASSUME Init PROVE IInv
  OBVIOUS
<1> USE BoundAssumption DEF Init, InScope, PCs, Outcomes, OrNone, Runtimes
<1>1. TypeOK
  <2>1. live \in BOOLEAN /\ owns \in [Threads -> BOOLEAN] /\ loops \in SUBSET Runtimes
    BY Zenon
  <2>2. /\ created \in OrNone /\ core \in OrNone /\ rtPoll \in OrNone
        /\ heap \in [Threads -> OrNone] /\ handle \in [Threads -> OrNone]
        /\ stash \in [Threads -> OrNone]
    OBVIOUS
  <2>3. pc \in [Threads -> PCs] /\ last \in [Threads -> Outcomes]
    OBVIOUS
  <2> QED
    BY <2>1, <2>2, <2>3 DEF TypeOK
<1>2. Exclusion
  BY DEF Exclusion
<1>3. PerThread
  BY DEF PerThread, Owned, HeapUp
<1>4. CoreInScope /\ LoopInScope
  BY DEF CoreInScope, LoopInScope
<1> QED
  BY <1>1, <1>2, <1>3, <1>4 DEF IInv

(* One action at a time, each on the whole invariant.                      *)
LEMMA StepIInv == IInv /\ [Next]_vars => IInv'
<1> SUFFICES ASSUME IInv, [Next]_vars PROVE IInv'
  OBVIOUS
<1> USE BoundAssumption
    DEF IInv, TypeOK, Exclusion, PerThread, CoreInScope, LoopInScope, InScope,
        PCs, Outcomes, OrNone, Runtimes, Owned, HeapUp, LoopUp,
        Goto, Ends, InUserCode, OnRuntimeThread, scopeVars, pollVars
<1>1. ASSUME NEW t \in Threads, WinLive(t) PROVE IInv'
  BY <1>1 DEF WinLive
<1>2. ASSUME NEW t \in Threads, RefuseScope(t) PROVE IInv'
  BY <1>2 DEF RefuseScope
<1>3. ASSUME NEW t \in Threads, CreateCore(t) PROVE IInv'
  <2> USE <1>3 DEF CreateCore
  <2>1. TypeOK'
    OBVIOUS
  <2>2. Exclusion'
    OBVIOUS
  <2>3. PerThread'
    OBVIOUS
  <2>4. CoreInScope' /\ LoopInScope'
    OBVIOUS
  <2> QED
    BY <2>1, <2>2, <2>3, <2>4 DEF IInv
<1>4. ASSUME NEW t \in Threads, CreateFails(t) PROVE IInv'
  BY <1>4 DEF CreateFails
<1>5. ASSUME NEW t \in Threads, GiveBackLive(t) PROVE IInv'
  BY <1>5 DEF GiveBackLive
<1>6. ASSUME NEW t \in Threads, SetOwns(t) PROVE IInv'
  BY <1>6 DEF SetOwns
<1>7. ASSUME NEW t \in Threads, EngineCall(t) PROVE IInv'
  BY <1>7 DEF EngineCall
<1>8. ASSUME NEW t \in Threads, InstallPoll(t) PROVE IInv'
  <2> USE <1>8 DEF InstallPoll
  <2>1. /\ core \in Runtimes /\ heap[t] = core /\ pc[t] \in LoopUp
        /\ pc' = pc /\ core' = core
    OBVIOUS
  <2>2. rtPoll' = core /\ core \in loops'
    BY <2>1
  <2>3. loops' \in SUBSET Runtimes /\ \A p \in loops' : p = rtPoll'
    BY <2>1, <2>2
  <2>4. TypeOK'
    BY <2>1, <2>2, <2>3
  <2>5. Exclusion' /\ PerThread'
    BY <2>1, <2>2
  <2>6. CoreInScope' /\ LoopInScope'
    BY <2>1, <2>2, <2>3
  <2> QED
    BY <2>4, <2>5, <2>6 DEF IInv
<1>9. ASSUME NEW t \in Threads, InstallPollFails(t) PROVE IInv'
  BY <1>9 DEF InstallPollFails
<1>10. ASSUME NEW t \in Threads, StashPoll(t) PROVE IInv'
  BY <1>10 DEF StashPoll
<1>11. ASSUME NEW t \in Threads, NEW p, UsePoll(t, p) PROVE IInv'
  BY <1>11 DEF UsePoll
<1>12. ASSUME NEW t \in Threads, EndBody(t) PROVE IInv'
  BY <1>12 DEF EndBody
<1>13. ASSUME NEW t \in Threads, DropPoll(t) PROVE IInv'
  BY <1>13 DEF DropPoll
<1>14. ASSUME NEW t \in Threads, DropCore(t) PROVE IInv'
  BY <1>14 DEF DropCore
<1>15. ASSUME NEW t \in Threads, ClearOwns(t) PROVE IInv'
  BY <1>15 DEF ClearOwns
<1>16. ASSUME NEW t \in Threads, ReleaseLive(t) PROVE IInv'
  BY <1>16 DEF ReleaseLive
<1>17. CASE UNCHANGED vars
  BY <1>17 DEF vars
<1> QED
  BY <1>1, <1>2, <1>3, <1>4, <1>5, <1>6, <1>7, <1>8, <1>9, <1>10, <1>11,
     <1>12, <1>13, <1>14, <1>15, <1>16, <1>17 DEF Next, Internal, Program, UseHandle, UseStash

(* The inductive invariant holds in every reachable state.                 *)
THEOREM Invariance == Spec => []IInv
BY InitIInv, StepIInv, PTL DEF Spec

-----------------------------------------------------------------------------
(* What the invariant is for.                                              *)
LEMMA Consequences ==
  IInv => /\ OneCoreRuntime /\ NoCallWithoutVM /\ LoopWithinRuntime
          /\ LiveCoversTeardown
<1> SUFFICES ASSUME IInv
             PROVE  /\ OneCoreRuntime /\ NoCallWithoutVM /\ LoopWithinRuntime
                    /\ LiveCoversTeardown
  OBVIOUS
<1> USE DEF IInv, TypeOK, Exclusion, PerThread, CoreInScope, LoopInScope,
            InScope, HeapUp, Owned, LoopUp, PCs, OrNone, Runtimes
<1>1. OneCoreRuntime
  BY DEF OneCoreRuntime
<1>2. NoCallWithoutVM
  BY DEF NoCallWithoutVM
<1>3. LoopWithinRuntime
  BY BoundAssumption DEF LoopWithinRuntime
<1>4. LiveCoversTeardown
  BY BoundAssumption DEF LiveCoversTeardown
<1> QED
  BY <1>1, <1>2, <1>3, <1>4

(* Every variable has the type it should.                                  *)
THEOREM TypeCorrect == Spec => []TypeOK
<1>1. IInv => TypeOK
  BY DEF IInv
<1> QED
  BY <1>1, Invariance, PTL

(* No two threads have a heap mapped at once, for any number of threads    *)
(* racing Runtime::scope.                                                  *)
THEOREM OneRuntime == Spec => []OneCoreRuntime
BY Invariance, Consequences, PTL

(* The thread check is sound: no engine call meets a thread without a VM.  *)
THEOREM ThreadCheckSound == Spec => []NoCallWithoutVM
BY Invariance, Consequences, PTL

(* The loop never outlives the heap, a Poll used in its scope points to a  *)
(* loop that exists, and the next scope is refused until the last of the   *)
(* previous one is down.                                                   *)
THEOREM TeardownOrder == Spec => [](LoopWithinRuntime /\ LiveCoversTeardown)
BY Invariance, Consequences, PTL

-----------------------------------------------------------------------------
(* A refused scope is told which mistake it made.                          *)
THEOREM RefusalsTruthful == Spec => RefusalIsTruthful
<1>1. IInv /\ [Next]_vars => [ToldTruth]_vars
  <2> SUFFICES ASSUME IInv, NEW u \in Threads, Internal(u) \/ Program(u),
                      NEW t \in Threads, last'[t] # last[t]
               PROVE  /\ last'[t] = "nested" => InScope(t)
                      /\ last'[t] = "other" => /\ ~InScope(t)
                                               /\ \E w \in Threads \ {t} : InScope(w)
    BY DEF Next, ToldTruth
  <2> USE DEF IInv, TypeOK, Exclusion, PerThread, InScope, Owned, Goto, Ends, InUserCode
  <2>1. CASE RefuseScope(u)
    BY <2>1 DEF RefuseScope
  <2>2. CASE \/ EngineCall(u) \/ InstallPoll(u) \/ InstallPollFails(u)
             \/ UseHandle(u) \/ UseStash(u) \/ GiveBackLive(u)
    BY <2>2 DEF EngineCall, InstallPoll, InstallPollFails, UseHandle, UseStash,
                UsePoll, GiveBackLive
  <2>3. ~(\/ WinLive(u) \/ StashPoll(u) \/ EndBody(u) \/ CreateCore(u) \/ CreateFails(u)
          \/ SetOwns(u) \/ DropPoll(u) \/ DropCore(u) \/ ClearOwns(u) \/ ReleaseLive(u))
    BY DEF WinLive, StashPoll, EndBody, CreateCore, CreateFails, SetOwns, DropPoll,
           DropCore, ClearOwns, ReleaseLive
  <2> QED
    BY <2>1, <2>2, <2>3 DEF Internal, Program
<1> QED
  BY Invariance, <1>1, PTL DEF Spec, RefusalIsTruthful

(* An escaped Poll follows no pointer while its thread has no scope.       *)
THEOREM EscapedInert == Spec => EscapedPollInertOutside
<1>1. IInv /\ [Next]_vars => [InertOutside]_vars
  <2> SUFFICES ASSUME IInv, NEW u \in Threads, Internal(u) \/ Program(u),
                      NEW t \in Threads, pc[t] = "outside", last'[t] # last[t]
               PROVE  last'[t] \notin {"done", "destroyedLoop"}
    BY DEF Next, InertOutside
  <2> USE DEF IInv, TypeOK, PerThread, Owned, Goto, Ends, InUserCode, OnRuntimeThread
  <2>1. CASE \/ EngineCall(u) \/ InstallPoll(u) \/ InstallPollFails(u)
             \/ UseHandle(u) \/ UseStash(u) \/ GiveBackLive(u) \/ RefuseScope(u)
    BY <2>1 DEF EngineCall, InstallPoll, InstallPollFails, UseHandle, UseStash,
                UsePoll, GiveBackLive, RefuseScope
  <2>2. ~(\/ WinLive(u) \/ StashPoll(u) \/ EndBody(u) \/ CreateCore(u) \/ CreateFails(u)
          \/ SetOwns(u) \/ DropPoll(u) \/ DropCore(u) \/ ClearOwns(u) \/ ReleaseLive(u))
    BY DEF WinLive, StashPoll, EndBody, CreateCore, CreateFails, SetOwns, DropPoll,
           DropCore, ClearOwns, ReleaseLive
  <2> QED
    BY <2>1, <2>2 DEF Internal, Program
<1> QED
  BY Invariance, <1>1, PTL DEF Spec, EscapedPollInertOutside

-----------------------------------------------------------------------------
(* The refinement.  Only one thread can be the holder.                     *)
LEMMA HolderIs ==
  ASSUME Exclusion, NEW t \in Threads, InScope(t) PROVE Holder = t
BY DEF Exclusion, Holder

LEMMA NobodyHolds ==
  ASSUME \A t \in Threads : ~InScope(t) PROVE Holder = NoThread
BY DEF Holder

(* LIVE, OWNS_RUNTIME and the core's create and destroy implement a lock:  *)
(* winning the compare-exchange is Enter, giving LIVE back is Leave, and   *)
(* every other step leaves the holder alone.                               *)
THEOREM Refinement == Spec => ImplementsScopeLock
<1>1. Init => Abstract!Init
  BY NobodyHolds DEF Init, InScope, Abstract!Init
<1>2. IInv /\ IInv' /\ [Next]_vars => [Abstract!Next]_Holder
  <2> SUFFICES ASSUME IInv, IInv', [Next]_vars PROVE [Abstract!Next]_Holder
    OBVIOUS
  <2>1. CASE UNCHANGED vars
    BY <2>1 DEF vars, Holder, InScope
  <2>2. ASSUME NEW t \in Threads, Internal(t) \/ Program(t)
        PROVE  [Abstract!Next]_Holder
    <3>1. \A u \in Threads \ {t} : pc'[u] = pc[u]
      BY <2>2 DEF Internal, Program, CreateCore, CreateFails, GiveBackLive, SetOwns,
         DropPoll, DropCore, ClearOwns, ReleaseLive, WinLive, RefuseScope, EngineCall,
         InstallPoll, InstallPollFails, StashPoll, UseHandle, UseStash, UsePoll,
         EndBody, Goto, IInv, TypeOK
    <3>2. CASE ~InScope(t) /\ InScope(t)'
      <4>1. ~live
        BY <2>2, <3>2 DEF Internal, Program, CreateCore, CreateFails, GiveBackLive,
           SetOwns, DropPoll, DropCore, ClearOwns, ReleaseLive, WinLive, RefuseScope,
           EngineCall, InstallPoll, InstallPollFails, StashPoll, UseHandle, UseStash,
           UsePoll, EndBody, InScope
      <4>2. Holder = NoThread
        BY <4>1, NobodyHolds DEF IInv, Exclusion
      <4>3. Holder' = t
        BY <3>2, ThreadsAssumption DEF IInv, Exclusion, Holder
      <4> QED
        BY <4>2, <4>3 DEF Abstract!Next, Abstract!Enter
    <3>3. CASE InScope(t) /\ ~InScope(t)'
      <4>1. Holder = t
        BY <3>3, HolderIs DEF IInv
      <4>2. \A u \in Threads : ~InScope(u)'
        BY <3>1, <3>3 DEF IInv, Exclusion, InScope
      <4>3. Holder' = NoThread
        BY <4>2 DEF Holder
      <4> QED
        BY <4>1, <4>3 DEF Abstract!Next, Abstract!Leave
    <3>4. CASE InScope(t) <=> InScope(t)'
      <4>1. \A u \in Threads : InScope(u) <=> InScope(u)'
        BY <3>1, <3>4 DEF InScope
      <4>2. CASE \E u \in Threads : InScope(u)
        BY <4>1, <4>2 DEF IInv, Exclusion, Holder
      <4>3. CASE \A u \in Threads : ~InScope(u)
        BY <4>1, <4>3 DEF Holder
      <4> QED
        BY <4>2, <4>3
    <3> QED
      BY <3>2, <3>3, <3>4
  <2> QED
    BY <2>1, <2>2 DEF Next
<1> QED
  BY <1>1, <1>2, Invariance, PTL DEF Spec, ImplementsScopeLock, Abstract!Spec
=============================================================================
