------------------------------- MODULE Runtime -------------------------------
(***************************************************************************)
(* The life of the core runtime: rayforce/src/runtime.rs, and the handle   *)
(* on its event loop, rayforce/src/poll.rs.                                *)
(*                                                                         *)
(* The C core keeps one process-wide runtime pointer and a VM and a heap   *)
(* that belong to the thread which created it; it checks neither.  The     *)
(* bindings check both: LIVE, process-wide, admits one runtime at a time,  *)
(* and OWNS_RUNTIME, thread-local, admits engine calls from its thread     *)
(* only.  Threads race for LIVE; everything else a thread does between the *)
(* compare-exchange and the release of LIVE is one step per store or core  *)
(* call, so the other threads may run between any two of them.             *)
(*                                                                         *)
(* Runtimes are numbered in the order they are created; a runtime has at   *)
(* most one loop, which bears its number, so a number stands for a pointer *)
(* that is never reused.                                                   *)
(***************************************************************************)
EXTENDS Naturals

CONSTANTS Threads,      \* the threads of the embedding process
          NoThread,     \* not a thread
          MaxRuntimes   \* bound: runtimes created in one behaviour

ASSUME ThreadsAssumption == NoThread \notin Threads
ASSUME BoundAssumption == MaxRuntimes \in Nat

VARIABLES
  live,      \* LIVE
  owns,      \* owns[t]: OWNS_RUNTIME on thread t
  pc,        \* pc[t]: how far thread t is through Runtime::scope
  created,   \* runtimes the core has created so far
  core,      \* the core's __RUNTIME: the runtime it points to, 0 when null
  heap,      \* heap[t]: the runtime whose VM and heap thread t has mapped, or 0
  rtPoll,    \* the loop ray_runtime_get_poll returns, 0 when null
  loops,     \* the loops that exist: created and not yet destroyed
  handle,    \* handle[t]: the loop a Poll in t's scope body points to, or 0
  stash,     \* stash[t]: the loop a Poll in a thread_local of t points to, or 0
  last       \* last[t]: how the last call of t into the bindings ended

vars == <<live, owns, pc, created, core, heap, rtPoll, loops, handle, stash, last>>

Runtimes == 1..MaxRuntimes
OrNone == 0..MaxRuntimes

(* A thread is outside any scope, runs the closure ("body"), or is at one  *)
(* of the steps of Runtime::new and of Runtime's Drop.                     *)
PCs == {"outside", "create", "createFailed", "own", "body",
        "dropPoll", "dropCore", "disown", "release"}

(* How a call ended: refused by scope (nested, other), failed in the core  *)
(* (failed), refused by the thread check (offThread, noRuntime), refused   *)
(* by Poll's check (inert), or through to the engine: on what is there     *)
(* (done), or on a heap or a loop that is not (nullVM, destroyedLoop).     *)
Outcomes == {"none", "nested", "other", "failed", "offThread", "noRuntime",
             "inert", "done", "nullVM", "destroyedLoop"}

TypeOK ==
  /\ live \in BOOLEAN
  /\ owns \in [Threads -> BOOLEAN]
  /\ pc \in [Threads -> PCs]
  /\ created \in OrNone
  /\ core \in OrNone
  /\ heap \in [Threads -> OrNone]
  /\ rtPoll \in OrNone
  /\ loops \in SUBSET Runtimes
  /\ handle \in [Threads -> OrNone]
  /\ stash \in [Threads -> OrNone]
  /\ last \in [Threads -> Outcomes]

Init ==
  /\ live = FALSE
  /\ owns = [t \in Threads |-> FALSE]
  /\ pc = [t \in Threads |-> "outside"]
  /\ created = 0
  /\ core = 0
  /\ heap = [t \in Threads |-> 0]
  /\ rtPoll = 0
  /\ loops = {}
  /\ handle = [t \in Threads |-> 0]
  /\ stash = [t \in Threads |-> 0]
  /\ last = [t \in Threads |-> "none"]

-----------------------------------------------------------------------------
(* Helpers *)

Goto(t, where) == pc' = [pc EXCEPT ![t] = where]
Ends(t, how) == last' = [last EXCEPT ![t] = how]

(* User code runs on t: between calls, in a scope body or outside any.     *)
InUserCode(t) == pc[t] \in {"outside", "body"}

(* Poll::is_current and on_runtime_thread ask the same thread-local.       *)
OnRuntimeThread(t) == owns[t]

scopeVars == <<live, owns, created, core, heap>>
pollVars == <<rtPoll, loops, handle, stash>>

-----------------------------------------------------------------------------
(* Runtime::scope and Runtime::new *)

(* Slip: LIVE is stored, not compared first.                               *)
WinLiveStored(t) ==
  /\ pc[t] = "outside"
  /\ created < MaxRuntimes
  /\ live' = TRUE
  /\ Goto(t, "create")
  /\ UNCHANGED <<owns, created, core, heap, pollVars, last>>

(* The compare-exchange of LIVE, won: false to true in one step.           *)
WinLive(t) ==
  /\ pc[t] = "outside"
  /\ created < MaxRuntimes
  /\ ~live
  /\ live' = TRUE
  /\ Goto(t, "create")
  /\ UNCHANGED <<owns, created, core, heap, pollVars, last>>

(* Slip: every refusal blames another thread.                              *)
RefuseScopeAsOther(t) ==
  /\ InUserCode(t)
  /\ live
  /\ Ends(t, "other")
  /\ UNCHANGED <<scopeVars, pollVars, pc>>

(* The compare-exchange, lost: from outside, or from a scope body that     *)
(* opens a second scope.  OWNS_RUNTIME picks the message.                  *)
RefuseScope(t) ==
  /\ InUserCode(t)
  /\ live
  /\ Ends(t, IF owns[t] THEN "nested" ELSE "other")
  /\ UNCHANGED <<scopeVars, pollVars, pc>>

(* ray_runtime_create: points __RUNTIME at the new runtime whatever it     *)
(* pointed to before, and maps the VM and heap of the calling thread.      *)
CreateCore(t) ==
  /\ pc[t] = "create"
  /\ created' = created + 1
  /\ core' = created'
  /\ heap' = [heap EXCEPT ![t] = created']
  /\ Goto(t, "own")
  /\ UNCHANGED <<live, owns, pollVars, last>>

CreateFails(t) ==
  /\ pc[t] = "create"
  /\ Goto(t, "createFailed")
  /\ UNCHANGED <<scopeVars, pollVars, last>>

(* Slip: the error path of new returns without giving LIVE back.           *)
GiveBackLiveForgotten(t) ==
  /\ pc[t] = "createFailed"
  /\ Goto(t, "outside")
  /\ Ends(t, "failed")
  /\ UNCHANGED <<scopeVars, pollVars>>

(* The null check: LIVE is given back before the error is returned.        *)
GiveBackLive(t) ==
  /\ pc[t] = "createFailed"
  /\ live' = FALSE
  /\ Goto(t, "outside")
  /\ Ends(t, "failed")
  /\ UNCHANGED <<owns, created, core, heap, pollVars>>

SetOwns(t) ==
  /\ pc[t] = "own"
  /\ owns' = [owns EXCEPT ![t] = TRUE]
  /\ Goto(t, "body")
  /\ UNCHANGED <<live, created, core, heap, pollVars, last>>

-----------------------------------------------------------------------------
(* The closure, and code outside any scope *)

(* eval, eval_value, set_global, get_global and every constructor: the     *)
(* thread check, then the engine, on this thread's VM.                     *)
EngineCall(t) ==
  /\ InUserCode(t)
  /\ Ends(t, IF OnRuntimeThread(t)
               THEN IF heap[t] # 0 /\ heap[t] = core THEN "done" ELSE "nullVM"
               ELSE IF live THEN "offThread" ELSE "noRuntime")
  /\ UNCHANGED <<scopeVars, pollVars, pc>>

(* Poll::install, and TcpClient's ensure_poll: adopt the runtime's loop,   *)
(* or create one and install it.                                           *)
InstallPoll(t) ==
  /\ pc[t] = "body"
  /\ OnRuntimeThread(t)
  /\ \/ /\ rtPoll # 0
        /\ UNCHANGED <<rtPoll, loops>>
     \/ /\ rtPoll = 0
        /\ rtPoll' = core
        /\ loops' = loops \cup {core}
  /\ handle' = [handle EXCEPT ![t] = rtPoll']
  /\ Ends(t, "done")
  /\ UNCHANGED <<scopeVars, stash, pc>>

(* ray_poll_create returns null, or the thread has no runtime.             *)
InstallPollFails(t) ==
  /\ InUserCode(t)
  /\ OnRuntimeThread(t) => rtPoll = 0
  /\ Ends(t, "failed")
  /\ UNCHANGED <<scopeVars, pollVars, pc>>

(* The one way a Poll outlives its scope: a thread_local of its thread.    *)
StashPoll(t) ==
  /\ pc[t] = "body"
  /\ handle[t] # 0
  /\ stash' = [stash EXCEPT ![t] = handle[t]]
  /\ UNCHANGED <<scopeVars, rtPoll, loops, handle, pc, last>>

(* Slip: a method without check_current.                                   *)
UsePollUnchecked(t, p) ==
  /\ InUserCode(t)
  /\ p # 0
  /\ Ends(t, IF p \in loops THEN "done" ELSE "destroyedLoop")
  /\ UNCHANGED <<scopeVars, pollVars, pc>>

(* A method of Poll (run_for, exit, holds, selector_data) through the      *)
(* handle p: check_current, then the pointer is followed.                  *)
UsePoll(t, p) ==
  /\ InUserCode(t)
  /\ p # 0
  /\ Ends(t, IF OnRuntimeThread(t)
               THEN IF p \in loops THEN "done" ELSE "destroyedLoop"
               ELSE "inert")
  /\ UNCHANGED <<scopeVars, pollVars, pc>>

UseHandle(t) == UsePoll(t, handle[t])
UseStash(t) == UsePoll(t, stash[t])

-----------------------------------------------------------------------------
(* Slip: the drop forgets the loop.                                        *)
EndBodyKeepsLoop(t) ==
  /\ pc[t] = "body"
  /\ handle' = [handle EXCEPT ![t] = 0]
  /\ Goto(t, "dropCore")
  /\ UNCHANGED <<scopeVars, rtPoll, loops, stash, last>>

(* The end of a scope: the closure returned, failed or is unwinding, and   *)
(* the drop of the guard runs the same way.  What the closure held is gone, *)
(* what it stashed is not.                                                 *)
EndBody(t) ==
  /\ pc[t] = "body"
  /\ handle' = [handle EXCEPT ![t] = 0]
  /\ Goto(t, "dropPoll")
  /\ UNCHANGED <<scopeVars, rtPoll, loops, stash, last>>

DropPoll(t) ==
  /\ pc[t] = "dropPoll"
  /\ rtPoll' = 0
  /\ loops' = loops \ {rtPoll}
  /\ Goto(t, "dropCore")
  /\ UNCHANGED <<scopeVars, handle, stash, last>>

(* ray_runtime_destroy: the heap is unmapped, __RUNTIME is null.           *)
DropCore(t) ==
  /\ pc[t] = "dropCore"
  /\ heap' = [heap EXCEPT ![t] = 0]
  /\ core' = 0
  /\ Goto(t, "disown")
  /\ UNCHANGED <<live, owns, created, pollVars, last>>

(* Slip: OWNS_RUNTIME stays set on the thread whose scope has ended.       *)
ClearOwnsForgotten(t) ==
  /\ pc[t] = "disown"
  /\ Goto(t, "release")
  /\ UNCHANGED <<scopeVars, pollVars, last>>

ClearOwns(t) ==
  /\ pc[t] = "disown"
  /\ owns' = [owns EXCEPT ![t] = FALSE]
  /\ Goto(t, "release")
  /\ UNCHANGED <<live, created, core, heap, pollVars, last>>

ReleaseLive(t) ==
  /\ pc[t] = "release"
  /\ live' = FALSE
  /\ Goto(t, "outside")
  /\ UNCHANGED <<owns, created, core, heap, pollVars, last>>

-----------------------------------------------------------------------------
(* The steps of Runtime::new and Drop, which run to their end by themselves *)
Internal(t) ==
  \/ CreateCore(t) \/ CreateFails(t) \/ GiveBackLive(t) \/ SetOwns(t)
  \/ DropPoll(t) \/ DropCore(t) \/ ClearOwns(t) \/ ReleaseLive(t)

(* What the embedding program chooses to do, if and when it likes.         *)
Program(t) ==
  \/ WinLive(t) \/ RefuseScope(t) \/ EngineCall(t)
  \/ InstallPoll(t) \/ InstallPollFails(t) \/ StashPoll(t)
  \/ UseHandle(t) \/ UseStash(t) \/ EndBody(t)

Next == \E t \in Threads : Internal(t) \/ Program(t)

Spec == Init /\ [][Next]_vars

(* Fairness: a thread inside Runtime::new or Drop is scheduled again.  The *)
(* program owes nothing: a closure may run for ever.                       *)
FairSpec == Spec /\ \A t \in Threads : WF_vars(Internal(t))

-----------------------------------------------------------------------------
(* Properties *)

(* Who is between the compare-exchange and the release of LIVE.            *)
InScope(t) == pc[t] # "outside"

(* The core permits one runtime and enforces nothing (runtime.rs:29-33):   *)
(* no two threads ever have a heap mapped, and a mapped heap is the one    *)
(* __RUNTIME points to, so no runtime was overwritten by a second one.     *)
OneCoreRuntime ==
  \A t, u \in Threads :
    /\ (heap[t] # 0 /\ heap[u] # 0) => t = u
    /\ heap[t] # 0 => heap[t] = core

(* No engine call gets past assert_on_runtime_thread on a thread that has  *)
(* no VM, in any interleaving of scopes on other threads, whichever scope  *)
(* the thread itself has left (runtime.rs:36-47, 243-262).                 *)
NoCallWithoutVM == \A t \in Threads : last[t] # "nullVM"

(* The loop goes down while the heap it releases objects into is mapped    *)
(* (runtime.rs:213-217), and none is left behind: a loop that exists       *)
(* belongs to the runtime that is there, and the Poll a scope's body holds *)
(* points to it.                                                           *)
LoopWithinRuntime ==
  /\ \A p \in loops : p = core /\ p = rtPoll
  /\ \A t \in Threads : pc[t] = "body" /\ handle[t] # 0 => handle[t] \in loops

(* LIVE covers everything it stands for: as long as any of the core's or   *)
(* the thread's state is still up, the next scope is refused.              *)
LiveCoversTeardown ==
  ~live => /\ core = 0
           /\ rtPoll = 0
           /\ loops = {}
           /\ \A t \in Threads : heap[t] = 0 /\ ~owns[t]

(* A refused scope is told the truth (runtime.rs:169-178): "nested" only   *)
(* to the thread whose scope is open, "on another thread" only while       *)
(* another thread is in its scope.                                         *)
ToldTruth ==
  \A t \in Threads :
    last'[t] # last[t] =>
      /\ last'[t] = "nested" => InScope(t)
      /\ last'[t] = "other" => ~InScope(t) /\ \E u \in Threads \ {t} : InScope(u)

RefusalIsTruthful == [][ToldTruth]_vars

(* The doc of Poll (poll.rs:48-51): a Poll that gets out of its scope is   *)
(* inert, "every method returns an error instead of touching a destroyed   *)
(* loop".                                                                  *)
EscapedPollIsInert == \A t \in Threads : last[t] # "destroyedLoop"

(* What the check does give an escaped Poll: with no scope open on its     *)
(* thread, it is refused and follows no pointer.                           *)
InertOutside ==
  \A t \in Threads :
    (pc[t] = "outside" /\ last'[t] # last[t]) => last'[t] \notin {"done", "destroyedLoop"}

EscapedPollInertOutside == [][InertOutside]_vars

(* LIVE is never lost: a scope that failed to open, or that has ended,     *)
(* gives it back, whatever the other threads do, and the process can open  *)
(* a runtime again.                                                        *)
LiveIsGivenBack ==
  (live /\ \A t \in Threads : pc[t] # "body") ~> (~live \/ \E t \in Threads : pc[t] = "body")

-----------------------------------------------------------------------------
(* The abstract specification: the holder is whoever is in a scope.        *)
Holder == IF \E t \in Threads : InScope(t)
            THEN CHOOSE t \in Threads : InScope(t)
            ELSE NoThread

Abstract == INSTANCE ScopeLock WITH holder <- Holder

(* The runtime's scopes are mutually exclusive tenures of one resource.    *)
ImplementsScopeLock == Abstract!Spec
=============================================================================
