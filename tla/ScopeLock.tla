------------------------------ MODULE ScopeLock ------------------------------
(***************************************************************************)
(* What Runtime::scope promises, with the mechanism taken away: the core   *)
(* runtime is a resource of the whole process, held by at most one thread  *)
(* at a time, and never handed from one thread to another without being    *)
(* given back in between.  Runtime.tla (LIVE, OWNS_RUNTIME, the core's     *)
(* create and destroy) implements this specification.                      *)
(***************************************************************************)
CONSTANTS Threads,    \* the threads of the embedding process
          NoThread    \* nobody holds the runtime

VARIABLE holder       \* the thread inside Runtime::scope, or NoThread

Init == holder = NoThread

Enter(t) == /\ holder = NoThread
            /\ holder' = t

Leave(t) == /\ holder = t
            /\ holder' = NoThread

Next == \E t \in Threads : Enter(t) \/ Leave(t)

Spec == Init /\ [][Next]_holder
=============================================================================
