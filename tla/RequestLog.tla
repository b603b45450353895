------------------------------ MODULE RequestLog ------------------------------
(***************************************************************************)
(* What a guarded IPC server promises about the requests it evaluates, on  *)
(* one server: one request at a time, at most one reason given for         *)
(* stopping it, and for each request exactly one end in the log, whose     *)
(* verdict agrees with that reason.  IpcGuard.tla implements it with a     *)
(* mutex, a watcher thread and the core's interrupt flag.                  *)
(***************************************************************************)
EXTENDS Sequences

CONSTANTS Reasons,    \* why the server stops a request
          Unstopped,  \* the server has not stopped it
          Idle        \* no request

VARIABLES current,    \* Idle, Unstopped, or the Reason given for stopping it
          log         \* the verdicts not yet drained, oldest first

(* A verdict is "answered", "failed", "client" (cancelled by its client) or *)
(* the reason the server stopped the request for.                          *)
Verdicts(c) == {"answered", "failed"} \cup (IF c = Unstopped THEN {"client"} ELSE {c})

Init == current = Idle /\ log = <<>>

Begin == current = Idle /\ current' = Unstopped /\ UNCHANGED log

Stop == \E by \in Reasons :
          current = Unstopped /\ current' = by /\ UNCHANGED log

End == /\ current # Idle
       /\ current' = Idle
       /\ \E v \in Verdicts(current) : log' = Append(log, v)

Drain == log' = <<>> /\ UNCHANGED current

Next == Begin \/ Stop \/ End \/ Drain

Spec == Init /\ [][Next]_<<current, log>>
=============================================================================
