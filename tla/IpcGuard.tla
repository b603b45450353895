------------------------------- MODULE IpcGuard -------------------------------
(***************************************************************************)
(* The guarded IPC server: rayforce/src/serve.rs.                          *)
(*                                                                         *)
(* The loop's thread evaluates one thing at a time: the host's own code, a *)
(* request of an IPC client handed to Guard::call by the core's hook, or a *)
(* write on the Q wire.  A watcher thread per server looks at the running  *)
(* request and sets the core's interrupt flag when it is past its budget   *)
(* or its client has closed.  They share the request behind the `running`  *)
(* mutex and nothing orders them otherwise.  Clients, the writer on the Q  *)
(* wire and the clock move at any time.                                    *)
(*                                                                         *)
(* Servers are numbered as ServeIpc::start creates their Shared.  A client *)
(* stands for one connection at a time and for the socket the guard        *)
(* resolves; the frames a client has sent and the loop has not read wait   *)
(* in its socket.                                                          *)
(***************************************************************************)
EXTENDS Naturals, Sequences, FiniteSets

CONSTANTS
  Clients,      \* IPC clients
  NoClient,     \* no client: an fd of -1
  Ports,        \* the ports start may be given
  Budget,       \* ServeIpc::budget in clock ticks, 0 for none (a budget of zero is refused)
  MaxStarts,    \* bound: servers started
  MaxSends,     \* bound: frames each client sends
  MaxPushes,    \* bound: writes on the Q wire
  MaxTime,      \* bound: ticks of the server's Clock
  MaxNest       \* bound: guard calls nested in one request

ASSUME ClientsAssumption == NoClient \notin Clients
ASSUME BoundsAssumption ==
  /\ Budget \in Nat /\ MaxStarts \in Nat /\ MaxSends \in Nat
  /\ MaxPushes \in Nat /\ MaxTime \in Nat /\ MaxNest \in Nat \ {0}

VARIABLES
  (* the process *)
  installed,    \* INSTALLED: the server installed, 0 for None
  hooks,        \* .ipc.on.sync and .ipc.on.async hand requests to the guard
  listening,    \* ports the core listens on: it cannot stop
  started,      \* servers started so far
  server,       \* the IpcServer the host holds, 0 for none
  (* Shared, one per server *)
  running,      \* running[s]: the request registered with s, or NoRun
  ends,         \* ends[s]: the ends recorded and not drained
  stop,         \* stop[s]
  watcher,      \* watcher[s]: where s's watcher thread is, and what it decided
  (* the loop's thread *)
  pc,           \* what it is doing
  depth,        \* guard calls on its stack
  shared,       \* the server the innermost guard call cloned from INSTALLED
  fd,           \* the client connection_fd found for it
  registered,   \* the guard calls on the stack for which begin returned true
  answer,       \* what the last evaluation came to
  taken,        \* the request finish took out of `running`
  serving,      \* the client whose frame the core is dispatching
  (* the core *)
  interrupt,    \* the flag of ray_request_interrupt, until ray_clear_interrupt
  oob,          \* the flag of the client's own cancel
  (* the world *)
  conn,         \* conn[c]: the connection of client c
  inbox,        \* inbox[c]: frames of c not yet read
  sent,         \* sent[c]: frames c has sent so far
  pushes,       \* writes on the Q wire: so far, waiting, and lost to a cancel
  now,          \* the server's Clock
  (* history, read by the properties only *)
  begun,        \* begun[s]: requests registered with s
  drained,      \* drained[s]: ends handed to the host
  asked         \* the client being served has sent its cancel

processVars == <<installed, hooks, listening, started, server>>
sharedVars == <<running, ends, stop, watcher>>
callVars == <<depth, shared, fd, registered, answer, taken, serving>>
coreVars == <<interrupt, oob>>
worldVars == <<conn, inbox, sent, pushes, now>>
historyVars == <<begun, drained, asked>>
vars == <<processVars, sharedVars, pc, callVars, coreVars, worldVars, historyVars>>

Servers == 1..MaxStarts
Reasons == {"budget", "hangup"}
NoRun == [client |-> NoClient, started |-> 0, by |-> "idle"]
Run == [client : Clients \cup {NoClient}, started : 0..MaxTime,
        by : Reasons \cup {"none"}]
End == [verdict : Reasons \cup {"client", "answered", "failed"},
        client : Clients \cup {NoClient}, duration : 0..MaxTime]

LoopPCs == {"host", "joining", "idle", "bare", "write",
            "guard", "fd", "begin", "eval", "finish", "record", "reply"}
WatcherPCs == {"none", "loop", "check", "stopping", "done"}

ProcessOK ==
  /\ installed \in 0..MaxStarts /\ started \in 0..MaxStarts /\ server \in 0..MaxStarts
  /\ hooks \in BOOLEAN /\ listening \in SUBSET Ports

SharedOK ==
  /\ running \in [Servers -> Run \cup {NoRun}]
  /\ ends \in [Servers -> Seq(End)]
  /\ stop \in [Servers -> BOOLEAN]
  /\ watcher \in [Servers -> [pc : WatcherPCs, by : Reasons \cup {"none"}]]

CallOK ==
  /\ pc \in LoopPCs
  /\ depth \in 0..MaxNest /\ shared \in 0..MaxStarts
  /\ fd \in Clients \cup {NoClient} /\ serving \in Clients \cup {NoClient}
  /\ registered \in SUBSET (1..MaxNest)
  /\ answer \in {"ok", "error", "cancel"}
  /\ taken \in Run \cup {NoRun}

WorldOK ==
  /\ interrupt \in BOOLEAN /\ oob \in BOOLEAN
  /\ conn \in [Clients -> {"none", "open", "closed"}]
  /\ inbox \in [Clients -> 0..MaxSends] /\ sent \in [Clients -> 0..MaxSends]
  /\ pushes \in [sent : 0..MaxPushes, waiting : 0..MaxPushes, lost : 0..MaxPushes]
  /\ now \in 0..MaxTime

HistoryOK ==
  /\ begun \in [Servers -> Nat] /\ drained \in [Servers -> Nat] /\ asked \in BOOLEAN

TypeOK == ProcessOK /\ SharedOK /\ CallOK /\ WorldOK /\ HistoryOK

Init ==
  /\ installed = 0 /\ hooks = FALSE /\ listening = {} /\ started = 0 /\ server = 0
  /\ running = [s \in Servers |-> NoRun]
  /\ ends = [s \in Servers |-> <<>>]
  /\ stop = [s \in Servers |-> FALSE]
  /\ watcher = [s \in Servers |-> [pc |-> "none", by |-> "none"]]
  /\ pc = "host" /\ depth = 0 /\ shared = 0
  /\ fd = NoClient /\ serving = NoClient /\ registered = {}
  /\ answer = "ok" /\ taken = NoRun
  /\ interrupt = FALSE /\ oob = FALSE
  /\ conn = [c \in Clients |-> "none"]
  /\ inbox = [c \in Clients |-> 0] /\ sent = [c \in Clients |-> 0]
  /\ pushes = [sent |-> 0, waiting |-> 0, lost |-> 0]
  /\ now = 0
  /\ begun = [s \in Servers |-> 0] /\ drained = [s \in Servers |-> 0]
  /\ asked = FALSE

-----------------------------------------------------------------------------
(* ServeIpc::start, on the host's code.  Every step of it runs on the      *)
(* loop's thread with no watcher there yet, so it is one action per        *)
(* outcome; while a server is installed it is refused and changes nothing. *)

StartOk(p) ==
  /\ pc = "host" /\ installed = 0
  /\ started < MaxStarts
  /\ p \notin listening
  /\ started' = started + 1
  /\ installed' = started' /\ server' = started'
  /\ hooks' = TRUE
  /\ listening' = listening \cup {p}
  /\ watcher' = [watcher EXCEPT ![started'].pc = "loop"]
  /\ UNCHANGED <<running, ends, stop, pc, callVars, coreVars, worldVars, historyVars>>

(* install_hooks, listen or the spawn fails: the hooks are deleted, or at  *)
(* worst still there, and nothing is installed.  A port taken before the   *)
(* spawn failed goes on listening.                                         *)
StartFails(p) ==
  /\ pc = "host" /\ installed = 0
  /\ \/ /\ UNCHANGED listening
     \/ /\ p \notin listening
        /\ listening' = listening \cup {p}
  /\ hooks' \in {FALSE, TRUE}
  /\ installed' = 0
  /\ UNCHANGED <<started, server, sharedVars, pc, callVars, coreVars, worldVars, historyVars>>

(* IpcServer::drain.                                                       *)
DrainEnds ==
  /\ pc = "host" /\ server # 0 /\ ends[server] # <<>>
  /\ drained' = [drained EXCEPT ![server] = @ + Len(ends[server])]
  /\ ends' = [ends EXCEPT ![server] = <<>>]
  /\ UNCHANGED <<processVars, running, stop, watcher, pc, callVars, coreVars, worldVars,
                 begun, asked>>

(* Slip: the drop joins a watcher it has not told to stop.                 *)
DropServerNoStop ==
  /\ pc = "host" /\ server # 0
  /\ pc' = "joining"
  /\ UNCHANGED <<processVars, sharedVars, callVars, coreVars, worldVars, historyVars>>

(* Drop of IpcServer: stop, join the watcher, uninstall_hooks.             *)
DropServer ==
  /\ pc = "host" /\ server # 0
  /\ stop' = [stop EXCEPT ![server] = TRUE]
  /\ pc' = "joining"
  /\ UNCHANGED <<processVars, running, ends, watcher, callVars, coreVars, worldVars, historyVars>>

(* Slip: the watcher is told to stop and not joined.                       *)
JoinedAtOnce ==
  /\ pc = "joining"
  /\ hooks' \in {FALSE, hooks}
  /\ installed' = 0 /\ server' = 0
  /\ pc' = "host"
  /\ UNCHANGED <<listening, started, sharedVars, callVars, coreVars, worldVars, historyVars>>

Joined ==
  /\ pc = "joining"
  /\ watcher[server].pc = "done"
  /\ hooks' \in {FALSE, hooks}
  /\ installed' = 0 /\ server' = 0
  /\ pc' = "host"
  /\ UNCHANGED <<listening, started, sharedVars, callVars, coreVars, worldVars, historyVars>>

-----------------------------------------------------------------------------
(* Poll::run_for and what the core does in it: frames of any client and    *)
(* writes of the Q wire, in an order of its own.                           *)

EnterLoop == pc = "host" /\ pc' = "idle"
             /\ UNCHANGED <<processVars, sharedVars, callVars, coreVars, worldVars, historyVars>>

LeaveLoop == pc = "idle" /\ pc' = "host"
             /\ UNCHANGED <<processVars, sharedVars, callVars, coreVars, worldVars, historyVars>>

Dispatch(c) ==
  /\ pc = "idle" /\ inbox[c] > 0
  /\ inbox' = [inbox EXCEPT ![c] = @ - 1]
  /\ serving' = c
  /\ pc' = IF hooks THEN "guard" ELSE "bare"
  /\ UNCHANGED <<processVars, sharedVars, depth, shared, fd, registered, answer, taken,
                 coreVars, conn, sent, pushes, now, historyVars>>

(* No hook: the core evaluates the request itself.                         *)
BareEnds ==
  /\ pc = "bare" /\ pc' = "reply"
  /\ UNCHANGED <<processVars, sharedVars, callVars, coreVars, worldVars, historyVars>>

(* The answer goes out; the guard call's locals and the client's own       *)
(* cancel are gone with the request.                                       *)
Reply ==
  /\ pc = "reply" /\ pc' = "idle"
  /\ serving' = NoClient
  /\ shared' = 0 /\ fd' = NoClient /\ answer' = "ok"
  /\ oob' = FALSE /\ asked' = FALSE
  /\ UNCHANGED <<processVars, sharedVars, depth, registered, taken, interrupt, worldVars,
                 begun, drained>>

(* The loop has read everything a departed client sent.                    *)
Deregister(c) ==
  /\ pc = "idle" /\ conn[c] = "closed" /\ inbox[c] = 0
  /\ conn' = [conn EXCEPT ![c] = "none"]
  /\ UNCHANGED <<processVars, sharedVars, pc, callVars, coreVars, inbox, sent, pushes, now,
                 historyVars>>

BeginWrite ==
  /\ pc = "idle" /\ pushes.waiting > 0
  /\ pushes' = [pushes EXCEPT !.waiting = @ - 1]
  /\ pc' = "write"
  /\ UNCHANGED <<processVars, sharedVars, callVars, coreVars, conn, inbox, sent, now, historyVars>>

(* A write is evaluated like anything else: a flag left set cancels it.    *)
EndWrite ==
  /\ pc = "write"
  /\ pushes' = IF interrupt THEN [pushes EXCEPT !.lost = @ + 1] ELSE pushes
  /\ pc' = "idle"
  /\ UNCHANGED <<processVars, sharedVars, callVars, coreVars, conn, inbox, sent, now, historyVars>>

-----------------------------------------------------------------------------
(* Guard::call *)

(* The watcher holds the `running` mutex between looking at the request    *)
(* and interrupting it; the loop's sections under it are single steps.     *)
Locked(s) == watcher[s].pc = "stopping"

CloneInstalled ==
  /\ pc = "guard" /\ depth < MaxNest
  /\ depth' = depth + 1
  /\ shared' = installed
  /\ pc' = IF installed = 0 THEN "eval" ELSE "fd"
  /\ UNCHANGED <<processVars, sharedVars, fd, registered, answer, taken, serving, coreVars,
                 worldVars, historyVars>>

(* connection_fd evaluates (.ipc.handle), which a cancel makes fail too.   *)
ConnectionFd ==
  /\ pc = "fd"
  /\ fd' = IF interrupt \/ oob THEN NoClient ELSE serving
  /\ pc' = "begin"
  /\ UNCHANGED <<processVars, sharedVars, depth, shared, registered, answer, taken, serving,
                 coreVars, worldVars, historyVars>>

(* Slip: begin registers a nested call over the request that is running.   *)
BeginOverwrites ==
  /\ pc = "begin" /\ ~Locked(shared)
  /\ running' = [running EXCEPT ![shared] = [client |-> fd, started |-> now, by |-> "none"]]
  /\ registered' = registered \cup {depth}
  /\ begun' = [begun EXCEPT ![shared] = @ + 1]
  /\ pc' = "eval"
  /\ UNCHANGED <<processVars, ends, stop, watcher, depth, shared, fd, answer, taken, serving,
                 coreVars, worldVars, drained, asked>>

(* Shared::begin: refused when a request is running already, which makes   *)
(* this call part of it.                                                   *)
Begin ==
  /\ pc = "begin" /\ ~Locked(shared)
  /\ \/ /\ running[shared] = NoRun
        /\ running' = [running EXCEPT ![shared] =
                         [client |-> fd, started |-> now, by |-> "none"]]
        /\ registered' = registered \cup {depth}
        /\ begun' = [begun EXCEPT ![shared] = @ + 1]
     \/ /\ running[shared] # NoRun
        /\ UNCHANGED <<running, registered, begun>>
  /\ pc' = "eval"
  /\ UNCHANGED <<processVars, ends, stop, watcher, depth, shared, fd, answer, taken, serving,
                 coreVars, worldVars, drained, asked>>

(* The guard call returns: to the expression that made it, or to the core. *)
Return ==
  /\ depth' = depth - 1
  /\ pc' = IF depth = 1 THEN "reply" ELSE "eval"

(* evaluate: its value or its error, or `cancel` when a flag was seen.     *)
EvalEnds ==
  /\ pc = "eval"
  /\ answer' \in {"ok", "error"} \cup (IF interrupt \/ oob THEN {"cancel"} ELSE {})
  /\ IF depth \in registered
       THEN pc' = "finish" /\ UNCHANGED depth
       ELSE Return
  /\ UNCHANGED <<processVars, sharedVars, shared, fd, registered, taken, serving, coreVars,
                 worldVars, historyVars>>

(* The request reaches .serve.guard again from inside itself.              *)
EvalNests ==
  /\ pc = "eval" /\ depth < MaxNest
  /\ pc' = "guard"
  /\ UNCHANGED <<processVars, sharedVars, callVars, coreVars, worldVars, historyVars>>

(* The request redefines the hooks, which are globals.                     *)
EvalRedefinesHooks ==
  /\ pc = "eval" /\ hooks
  /\ hooks' = FALSE
  /\ UNCHANGED <<installed, listening, started, server, sharedVars, pc, callVars, coreVars,
                 worldVars, historyVars>>

TakeRequest ==
  /\ taken' = running[shared]
  /\ running' = [running EXCEPT ![shared] = NoRun]
  /\ registered' = registered \ {depth}
  /\ IF running[shared] = NoRun
       THEN Return
       ELSE pc' = "record" /\ UNCHANGED depth
  /\ UNCHANGED <<processVars, ends, stop, watcher, shared, fd, answer, serving, worldVars,
                 historyVars>>

(* Slips: finish leaves the core's flag set; finish takes the request with *)
(* the watcher in the middle of stopping it.                               *)
FinishTakeKeepsFlag ==
  pc = "finish" /\ ~Locked(shared) /\ UNCHANGED coreVars /\ TakeRequest
FinishTakeUnlocked ==
  pc = "finish" /\ interrupt' = FALSE /\ oob' = FALSE /\ TakeRequest

(* Shared::finish, under the lock: clear the core's flags, take the request. *)
FinishTake ==
  /\ pc = "finish" /\ ~Locked(shared)
  /\ interrupt' = FALSE /\ oob' = FALSE
  /\ taken' = running[shared]
  /\ running' = [running EXCEPT ![shared] = NoRun]
  /\ registered' = registered \ {depth}
  /\ IF running[shared] = NoRun
       THEN Return
       ELSE pc' = "record" /\ UNCHANGED depth
  /\ UNCHANGED <<processVars, ends, stop, watcher, shared, fd, answer, serving, worldVars,
                 historyVars>>

(* Slip: the reason the watcher left with the request is not looked at.    *)
VerdictWithoutReason ==
  CASE answer = "ok" -> "answered"
    [] answer = "error" -> "failed"
    [] OTHER -> "client"

Verdict ==
  CASE answer = "ok" -> "answered"
    [] answer = "error" -> "failed"
    [] answer = "cancel" /\ taken.by = "none" -> "client"
    [] OTHER -> taken.by

(* The rest of finish: the clock is read again, the end is pushed.         *)
FinishRecord ==
  /\ pc = "record"
  /\ ends' = [ends EXCEPT ![shared] =
                Append(@, [verdict |-> Verdict, client |-> taken.client,
                           duration |-> now - taken.started])]
  /\ taken' = NoRun
  /\ Return
  /\ UNCHANGED <<processVars, running, stop, watcher, shared, fd, registered, answer, serving,
                 coreVars, worldVars, historyVars>>
-----------------------------------------------------------------------------
(* Shared::watch and Shared::check, on the watcher's thread *)

(* The loop's condition.                                                   *)
WatchLoop(s) ==
  /\ watcher[s].pc = "loop"
  /\ watcher' = [watcher EXCEPT ![s].pc = IF stop[s] THEN "done" ELSE "check"]
  /\ UNCHANGED <<processVars, running, ends, stop, pc, callVars, coreVars, worldVars, historyVars>>

PastBudget(run) == Budget # 0 /\ now - run.started >= Budget

(* A peek reads zero bytes only after an orderly close, and only once      *)
(* there is nothing before it to read.                                     *)
PeerGone(c) == c # NoClient /\ conn[c] = "closed" /\ inbox[c] = 0

(* Slips: one of the two reasons is not asked about.                       *)
DecisionByHangup(run) ==
  IF run = NoRun \/ run.by # "none" \/ ~PeerGone(run.client) THEN "none" ELSE "hangup"
DecisionByBudget(run) ==
  IF run = NoRun \/ run.by # "none" \/ ~PastBudget(run) THEN "none" ELSE "budget"

(* check takes the lock; with a reason to stop the request it holds on to  *)
(* it until the interrupt is made, without one it lets go and sleeps.      *)
Decision(run) ==
  IF run = NoRun \/ run.by # "none" THEN "none"
  ELSE IF PastBudget(run) THEN "budget"
  ELSE IF PeerGone(run.client) THEN "hangup"
  ELSE "none"

WatchCheck(s) ==
  /\ watcher[s].pc = "check"
  /\ watcher' = [watcher EXCEPT ![s] =
       [pc |-> IF Decision(running[s]) = "none" THEN "loop" ELSE "stopping",
        by |-> Decision(running[s])]]
  /\ UNCHANGED <<processVars, running, ends, stop, pc, callVars, coreVars, worldVars, historyVars>>

(* Slip: the interrupt is made and the request is not marked, so that the  *)
(* watcher stops it again at every tick.                                   *)
WatchStopUnmarked(s) ==
  /\ watcher[s].pc = "stopping"
  /\ interrupt' = TRUE
  /\ watcher' = [watcher EXCEPT ![s] = [pc |-> "loop", by |-> "none"]]
  /\ UNCHANGED <<processVars, running, ends, stop, pc, callVars, oob, worldVars, historyVars>>

WatchStop(s) ==
  /\ watcher[s].pc = "stopping"
  /\ running' = [running EXCEPT ![s].by = watcher[s].by]
  /\ interrupt' = TRUE
  /\ watcher' = [watcher EXCEPT ![s] = [pc |-> "loop", by |-> "none"]]
  /\ UNCHANGED <<processVars, ends, stop, pc, callVars, oob, worldVars, historyVars>>

-----------------------------------------------------------------------------
(* Clients, the writer and the clock *)

Connect(c) ==
  /\ conn[c] = "none" /\ listening # {}
  /\ conn' = [conn EXCEPT ![c] = "open"]
  /\ UNCHANGED <<processVars, sharedVars, pc, callVars, coreVars, inbox, sent, pushes, now,
                 historyVars>>

Send(c) ==
  /\ conn[c] = "open" /\ sent[c] < MaxSends
  /\ sent' = [sent EXCEPT ![c] = @ + 1]
  /\ inbox' = [inbox EXCEPT ![c] = @ + 1]
  /\ UNCHANGED <<processVars, sharedVars, pc, callVars, coreVars, conn, pushes, now, historyVars>>

(* An orderly close: what was sent before it is still there to be read.    *)
Close(c) ==
  /\ conn[c] = "open"
  /\ conn' = [conn EXCEPT ![c] = "closed"]
  /\ UNCHANGED <<processVars, sharedVars, pc, callVars, coreVars, inbox, sent, pushes, now,
                 historyVars>>

(* The out-of-band cancel: of the request being evaluated, or of one still *)
(* queued, which then never starts.                                        *)
Cancel(c) ==
  /\ conn[c] = "open"
  /\ \/ /\ serving = c /\ pc # "reply"
        /\ oob' = TRUE /\ asked' = TRUE
        /\ UNCHANGED inbox
     \/ /\ serving # c /\ inbox[c] > 0
        /\ inbox' = [inbox EXCEPT ![c] = @ - 1]
        /\ UNCHANGED <<oob, asked>>
  /\ UNCHANGED <<processVars, sharedVars, pc, callVars, interrupt, conn, sent, pushes, now,
                 begun, drained>>

Push ==
  /\ pushes.sent < MaxPushes
  /\ pushes' = [pushes EXCEPT !.sent = @ + 1, !.waiting = @ + 1]
  /\ UNCHANGED <<processVars, sharedVars, pc, callVars, coreVars, conn, inbox, sent, now,
                 historyVars>>

Tick ==
  /\ now < MaxTime
  /\ now' = now + 1
  /\ UNCHANGED <<processVars, sharedVars, pc, callVars, coreVars, conn, inbox, sent, pushes,
                 historyVars>>

-----------------------------------------------------------------------------
HostStep ==
  \/ \E p \in Ports : StartOk(p) \/ StartFails(p)
  \/ DrainEnds \/ DropServer \/ Joined \/ EnterLoop \/ LeaveLoop

DispatchStep ==
  \/ \E c \in Clients : Dispatch(c) \/ Deregister(c)
  \/ BeginWrite

GuardStep ==
  \/ CloneInstalled \/ ConnectionFd \/ Begin \/ FinishTake \/ FinishRecord
  \/ Reply \/ EndWrite

EvalStep == EvalEnds \/ EvalNests \/ EvalRedefinesHooks \/ BareEnds

WatcherStep(s) == WatchLoop(s) \/ WatchCheck(s) \/ WatchStop(s)

WorldStep ==
  \/ \E c \in Clients : Connect(c) \/ Send(c) \/ Close(c) \/ Cancel(c)
  \/ Push \/ Tick

Next ==
  \/ HostStep \/ DispatchStep \/ GuardStep \/ EvalStep \/ WorldStep
  \/ \E s \in Servers : WatcherStep(s)

Spec == Init /\ [][Next]_vars

(* Fairness.  The watcher's thread and the guard's own code run on; the    *)
(* core, once a cancel flag is set, reaches its next check; a join returns *)
(* when the thread has ended.  No evaluation need ever end by itself, and  *)
(* the host, the clients and the clock owe nothing.                        *)
CancelSeen == EvalEnds /\ (interrupt \/ oob)
CancelSeenByRequest == CancelSeen /\ depth = 1

FairSpec ==
  /\ Spec
  /\ \A s \in Servers : WF_vars(WatcherStep(s))
  /\ WF_vars(GuardStep) /\ WF_vars(Joined)
  /\ WF_vars(CancelSeen) /\ SF_vars(CancelSeenByRequest)

-----------------------------------------------------------------------------
(* Safety *)

(* The core's flag is only ever set for the request that is registered and *)
(* marked as stopped, never left for what the loop evaluates next          *)
(* (serve.rs:308-311).                                                     *)
InterruptOnlyInRequest ==
  interrupt => /\ shared # 0
               /\ running[shared] # NoRun
               /\ running[shared].by \in Reasons
               /\ pc \in {"guard", "fd", "begin", "eval", "finish"}

(* No write on the Q wire is cancelled by the guard (serve.rs:20-21).      *)
WritesNeverCancelled == pushes.lost = 0

(* Every request registered ends in the log exactly once, nested guard     *)
(* calls and interrupts notwithstanding: what has begun is drained, in the *)
(* log, running, or between the take and the push of finish.               *)
InFlight(s) == IF running[s] # NoRun \/ (shared = s /\ taken # NoRun) THEN 1 ELSE 0
EveryRequestEndsOnce ==
  \A s \in Servers : begun[s] = drained[s] + Len(ends[s]) + InFlight(s)

(* A watcher runs for the server that is installed and held, and no other: *)
(* none is left over from a server that was dropped or failed to start.    *)
WatcherOfInstalled ==
  /\ installed = server
  /\ \A s \in Servers : watcher[s].pc \notin {"none", "done"} => s = installed
  /\ \A s \in Servers : running[s] # NoRun => s = installed

(* The lock does what the comment on peer_gone relies on: while the        *)
(* watcher is stopping a request the loop is still inside that request, so *)
(* it has neither finished it nor closed its socket.                       *)
StopHitsItsRequest ==
  \A s \in Servers :
    Locked(s) => /\ running[s] # NoRun /\ running[s].by = "none"
                 /\ serving # NoClient
                 /\ watcher[s].by = "hangup" => running[s].client = serving

(* The verdicts in the log are true of the request they end: a budget was  *)
(* spent, a hangup happened, a client asked.                               *)
NewEndsJustified ==
  \A s \in Servers :
    Len(ends'[s]) > Len(ends[s]) =>
      LET end == ends'[s][Len(ends'[s])]
      IN  /\ end.verdict = "budget" => Budget # 0 /\ end.duration >= Budget
          /\ end.verdict = "hangup" => end.client # NoClient /\ conn[end.client] = "closed"
          /\ end.verdict = "client" => asked
VerdictsJustified == [][NewEndsJustified]_vars

(* Liveness *)

(* A request past its budget is over, whatever it evaluates, once the      *)
(* watcher's tick and the core's next check have come (serve.rs:55-57).    *)
OverBudget(s) == running[s] # NoRun /\ PastBudget(running[s])
BudgetEnforced == \A s \in Servers : OverBudget(s) ~> running[s] = NoRun

(* A request whose client closed and left nothing unread is over.          *)
CleanHangup(s) == running[s] # NoRun /\ PeerGone(running[s].client)
CleanHangupStops == \A s \in Servers : CleanHangup(s) ~> running[s] = NoRun

(* serve.rs:18-19, "when its client has closed the connection", and 160-162, *)
(* "a request runs until it ends, its client leaves, or its client cancels *)
(* it": a request whose client has left is over.                           *)
LeftClient(s) ==
  /\ running[s] # NoRun /\ running[s].client # NoClient
  /\ conn[running[s].client] = "closed"
EveryHangupStops == \A s \in Servers : LeftClient(s) ~> running[s] = NoRun

(* Dropping the server returns: the join waits for a watcher that has been *)
(* told to stop and waits for nothing itself.                              *)
DropReturns == pc = "joining" ~> pc = "host"

(* A guard call of the loop is never kept waiting for good by the watcher. *)
LockIsGranted == pc = "finish" ~> pc # "finish"

-----------------------------------------------------------------------------
(* Each server implements the log of one request at a time.                *)
Current(s) ==
  IF running[s] # NoRun THEN running[s].by
  ELSE IF shared = s /\ taken # NoRun THEN taken.by
  ELSE "idle"

VerdictsOf(s) == [i \in DOMAIN ends[s] |-> ends[s][i].verdict]

Log(s) == INSTANCE RequestLog
            WITH Unstopped <- "none", Idle <- "idle", current <- Current(s),
                 log <- VerdictsOf(s)

(* One request at a time, one reason at most, one end each, on every       *)
(* server: RequestLog's Spec, with the quantifier over servers inside.     *)
ImplementsRequestLog ==
  /\ \A s \in Servers : Log(s)!Init
  /\ [][\A s \in Servers : [Log(s)!Next]_<<Current(s), VerdictsOf(s)>>]_vars
=============================================================================
