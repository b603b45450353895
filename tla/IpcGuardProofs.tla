---------------------------- MODULE IpcGuardProofs ----------------------------
(***************************************************************************)
(* Theorems about IpcGuard.tla, for any clients, budget and bounds: the    *)
(* interrupt flag never outlives the request it is for, every request ends *)
(* once, and the verdicts are justified.                                   *)
(***************************************************************************)
EXTENDS IpcGuard, TLAPS

Requesting == {"guard", "fd", "begin", "eval", "finish", "record", "reply", "bare"}
Registering == {"guard", "fd", "begin", "eval", "finish"}

(* The host's handle, INSTALLED and the watcher's thread go together.      *)
Tenure ==
  /\ installed = server
  /\ server <= started
  /\ pc = "joining" => server # 0
  /\ \A s \in Servers : watcher[s].pc \notin {"none", "done"} => s = installed

(* The guard calls on the stack: the outermost one registers the request,  *)
(* and the mutex holds a request exactly while it is on the stack.         *)
Stack ==
  /\ depth >= 1 => shared = installed /\ pc \in Registering \cup {"record"}
  /\ pc \in {"fd", "begin", "eval", "finish", "record"} => depth >= 1
  /\ pc \in {"fd", "begin", "finish", "record"} => shared # 0
  /\ registered \subseteq {1}
  /\ registered # {} => depth >= 1 /\ shared # 0 /\ pc \in Registering
  /\ pc = "finish" => depth = 1 /\ registered = {1}
  /\ pc = "record" => depth = 1
  /\ shared # 0 /\ (depth >= 2 \/ (depth = 1 /\ pc \in {"guard", "eval"}))
       => registered = {1}
  /\ taken # NoRun <=> pc = "record"
  /\ \A s \in Servers : running[s] # NoRun <=> (registered # {} /\ s = shared)

(* Whose request it is, and since when.                                    *)
OfClient(run) == run.client \in {serving, NoClient} /\ run.started <= now
Request ==
  /\ pc \in Requesting <=> serving # NoClient
  /\ pc = "begin" => fd \in {serving, NoClient}
  /\ \A s \in Servers : running[s] # NoRun => OfClient(running[s])
  /\ taken # NoRun => OfClient(taken)

(* The core's flags are up only for the request that is registered, and    *)
(* the watcher holds the lock only over a request it has not stopped yet.  *)
Flags ==
  /\ interrupt => registered # {} /\ running[shared].by \in Reasons
  /\ \A s \in Servers :
       Locked(s) => /\ running[s] # NoRun /\ running[s].by = "none"
                    /\ watcher[s].by \in Reasons
  /\ oob => asked

World ==
  /\ pushes.lost = 0 /\ pushes.waiting <= pushes.sent
  /\ \A c \in Clients : inbox[c] <= sent[c]

(* A reason that is given is true, and stays true while the request lasts. *)
True(run, by) ==
  /\ by = "budget" => PastBudget(run)
  /\ by = "hangup" => /\ run.client # NoClient /\ run.client \in Clients
                      /\ conn[run.client] = "closed"
Truth ==
  /\ \A s \in Servers : running[s] # NoRun => True(running[s], running[s].by)
  /\ \A s \in Servers : Locked(s) => True(running[s], watcher[s].by)
  /\ taken # NoRun => True(taken, taken.by)
  /\ pc = "finish" /\ answer = "cancel" => asked \/ running[shared].by \in Reasons
  /\ pc = "record" /\ answer = "cancel" => asked \/ taken.by \in Reasons

IInv == TypeOK /\ Tenure /\ Stack /\ Request /\ Flags /\ World

-----------------------------------------------------------------------------
LEMMA InitIInv == Init => IInv
<1> SUFFICES ASSUME Init PROVE IInv
  OBVIOUS
<1> USE BoundsAssumption DEF Init, Servers, Run, NoRun, Reasons, LoopPCs, WatcherPCs, End
<1>1. TypeOK
  <2>1. hooks \in BOOLEAN /\ interrupt \in BOOLEAN /\ oob \in BOOLEAN /\ asked \in BOOLEAN
        /\ stop \in [Servers -> BOOLEAN] /\ listening \in SUBSET Ports
        /\ registered \in SUBSET (1..MaxNest)
    BY Zenon
  <2>2. running \in [Servers -> Run \cup {NoRun}] /\ taken \in Run \cup {NoRun}
    OBVIOUS
  <2>3. ends \in [Servers -> Seq(End)]
    OBVIOUS
  <2>4. watcher \in [Servers -> [pc : WatcherPCs, by : Reasons \cup {"none"}]]
    OBVIOUS
  <2>5. pushes \in [sent : 0..MaxPushes, waiting : 0..MaxPushes, lost : 0..MaxPushes]
    OBVIOUS
  <2>6. /\ conn \in [Clients -> {"none", "open", "closed"}]
        /\ inbox \in [Clients -> 0..MaxSends] /\ sent \in [Clients -> 0..MaxSends]
        /\ begun \in [Servers -> Nat] /\ drained \in [Servers -> Nat]
    OBVIOUS
  <2> QED
    BY <2>1, <2>2, <2>3, <2>4, <2>5, <2>6 DEF TypeOK, ProcessOK, SharedOK, CallOK,
        WorldOK, HistoryOK
<1>2. Tenure /\ Stack /\ Request /\ Flags /\ World
  BY DEF Tenure, Stack, Request, Flags, World, Locked, Requesting
<1> QED
  BY <1>1, <1>2 DEF IInv

(* A request that is registered is not NoRun.                              *)
LEMMA RunIsNotNoRun ==
  \A c, t : [client |-> c, started |-> t, by |-> "none"] # NoRun
BY DEF NoRun

(* Reading a frame keeps the count of unread ones below that of the sent.  *)
LEMMA FewerIsFewer ==
  ASSUME NEW f \in [Clients -> Nat], NEW g \in [Clients -> Nat], NEW c \in Clients,
         \A k \in Clients : f[k] <= g[k]
  PROVE  \A k \in Clients : [f EXCEPT ![c] = f[c] - 1][k] <= g[k]
OBVIOUS

LEMMA RunFields ==
  ASSUME NEW r \in Run \cup {NoRun}, r # NoRun
  PROVE  r.started \in Nat /\ r.client \in Clients \cup {NoClient} /\ r.by \in Reasons \cup {"none"}
BY BoundsAssumption DEF Run, NoRun

LEMMA TenureStep == IInv /\ [Next]_vars => Tenure'
<1> SUFFICES ASSUME IInv, [Next]_vars PROVE Tenure'
  OBVIOUS
<1> USE BoundsAssumption, ClientsAssumption DEF IInv, TypeOK, ProcessOK, SharedOK,
    CallOK, WorldOK, HistoryOK, Servers, Run, NoRun, Reasons,
        LoopPCs, WatcherPCs, Locked,
        processVars, sharedVars, callVars, coreVars, worldVars, historyVars, Tenure, Stack
<1>1. ASSUME NEW p \in Ports, StartOk(p) PROVE Tenure'
  BY <1>1 DEF StartOk
<1>2. ASSUME NEW p \in Ports, StartFails(p) PROVE Tenure'
  BY <1>2 DEF StartFails
<1>3. ASSUME DrainEnds PROVE Tenure'
  BY <1>3 DEF DrainEnds
<1>4. ASSUME DropServer PROVE Tenure'
  BY <1>4 DEF DropServer
<1>5. ASSUME Joined PROVE Tenure'
  <2>1. server \in Servers /\ installed' = 0 /\ server' = 0 /\ watcher' = watcher
        /\ started' = started /\ pc' = "host"
    BY <1>5 DEF Joined
  <2>2. \A s \in Servers : watcher[s].pc \in {"none", "done"}
    BY <1>5 DEF Joined
  <2> QED
    BY <2>1, <2>2
<1>6. ASSUME EnterLoop PROVE Tenure'
  BY <1>6 DEF EnterLoop
<1>7. ASSUME LeaveLoop PROVE Tenure'
  BY <1>7 DEF LeaveLoop
<1>8. ASSUME NEW c \in Clients, Dispatch(c) PROVE Tenure'
  BY <1>8 DEF Dispatch
<1>9. ASSUME NEW c \in Clients, Deregister(c) PROVE Tenure'
  BY <1>9 DEF Deregister
<1>10. ASSUME BeginWrite PROVE Tenure'
  BY <1>10 DEF BeginWrite
<1>11. ASSUME EndWrite PROVE Tenure'
  BY <1>11 DEF EndWrite
<1>12. ASSUME Reply PROVE Tenure'
  BY <1>12 DEF Reply
<1>13. ASSUME BareEnds PROVE Tenure'
  BY <1>13 DEF BareEnds
<1>14. ASSUME CloneInstalled PROVE Tenure'
  BY <1>14 DEF CloneInstalled
<1>15. ASSUME ConnectionFd PROVE Tenure'
  BY <1>15 DEF ConnectionFd
<1>16. ASSUME Begin PROVE Tenure'
  BY <1>16 DEF Begin
<1>17. ASSUME EvalEnds PROVE Tenure'
  BY <1>17 DEF EvalEnds, Return
<1>18. ASSUME EvalNests PROVE Tenure'
  BY <1>18 DEF EvalNests
<1>19. ASSUME EvalRedefinesHooks PROVE Tenure'
  BY <1>19 DEF EvalRedefinesHooks
<1>20. ASSUME FinishTake PROVE Tenure'
  BY <1>20 DEF FinishTake, Return
<1>21. ASSUME FinishRecord PROVE Tenure'
  BY <1>21 DEF FinishRecord, Return
<1>22. ASSUME NEW s \in Servers, WatchLoop(s) PROVE Tenure'
  BY <1>22 DEF WatchLoop
<1>23. ASSUME NEW s \in Servers, WatchCheck(s) PROVE Tenure'
  BY <1>23 DEF WatchCheck, Decision
<1>24. ASSUME NEW s \in Servers, WatchStop(s) PROVE Tenure'
  BY <1>24 DEF WatchStop
<1>25. ASSUME NEW c \in Clients, Connect(c) PROVE Tenure'
  BY <1>25 DEF Connect
<1>26. ASSUME NEW c \in Clients, Send(c) PROVE Tenure'
  BY <1>26 DEF Send
<1>27. ASSUME NEW c \in Clients, Close(c) PROVE Tenure'
  BY <1>27 DEF Close
<1>28. ASSUME NEW c \in Clients, Cancel(c) PROVE Tenure'
  BY <1>28 DEF Cancel
<1>29. ASSUME Push PROVE Tenure'
  BY <1>29 DEF Push
<1>30. ASSUME Tick PROVE Tenure'
  BY <1>30 DEF Tick
<1>31. CASE UNCHANGED vars
  BY <1>31 DEF vars
<1> QED
  BY <1>1, <1>2, <1>3, <1>4, <1>5, <1>6, <1>7, <1>8, <1>9, <1>10, <1>11, <1>12,
     <1>13, <1>14, <1>15, <1>16, <1>17, <1>18, <1>19, <1>20, <1>21, <1>22, <1>23, <1>24,
     <1>25, <1>26, <1>27, <1>28, <1>29, <1>30, <1>31
     DEF Next, HostStep, DispatchStep, GuardStep, EvalStep, WatcherStep, WorldStep

LEMMA StackStep == IInv /\ [Next]_vars => Stack'
<1> SUFFICES ASSUME IInv, [Next]_vars PROVE Stack'
  OBVIOUS
<1> USE BoundsAssumption DEF IInv, TypeOK, ProcessOK, SharedOK, CallOK, WorldOK,
    HistoryOK, Servers, Tenure, Stack, Registering, Locked,
        processVars, sharedVars, callVars, coreVars, worldVars, historyVars
<1>1. ASSUME NEW p \in Ports, StartOk(p) PROVE Stack'
  BY <1>1 DEF StartOk
<1>2. ASSUME NEW p \in Ports, StartFails(p) PROVE Stack'
  BY <1>2 DEF StartFails
<1>3. ASSUME DrainEnds PROVE Stack'
  BY <1>3 DEF DrainEnds
<1>4. ASSUME DropServer PROVE Stack'
  BY <1>4 DEF DropServer
<1>5. ASSUME Joined PROVE Stack'
  BY <1>5 DEF Joined
<1>6. ASSUME EnterLoop PROVE Stack'
  BY <1>6 DEF EnterLoop
<1>7. ASSUME LeaveLoop PROVE Stack'
  BY <1>7 DEF LeaveLoop
<1>8. ASSUME NEW c \in Clients, Dispatch(c) PROVE Stack'
  <2>1. pc' \in {"guard", "bare"} /\ depth = 0 /\ registered = {}
    BY <1>8 DEF Dispatch
  <2> QED
    BY <1>8, <2>1 DEF Dispatch
<1>9. ASSUME NEW c \in Clients, Deregister(c) PROVE Stack'
  BY <1>9 DEF Deregister
<1>10. ASSUME BeginWrite PROVE Stack'
  BY <1>10 DEF BeginWrite
<1>11. ASSUME EndWrite PROVE Stack'
  BY <1>11 DEF EndWrite
<1>12. ASSUME Reply PROVE Stack'
  BY <1>12 DEF Reply
<1>13. ASSUME BareEnds PROVE Stack'
  BY <1>13 DEF BareEnds
<1>14. ASSUME CloneInstalled PROVE Stack'
  BY <1>14 DEF CloneInstalled
<1>15. ASSUME ConnectionFd PROVE Stack'
  BY <1>15 DEF ConnectionFd
<1>16. ASSUME Begin PROVE Stack'
  <2> USE <1>16 DEF Begin, TypeOK, ProcessOK, SharedOK, CallOK, WorldOK, HistoryOK, Servers
  <2>1. CASE running[shared] = NoRun
    <3>0. shared \in Servers /\ depth \in Nat
      OBVIOUS
    <3>1. registered = {}
      BY <2>1, <3>0
    <3>2. depth = 1 /\ 1 \notin registered
      BY <3>0, <3>1
    <3>3. registered' = {1}
      BY <2>1, <3>1, <3>2
    <3>4. running'[shared] # NoRun
      <4>1. running'[shared] = [client |-> fd, started |-> now, by |-> "none"]
        BY <2>1, <3>0
      <4> QED
        BY <4>1, RunIsNotNoRun
    <3>5. \A s \in Servers : s # shared => running'[s] = NoRun
      BY <2>1, <3>1
    <3> QED
      BY <3>0, <3>2, <3>3, <3>4, <3>5
  <2>2. CASE running[shared] # NoRun
    <3>1. shared \in Servers
      OBVIOUS
    <3>2. registered # {}
      BY <2>2, <3>1
    <3>3. registered = {1}
      <4>1. \A d \in registered : d = 1
        OBVIOUS
      <4>2. 1 \in registered
        BY <3>2, <4>1
      <4> QED
        BY <4>1, <4>2, Zenon
    <3>4. running' = running /\ registered' = registered /\ pc' = "eval"
      BY <2>2
    <3> QED
      BY <3>3, <3>4
  <2> QED
    BY <2>1, <2>2
<1>17. ASSUME EvalEnds PROVE Stack'
  <2>1. CASE depth \in registered
    BY <1>17, <2>1 DEF EvalEnds
  <2>2. CASE depth \notin registered
    <3>1. depth' = depth - 1 /\ pc' = IF depth = 1 THEN "reply" ELSE "eval"
      BY <1>17, <2>2 DEF EvalEnds, Return
    <3>2. CASE depth = 1
      <4>1. registered = {}
        BY <2>2, <3>2
      <4> QED
        BY <1>17, <3>1, <3>2, <4>1 DEF EvalEnds
    <3>3. CASE depth # 1
      <4>1. depth >= 2 /\ depth' >= 1 /\ pc' = "eval"
        BY <1>17, <3>1, <3>3 DEF EvalEnds
      <4> QED
        BY <1>17, <3>1, <4>1 DEF EvalEnds
    <3> QED
      BY <3>2, <3>3
  <2> QED
    BY <2>1, <2>2
<1>18. ASSUME EvalNests PROVE Stack'
  BY <1>18 DEF EvalNests
<1>19. ASSUME EvalRedefinesHooks PROVE Stack'
  BY <1>19 DEF EvalRedefinesHooks
<1>20. ASSUME FinishTake PROVE Stack'
  <2> USE <1>20 DEF FinishTake, TypeOK, ProcessOK, SharedOK, CallOK, WorldOK, HistoryOK,
      Servers
  <2>0. shared \in Servers /\ depth = 1 /\ registered = {1}
    OBVIOUS
  <2>1. running[shared] # NoRun /\ registered' = {}
    BY <2>0
  <2>2. taken' # NoRun /\ pc' = "record" /\ depth' = 1
    BY <2>1
  <2>3. \A s \in Servers : running'[s] = NoRun
    BY <2>0, <2>1
  <2>4. shared' = shared /\ installed' = installed
    OBVIOUS
  <2> QED
    BY <2>0, <2>1, <2>2, <2>3, <2>4
<1>21. ASSUME FinishRecord PROVE Stack'
  <2>1. depth = 1 /\ registered = {} /\ depth' = 0 /\ pc' = "reply" /\ taken' = NoRun
    BY <1>21 DEF FinishRecord, Return
  <2> QED
    BY <1>21, <2>1 DEF FinishRecord
<1>22. ASSUME NEW s \in Servers, WatchLoop(s) PROVE Stack'
  BY <1>22 DEF WatchLoop
<1>23. ASSUME NEW s \in Servers, WatchCheck(s) PROVE Stack'
  BY <1>23 DEF WatchCheck, Decision
<1>24. ASSUME NEW s \in Servers, WatchStop(s) PROVE Stack'
  <2> USE <1>24 DEF WatchStop, TypeOK, ProcessOK, SharedOK, CallOK, WorldOK, HistoryOK,
      Servers
  <2>1. running[s] # NoRun /\ running'[s] # NoRun
    BY DEF Flags, NoRun, Reasons, Run
  <2> QED
    BY <2>1
<1>25. ASSUME NEW c \in Clients, Connect(c) PROVE Stack'
  BY <1>25 DEF Connect
<1>26. ASSUME NEW c \in Clients, Send(c) PROVE Stack'
  BY <1>26 DEF Send
<1>27. ASSUME NEW c \in Clients, Close(c) PROVE Stack'
  BY <1>27 DEF Close
<1>28. ASSUME NEW c \in Clients, Cancel(c) PROVE Stack'
  BY <1>28 DEF Cancel
<1>29. ASSUME Push PROVE Stack'
  BY <1>29 DEF Push
<1>30. ASSUME Tick PROVE Stack'
  BY <1>30 DEF Tick
<1>31. CASE UNCHANGED vars
  BY <1>31 DEF vars
<1> QED
  BY <1>1, <1>2, <1>3, <1>4, <1>5, <1>6, <1>7, <1>8, <1>9, <1>10, <1>11, <1>12,
     <1>13, <1>14, <1>15, <1>16, <1>17, <1>18, <1>19, <1>20, <1>21, <1>22, <1>23, <1>24,
     <1>25, <1>26, <1>27, <1>28, <1>29, <1>30, <1>31
     DEF Next, HostStep, DispatchStep, GuardStep, EvalStep, WatcherStep, WorldStep

LEMMA RequestStep == IInv /\ [Next]_vars => Request'
<1> SUFFICES ASSUME IInv, [Next]_vars PROVE Request'
  OBVIOUS
<1> USE DEF IInv, Stack, Request, OfClient, Requesting, Registering, Tenure,
        processVars, sharedVars, callVars, coreVars, worldVars, historyVars
<1>1. ASSUME NEW p \in Ports, StartOk(p) PROVE Request'
  BY <1>1 DEF StartOk
<1>2. ASSUME NEW p \in Ports, StartFails(p) PROVE Request'
  BY <1>2 DEF StartFails
<1>3. ASSUME DrainEnds PROVE Request'
  BY <1>3 DEF DrainEnds
<1>4. ASSUME DropServer PROVE Request'
  BY <1>4 DEF DropServer
<1>5. ASSUME Joined PROVE Request'
  BY <1>5 DEF Joined
<1>6. ASSUME EnterLoop PROVE Request'
  BY <1>6 DEF EnterLoop
<1>7. ASSUME LeaveLoop PROVE Request'
  BY <1>7 DEF LeaveLoop
<1>8. ASSUME NEW c \in Clients, Dispatch(c) PROVE Request'
  <2>1. pc' \in {"guard", "bare"} /\ depth = 0 /\ registered = {} /\ serving' = c
        /\ taken = NoRun
    BY <1>8 DEF Dispatch, TypeOK, ProcessOK, SharedOK, CallOK, WorldOK, HistoryOK
  <2> QED
    BY <1>8, <2>1, ClientsAssumption DEF Dispatch, TypeOK, ProcessOK, SharedOK, CallOK,
        WorldOK, HistoryOK
<1>9. ASSUME NEW c \in Clients, Deregister(c) PROVE Request'
  BY <1>9 DEF Deregister
<1>10. ASSUME BeginWrite PROVE Request'
  BY <1>10 DEF BeginWrite
<1>11. ASSUME EndWrite PROVE Request'
  BY <1>11 DEF EndWrite
<1>12. ASSUME Reply PROVE Request'
  BY <1>12 DEF Reply
<1>13. ASSUME BareEnds PROVE Request'
  BY <1>13 DEF BareEnds
<1>14. ASSUME CloneInstalled PROVE Request'
  BY <1>14 DEF CloneInstalled
<1>15. ASSUME ConnectionFd PROVE Request'
  BY <1>15 DEF ConnectionFd
<1>16. ASSUME Begin PROVE Request'
  <2> USE <1>16 DEF Begin, TypeOK, ProcessOK, SharedOK, CallOK, WorldOK, HistoryOK, Servers
  <2>1. \A s \in Servers : running'[s] # NoRun =>
          \/ running'[s] = running[s]
          \/ running'[s] = [client |-> fd, started |-> now, by |-> "none"]
    OBVIOUS
  <2> QED
    BY <2>1
<1>17. ASSUME EvalEnds PROVE Request'
  BY <1>17 DEF EvalEnds, Return
<1>18. ASSUME EvalNests PROVE Request'
  BY <1>18 DEF EvalNests
<1>19. ASSUME EvalRedefinesHooks PROVE Request'
  BY <1>19 DEF EvalRedefinesHooks
<1>20. ASSUME FinishTake PROVE Request'
  <2>0. registered = {1} /\ shared \in Servers /\ pc = "finish"
    BY <1>20 DEF FinishTake, TypeOK, ProcessOK, SharedOK, CallOK, WorldOK, HistoryOK,
        Servers
  <2>1. running[shared] # NoRun /\ pc' = "record"
    BY <1>20, <2>0 DEF FinishTake
  <2>2. OfClient(running[shared]) /\ taken' = running[shared]
    BY <1>20, <2>0, <2>1 DEF FinishTake
  <2>3. \A s \in Servers : running'[s] # NoRun => running'[s] = running[s]
    BY <1>20, <2>1 DEF FinishTake, TypeOK, ProcessOK, SharedOK, CallOK, WorldOK,
        HistoryOK, Servers
  <2> QED
    BY <1>20, <2>1, <2>2, <2>3 DEF FinishTake, TypeOK, ProcessOK, SharedOK, CallOK,
        WorldOK, HistoryOK
<1>21. ASSUME FinishRecord PROVE Request'
  BY <1>21 DEF FinishRecord, Return
<1>22. ASSUME NEW s \in Servers, WatchLoop(s) PROVE Request'
  BY <1>22 DEF WatchLoop
<1>23. ASSUME NEW s \in Servers, WatchCheck(s) PROVE Request'
  BY <1>23 DEF WatchCheck, Decision
<1>24. ASSUME NEW s \in Servers, WatchStop(s) PROVE Request'
  <2> USE <1>24 DEF WatchStop, TypeOK, ProcessOK, SharedOK, CallOK, WorldOK, HistoryOK,
      Servers, Run, NoRun
  <2>1. running[s] # NoRun /\ running'[s].client = running[s].client
        /\ running'[s].started = running[s].started
    BY DEF Flags, Locked
  <2>2. \A u \in Servers : u # s => running'[u] = running[u]
    OBVIOUS
  <2> QED
    BY <2>1, <2>2
<1>25. ASSUME NEW c \in Clients, Connect(c) PROVE Request'
  BY <1>25 DEF Connect
<1>26. ASSUME NEW c \in Clients, Send(c) PROVE Request'
  BY <1>26 DEF Send
<1>27. ASSUME NEW c \in Clients, Close(c) PROVE Request'
  BY <1>27 DEF Close
<1>28. ASSUME NEW c \in Clients, Cancel(c) PROVE Request'
  BY <1>28 DEF Cancel
<1>29. ASSUME Push PROVE Request'
  BY <1>29 DEF Push
<1>30. ASSUME Tick PROVE Request'
  <2> USE <1>30 DEF Tick, TypeOK, ProcessOK, SharedOK, CallOK, WorldOK, HistoryOK, Servers
  <2>1. now' = now + 1 /\ now \in Nat
    OBVIOUS
  <2>2. \A s \in Servers : running[s] # NoRun => running[s].started \in Nat
    BY RunFields
  <2>3. taken # NoRun => taken.started \in Nat
    BY RunFields
  <2> QED
    BY <2>1, <2>2, <2>3
<1>31. CASE UNCHANGED vars
  BY <1>31 DEF vars
<1> QED
  BY <1>1, <1>2, <1>3, <1>4, <1>5, <1>6, <1>7, <1>8, <1>9, <1>10, <1>11, <1>12,
     <1>13, <1>14, <1>15, <1>16, <1>17, <1>18, <1>19, <1>20, <1>21, <1>22, <1>23, <1>24,
     <1>25, <1>26, <1>27, <1>28, <1>29, <1>30, <1>31
     DEF Next, HostStep, DispatchStep, GuardStep, EvalStep, WatcherStep, WorldStep

LEMMA FlagsStep == IInv /\ [Next]_vars => Flags'
<1> SUFFICES ASSUME IInv, [Next]_vars PROVE Flags'
  OBVIOUS
<1> USE DEF IInv, Stack, Flags, Registering, Locked, Reasons, Tenure,
        processVars, sharedVars, callVars, coreVars, worldVars, historyVars, TypeOK,
        ProcessOK, SharedOK, CallOK, WorldOK, HistoryOK, Servers, Run, NoRun
<1>1. ASSUME NEW p \in Ports, StartOk(p) PROVE Flags'
  BY <1>1 DEF StartOk
<1>2. ASSUME NEW p \in Ports, StartFails(p) PROVE Flags'
  BY <1>2 DEF StartFails
<1>3. ASSUME DrainEnds PROVE Flags'
  BY <1>3 DEF DrainEnds
<1>4. ASSUME DropServer PROVE Flags'
  BY <1>4 DEF DropServer
<1>5. ASSUME Joined PROVE Flags'
  BY <1>5 DEF Joined
<1>6. ASSUME EnterLoop PROVE Flags'
  BY <1>6 DEF EnterLoop
<1>7. ASSUME LeaveLoop PROVE Flags'
  BY <1>7 DEF LeaveLoop
<1>8. ASSUME NEW c \in Clients, Dispatch(c) PROVE Flags'
  BY <1>8 DEF Dispatch
<1>9. ASSUME NEW c \in Clients, Deregister(c) PROVE Flags'
  BY <1>9 DEF Deregister
<1>10. ASSUME BeginWrite PROVE Flags'
  BY <1>10 DEF BeginWrite
<1>11. ASSUME EndWrite PROVE Flags'
  BY <1>11 DEF EndWrite
<1>12. ASSUME Reply PROVE Flags'
  BY <1>12 DEF Reply
<1>13. ASSUME BareEnds PROVE Flags'
  BY <1>13 DEF BareEnds
<1>14. ASSUME CloneInstalled PROVE Flags'
  BY <1>14 DEF CloneInstalled
<1>15. ASSUME ConnectionFd PROVE Flags'
  BY <1>15 DEF ConnectionFd
<1>16. ASSUME Begin PROVE Flags'
  <2> USE <1>16 DEF Begin, TypeOK, ProcessOK, SharedOK, CallOK, WorldOK, HistoryOK, Servers
  <2>1. CASE running[shared] = NoRun
    <3>1. interrupt = FALSE /\ registered = {}
      BY <2>1
    <3>2. \A s \in Servers : watcher[s].pc # "stopping"
      BY <3>1
    <3> QED
      BY <3>1, <3>2
  <2>2. CASE running[shared] # NoRun
    BY <2>2
  <2> QED
    BY <2>1, <2>2
<1>17. ASSUME EvalEnds PROVE Flags'
  BY <1>17 DEF EvalEnds, Return
<1>18. ASSUME EvalNests PROVE Flags'
  BY <1>18 DEF EvalNests
<1>19. ASSUME EvalRedefinesHooks PROVE Flags'
  BY <1>19 DEF EvalRedefinesHooks
<1>20. ASSUME FinishTake PROVE Flags'
  BY <1>20 DEF FinishTake, Return
<1>21. ASSUME FinishRecord PROVE Flags'
  BY <1>21 DEF FinishRecord, Return
<1>22. ASSUME NEW s \in Servers, WatchLoop(s) PROVE Flags'
  BY <1>22 DEF WatchLoop
<1>23. ASSUME NEW s \in Servers, WatchCheck(s) PROVE Flags'
  BY <1>23 DEF WatchCheck, Decision
<1>24. ASSUME NEW s \in Servers, WatchStop(s) PROVE Flags'
  BY <1>24 DEF WatchStop
<1>25. ASSUME NEW c \in Clients, Connect(c) PROVE Flags'
  BY <1>25 DEF Connect
<1>26. ASSUME NEW c \in Clients, Send(c) PROVE Flags'
  BY <1>26 DEF Send
<1>27. ASSUME NEW c \in Clients, Close(c) PROVE Flags'
  BY <1>27 DEF Close
<1>28. ASSUME NEW c \in Clients, Cancel(c) PROVE Flags'
  BY <1>28 DEF Cancel
<1>29. ASSUME Push PROVE Flags'
  BY <1>29 DEF Push
<1>30. ASSUME Tick PROVE Flags'
  BY <1>30 DEF Tick
<1>31. CASE UNCHANGED vars
  BY <1>31 DEF vars
<1> QED
  BY <1>1, <1>2, <1>3, <1>4, <1>5, <1>6, <1>7, <1>8, <1>9, <1>10, <1>11, <1>12,
     <1>13, <1>14, <1>15, <1>16, <1>17, <1>18, <1>19, <1>20, <1>21, <1>22, <1>23, <1>24,
     <1>25, <1>26, <1>27, <1>28, <1>29, <1>30, <1>31
     DEF Next, HostStep, DispatchStep, GuardStep, EvalStep, WatcherStep, WorldStep

LEMMA WorldInvStep == IInv /\ [Next]_vars => World'
<1> SUFFICES ASSUME IInv, [Next]_vars PROVE World'
  OBVIOUS
<1> USE BoundsAssumption DEF IInv, TypeOK, ProcessOK, SharedOK, CallOK, WorldOK,
    HistoryOK, World,
        processVars, sharedVars, callVars, coreVars, worldVars, historyVars
<1>1. ASSUME NEW p \in Ports, StartOk(p) PROVE World'
  BY <1>1 DEF StartOk
<1>2. ASSUME NEW p \in Ports, StartFails(p) PROVE World'
  BY <1>2 DEF StartFails
<1>3. ASSUME DrainEnds PROVE World'
  BY <1>3 DEF DrainEnds
<1>4. ASSUME DropServer PROVE World'
  BY <1>4 DEF DropServer
<1>5. ASSUME Joined PROVE World'
  BY <1>5 DEF Joined
<1>6. ASSUME EnterLoop PROVE World'
  BY <1>6 DEF EnterLoop
<1>7. ASSUME LeaveLoop PROVE World'
  BY <1>7 DEF LeaveLoop
<1>8. ASSUME NEW c \in Clients, Dispatch(c) PROVE World'
  BY <1>8 DEF Dispatch
<1>9. ASSUME NEW c \in Clients, Deregister(c) PROVE World'
  BY <1>9 DEF Deregister
<1>10. ASSUME BeginWrite PROVE World'
  BY <1>10 DEF BeginWrite
<1>11. ASSUME EndWrite PROVE World'
  <2>1. ~interrupt
    BY <1>11 DEF EndWrite, Flags, Stack, Registering
  <2> QED
    BY <1>11, <2>1 DEF EndWrite
<1>12. ASSUME Reply PROVE World'
  BY <1>12 DEF Reply
<1>13. ASSUME BareEnds PROVE World'
  BY <1>13 DEF BareEnds
<1>14. ASSUME CloneInstalled PROVE World'
  BY <1>14 DEF CloneInstalled
<1>15. ASSUME ConnectionFd PROVE World'
  BY <1>15 DEF ConnectionFd
<1>16. ASSUME Begin PROVE World'
  BY <1>16 DEF Begin
<1>17. ASSUME EvalEnds PROVE World'
  BY <1>17 DEF EvalEnds, Return
<1>18. ASSUME EvalNests PROVE World'
  BY <1>18 DEF EvalNests
<1>19. ASSUME EvalRedefinesHooks PROVE World'
  BY <1>19 DEF EvalRedefinesHooks
<1>20. ASSUME FinishTake PROVE World'
  BY <1>20 DEF FinishTake, Return
<1>21. ASSUME FinishRecord PROVE World'
  BY <1>21 DEF FinishRecord, Return
<1>22. ASSUME NEW s \in Servers, WatchLoop(s) PROVE World'
  BY <1>22 DEF WatchLoop
<1>23. ASSUME NEW s \in Servers, WatchCheck(s) PROVE World'
  BY <1>23 DEF WatchCheck, Decision
<1>24. ASSUME NEW s \in Servers, WatchStop(s) PROVE World'
  BY <1>24 DEF WatchStop
<1>25. ASSUME NEW c \in Clients, Connect(c) PROVE World'
  BY <1>25 DEF Connect
<1>26. ASSUME NEW c \in Clients, Send(c) PROVE World'
  BY <1>26 DEF Send
<1>27. ASSUME NEW c \in Clients, Close(c) PROVE World'
  BY <1>27 DEF Close
<1>28. ASSUME NEW c \in Clients, Cancel(c) PROVE World'
  <2>1. pushes' = pushes /\ sent' = sent
    BY <1>28 DEF Cancel
  <2>2. inbox' = inbox \/ inbox' = [inbox EXCEPT ![c] = inbox[c] - 1]
    BY <1>28 DEF Cancel
  <2>3. \A k \in Clients : inbox'[k] <= sent[k]
    <3>1. inbox \in [Clients -> Nat] /\ sent \in [Clients -> Nat]
      OBVIOUS
    <3> QED
      BY <2>2, <3>1, FewerIsFewer
  <2> QED
    BY <2>1, <2>3
<1>29. ASSUME Push PROVE World'
  BY <1>29 DEF Push
<1>30. ASSUME Tick PROVE World'
  BY <1>30 DEF Tick
<1>31. CASE UNCHANGED vars
  BY <1>31 DEF vars
<1> QED
  BY <1>1, <1>2, <1>3, <1>4, <1>5, <1>6, <1>7, <1>8, <1>9, <1>10, <1>11, <1>12,
     <1>13, <1>14, <1>15, <1>16, <1>17, <1>18, <1>19, <1>20, <1>21, <1>22, <1>23, <1>24,
     <1>25, <1>26, <1>27, <1>28, <1>29, <1>30, <1>31
     DEF Next, HostStep, DispatchStep, GuardStep, EvalStep, WatcherStep, WorldStep

(* Updating one entry of a function keeps it a function of its set.         *)
LEMMA Update ==
  ASSUME NEW D, NEW R, NEW f \in [D -> R], NEW x \in D, NEW v \in R
  PROVE  [f EXCEPT ![x] = v] \in [D -> R]
OBVIOUS

(* Only a server that has been started is anywhere in the program.         *)
LEMMA KnownServer ==
  IInv => /\ server # 0 => server \in Servers
          /\ shared # 0 => shared \in Servers
          /\ pc \in {"fd", "begin", "finish", "record"} => shared \in Servers
          /\ started < MaxStarts => started + 1 \in Servers
BY BoundsAssumption DEF IInv, TypeOK, ProcessOK, CallOK, Servers, Stack

LEMMA ProcessStep == IInv /\ [Next]_vars => ProcessOK'
<1> SUFFICES ASSUME IInv, [Next]_vars PROVE ProcessOK'
  OBVIOUS
<1> USE BoundsAssumption DEF IInv, TypeOK, Servers, ProcessOK, Tenure, processVars
<1>1. ASSUME NEW p \in Ports, StartOk(p) PROVE ProcessOK'
  BY <1>1 DEF StartOk
<1>2. ASSUME NEW p \in Ports, StartFails(p) PROVE ProcessOK'
  BY <1>2 DEF StartFails
<1>3. ASSUME Joined PROVE ProcessOK'
  <2>1. hooks' = FALSE \/ hooks' = hooks
    BY <1>3, Zenon DEF Joined
  <2>2. hooks' \in BOOLEAN
    BY <2>1
  <2> QED
    BY <1>3, <2>2 DEF Joined
<1>4. ASSUME EvalRedefinesHooks PROVE ProcessOK'
  BY <1>4 DEF EvalRedefinesHooks
<1>5. ASSUME UNCHANGED processVars PROVE ProcessOK'
  BY <1>5
<1> QED
  BY <1>1, <1>2, <1>3, <1>4, <1>5
     DEF Next, HostStep, DispatchStep, GuardStep, EvalStep, WatcherStep, WorldStep, vars,
         DrainEnds, DropServer, EnterLoop, LeaveLoop, Dispatch, Deregister, BeginWrite,
         EndWrite, Reply,
         BareEnds, CloneInstalled, ConnectionFd, Begin, EvalEnds, EvalNests, FinishTake,
         FinishRecord, WatchLoop,
         WatchCheck, WatchStop, Connect, Send, Close, Cancel, Push, Tick

LEMMA SharedStep == IInv /\ [Next]_vars => SharedOK'
<1> SUFFICES ASSUME IInv, [Next]_vars PROVE SharedOK'
  OBVIOUS
<1> USE BoundsAssumption DEF IInv, TypeOK, Servers, SharedOK, sharedVars
<1>1. ASSUME NEW p \in Ports, StartOk(p) PROVE SharedOK'
  <2>1. started' \in Servers /\ watcher[started'] \in [pc : WatcherPCs,
      by : Reasons \cup {"none"}]
    BY <1>1, KnownServer DEF StartOk
  <2>2. [watcher[started'] EXCEPT !.pc = "loop"] \in [pc : WatcherPCs,
      by : Reasons \cup {"none"}]
    BY <2>1 DEF WatcherPCs
  <2>3. watcher' = [watcher EXCEPT ![started'] = [watcher[started'] EXCEPT !.pc = "loop"]]
    BY <1>1 DEF StartOk
  <2>4. watcher' \in [Servers -> [pc : WatcherPCs, by : Reasons \cup {"none"}]]
    BY <2>1, <2>2, <2>3, Update
  <2> QED
    BY <1>1, <2>4 DEF StartOk
<1>2. ASSUME DrainEnds PROVE SharedOK'
  <2>1. server \in Servers /\ <<>> \in Seq(End) /\ ends' = [ends EXCEPT ![server] = <<>>]
    BY <1>2, KnownServer DEF DrainEnds
  <2>2. ends' \in [Servers -> Seq(End)]
    BY <2>1, Update
  <2> QED
    BY <1>2, <2>2 DEF DrainEnds
<1>3. ASSUME DropServer PROVE SharedOK'
  BY <1>3 DEF DropServer
<1>4. ASSUME Begin PROVE SharedOK'
  <2>1. shared \in Servers /\ [client |-> fd, started |-> now, by |-> "none"] \in Run
    BY <1>4, KnownServer DEF Begin, Run, CallOK, WorldOK
  <2>2. running' = [running EXCEPT ![shared] = [client |-> fd, started |-> now,
      by |-> "none"]]
        \/ running' = running
    BY <1>4 DEF Begin
  <2>3. running' \in [Servers -> Run \cup {NoRun}]
    BY <2>1, <2>2, Update
  <2> QED
    BY <1>4, <2>3 DEF Begin
<1>5. ASSUME FinishTake PROVE SharedOK'
  BY <1>5 DEF FinishTake, Return
<1>6. ASSUME FinishRecord PROVE SharedOK'
  <2> DEFINE end == [verdict |-> Verdict, client |-> taken.client,
                     duration |-> now - taken.started]
  <2>1. shared \in Servers /\ taken # NoRun /\ taken \in Run
    BY <1>6, KnownServer DEF FinishRecord, Stack, CallOK
  <2>2. taken.client \in Clients \cup {NoClient} /\ taken.by \in Reasons \cup {"none"}
        /\ taken.started \in 0..MaxTime
    BY <2>1 DEF Run
  <2>3. taken.started <= now /\ now \in 0..MaxTime
    BY <2>1 DEF Request, OfClient, WorldOK
  <2>4. now - taken.started \in 0..MaxTime
    BY <2>2, <2>3
  <2>5. Verdict \in Reasons \cup {"client", "answered", "failed"}
    BY <2>2 DEF Verdict, CallOK
  <2>6. end \in End
    BY <2>2, <2>4, <2>5 DEF End
  <2> HIDE DEF end
  <2>7. Append(ends[shared], end) \in Seq(End)
    BY <2>1, <2>6
  <2>8. ends' = [ends EXCEPT ![shared] = Append(ends[shared], end)]
    BY <1>6 DEF FinishRecord, end
  <2>9. ends' \in [Servers -> Seq(End)]
    BY <2>1, <2>7, <2>8, Update
  <2> QED
    BY <1>6, <2>9 DEF FinishRecord
<1>7. ASSUME NEW s \in Servers, WatchLoop(s) PROVE SharedOK'
  <2>1. watcher[s] \in [pc : WatcherPCs, by : Reasons \cup {"none"}]
    OBVIOUS
  <2>2. [watcher[s] EXCEPT !.pc = IF stop[s] THEN "done" ELSE "check"] \in [pc : WatcherPCs, by : Reasons \cup {"none"}]
    BY <2>1 DEF WatcherPCs
  <2>3. watcher' = [watcher EXCEPT ![s] = [watcher[s] EXCEPT !.pc = IF stop[s] THEN "done" ELSE "check"]]
    BY <1>7 DEF WatchLoop
  <2>4. watcher' \in [Servers -> [pc : WatcherPCs, by : Reasons \cup {"none"}]]
    BY <2>2, <2>3, Update
  <2> QED
    BY <1>7, <2>4 DEF WatchLoop
<1>8. ASSUME NEW s \in Servers, WatchCheck(s) PROVE SharedOK'
  <2>1. watcher' = [watcher EXCEPT ![s] = [pc |-> (IF Decision(running[s]) = "none" THEN "loop" ELSE "stopping"),
                                           by |-> Decision(running[s])]]
    BY <1>8 DEF WatchCheck
  <2>2. [pc |-> (IF Decision(running[s]) = "none" THEN "loop" ELSE "stopping"),
      by |-> Decision(running[s])] \in [pc : WatcherPCs, by : Reasons \cup {"none"}]
    BY DEF Decision, WatcherPCs, Reasons
  <2>3. watcher' \in [Servers -> [pc : WatcherPCs, by : Reasons \cup {"none"}]]
    BY <2>1, <2>2, Update
  <2> QED
    BY <1>8, <2>3 DEF WatchCheck
<1>9. ASSUME NEW s \in Servers, WatchStop(s) PROVE SharedOK'
  <2>1. running[s] \in Run /\ watcher[s].by \in Reasons
    BY <1>9 DEF WatchStop, Flags, Locked
  <2>2. [running[s] EXCEPT !.by = watcher[s].by] \in Run
    BY <2>1 DEF Run
  <2>3. running' = [running EXCEPT ![s] = [running[s] EXCEPT !.by = watcher[s].by]]
    BY <1>9 DEF WatchStop
  <2>4. running' \in [Servers -> Run \cup {NoRun}]
    BY <2>2, <2>3, Update
  <2>5. [pc |-> "loop", by |-> "none"] \in [pc : WatcherPCs, by : Reasons \cup {"none"}]
    BY DEF WatcherPCs
  <2>6. watcher' \in [Servers -> [pc : WatcherPCs, by : Reasons \cup {"none"}]]
    BY <1>9, <2>5, Update DEF WatchStop
  <2> QED
    BY <1>9, <2>4, <2>6 DEF WatchStop
<1>10. ASSUME UNCHANGED sharedVars PROVE SharedOK'
  BY <1>10
<1> QED
  BY <1>1, <1>2, <1>3, <1>4, <1>5, <1>6, <1>7, <1>8, <1>9, <1>10
     DEF Next, HostStep, DispatchStep, GuardStep, EvalStep, WatcherStep, WorldStep, vars,
         StartFails, Joined, EnterLoop, LeaveLoop, Dispatch, Deregister, BeginWrite,
         EndWrite, Reply,
         BareEnds, CloneInstalled, ConnectionFd, EvalEnds, EvalNests, EvalRedefinesHooks,
         Connect, Send, Close,
         Cancel, Push, Tick

LEMMA CallStep == IInv /\ [Next]_vars => CallOK'
<1> SUFFICES ASSUME IInv, [Next]_vars PROVE CallOK'
  OBVIOUS
<1> USE BoundsAssumption DEF IInv, TypeOK, Servers, CallOK, Stack, LoopPCs, callVars
<1>1. ASSUME DropServer PROVE CallOK'
  BY <1>1 DEF DropServer
<1>2. ASSUME Joined PROVE CallOK'
  BY <1>2 DEF Joined
<1>3. ASSUME EnterLoop PROVE CallOK'
  BY <1>3 DEF EnterLoop
<1>4. ASSUME LeaveLoop PROVE CallOK'
  BY <1>4 DEF LeaveLoop
<1>5. ASSUME NEW c \in Clients, Dispatch(c) PROVE CallOK'
  BY <1>5 DEF Dispatch
<1>6. ASSUME BareEnds PROVE CallOK'
  BY <1>6 DEF BareEnds
<1>7. ASSUME Reply PROVE CallOK'
  BY <1>7 DEF Reply
<1>8. ASSUME BeginWrite PROVE CallOK'
  BY <1>8 DEF BeginWrite
<1>9. ASSUME EndWrite PROVE CallOK'
  BY <1>9 DEF EndWrite
<1>10. ASSUME CloneInstalled PROVE CallOK'
  BY <1>10 DEF CloneInstalled, ProcessOK
<1>11. ASSUME ConnectionFd PROVE CallOK'
  BY <1>11 DEF ConnectionFd
<1>12. ASSUME Begin PROVE CallOK'
  <2>1. depth = 1 \/ registered' = registered
    BY <1>12, KnownServer DEF Begin
  <2>2. registered' \in SUBSET (1..MaxNest)
    <3>1. CASE registered' = registered
      BY <3>1
    <3>2. CASE depth = 1 /\ registered' = registered \cup {1}
      <4>1. 1 \in 1..MaxNest
        OBVIOUS
      <4>2. registered \in SUBSET (1..MaxNest)
        OBVIOUS
      <4> QED
        BY <3>2, <4>1, <4>2, Zenon
    <3> QED
      BY <1>12, <2>1, <3>1, <3>2 DEF Begin
  <2> QED
    BY <1>12, <2>2 DEF Begin
<1>13. ASSUME EvalEnds PROVE CallOK'
  BY <1>13 DEF EvalEnds, Return
<1>14. ASSUME EvalNests PROVE CallOK'
  BY <1>14 DEF EvalNests
<1>15. ASSUME FinishTake PROVE CallOK'
  <2>1. depth = 1 /\ shared \in Servers /\ pc' \in {"record", "reply",
      "eval"} /\ depth' \in {0, 1}
    BY <1>15, KnownServer DEF FinishTake, Return
  <2>2. taken' \in Run \cup {NoRun}
    BY <1>15, <2>1 DEF FinishTake, SharedOK
  <2>3. registered' \in SUBSET (1..MaxNest)
    BY <1>15 DEF FinishTake
  <2> QED
    BY <1>15, <2>1, <2>2, <2>3 DEF FinishTake
<1>16. ASSUME FinishRecord PROVE CallOK'
  BY <1>16 DEF FinishRecord, Return
<1>17. ASSUME UNCHANGED <<pc, callVars>> PROVE CallOK'
  BY <1>17
<1> QED
  BY <1>1, <1>2, <1>3, <1>4, <1>5, <1>6, <1>7, <1>8, <1>9, <1>10, <1>11, <1>12, <1>13,
      <1>14, <1>15, <1>16, <1>17
     DEF Next, HostStep, DispatchStep, GuardStep, EvalStep, WatcherStep, WorldStep, vars,
         StartOk, StartFails, DrainEnds, Deregister, EvalRedefinesHooks, WatchLoop,
         WatchCheck, WatchStop, Connect,
         Send, Close, Cancel, Push, Tick

LEMMA WorldStepOK == IInv /\ [Next]_vars => WorldOK'
<1> SUFFICES ASSUME IInv, [Next]_vars PROVE WorldOK'
  OBVIOUS
<1> USE BoundsAssumption DEF IInv, TypeOK, Servers, WorldOK, coreVars, worldVars
<1>1. ASSUME NEW c \in Clients, Dispatch(c) PROVE WorldOK'
  <2>1. inbox[c] - 1 \in 0..MaxSends /\ inbox' = [inbox EXCEPT ![c] = inbox[c] - 1]
    BY <1>1 DEF Dispatch
  <2> QED
    BY <1>1, <2>1, Update DEF Dispatch
<1>2. ASSUME NEW c \in Clients, Deregister(c) PROVE WorldOK'
  BY <1>2 DEF Deregister
<1>3. ASSUME Reply PROVE WorldOK'
  BY <1>3 DEF Reply
<1>4. ASSUME BeginWrite PROVE WorldOK'
  BY <1>4 DEF BeginWrite
<1>5. ASSUME EndWrite PROVE WorldOK'
  <2>1. ~interrupt
    BY <1>5 DEF EndWrite, Flags, Stack, Registering
  <2> QED
    BY <1>5, <2>1 DEF EndWrite
<1>6. ASSUME FinishTake PROVE WorldOK'
  BY <1>6 DEF FinishTake, Return
<1>7. ASSUME NEW s \in Servers, WatchStop(s) PROVE WorldOK'
  BY <1>7 DEF WatchStop
<1>8. ASSUME NEW c \in Clients, Connect(c) PROVE WorldOK'
  BY <1>8 DEF Connect
<1>9. ASSUME NEW c \in Clients, Send(c) PROVE WorldOK'
  <2>1. inbox[c] + 1 \in 0..MaxSends
    BY <1>9 DEF Send, World
  <2>2. inbox' = [inbox EXCEPT ![c] = inbox[c] + 1]
    BY <1>9 DEF Send
  <2>3. inbox' \in [Clients -> 0..MaxSends]
    BY <2>1, <2>2, Update
  <2>4. sent' \in [Clients -> 0..MaxSends]
    BY <1>9 DEF Send
  <2> QED
    BY <1>9, <2>3, <2>4 DEF Send
<1>10. ASSUME NEW c \in Clients, Close(c) PROVE WorldOK'
  BY <1>10 DEF Close
<1>11. ASSUME NEW c \in Clients, Cancel(c) PROVE WorldOK'
  <2>1. CASE inbox' = inbox
    BY <1>11, <2>1 DEF Cancel
  <2>2. CASE inbox' # inbox
    <3>1. inbox[c] > 0 /\ inbox' = [inbox EXCEPT ![c] = inbox[c] - 1] /\ oob' = oob
      BY <1>11, <2>2 DEF Cancel
    <3>2. inbox[c] - 1 \in 0..MaxSends
      BY <3>1
    <3>3. inbox' \in [Clients -> 0..MaxSends]
      BY <3>1, <3>2, Update
    <3> QED
      BY <1>11, <3>1, <3>3 DEF Cancel
  <2> QED
    BY <2>1, <2>2
<1>12. ASSUME Push PROVE WorldOK'
  <2>1. pushes.sent + 1 \in 0..MaxPushes /\ pushes.waiting + 1 \in 0..MaxPushes
    BY <1>12 DEF Push, World
  <2>2. pushes' = [pushes EXCEPT !.sent = pushes.sent + 1, !.waiting = pushes.waiting + 1]
    BY <1>12 DEF Push
  <2>3. pushes' \in [sent : 0..MaxPushes, waiting : 0..MaxPushes, lost : 0..MaxPushes]
    BY <2>1, <2>2
  <2> QED
    BY <1>12, <2>3 DEF Push
<1>13. ASSUME Tick PROVE WorldOK'
  BY <1>13 DEF Tick
<1>14. ASSUME UNCHANGED <<coreVars, worldVars>> PROVE WorldOK'
  BY <1>14
<1> QED
  BY <1>1, <1>2, <1>3, <1>4, <1>5, <1>6, <1>7, <1>8, <1>9, <1>10, <1>11, <1>12, <1>13, <1>14
     DEF Next, HostStep, DispatchStep, GuardStep, EvalStep, WatcherStep, WorldStep, vars,
         StartOk, StartFails, DrainEnds, DropServer, Joined, EnterLoop, LeaveLoop,
         BareEnds, CloneInstalled,
         ConnectionFd, Begin, EvalEnds, EvalNests, EvalRedefinesHooks, FinishRecord,
         WatchLoop, WatchCheck

LEMMA HistoryStep == IInv /\ [Next]_vars => HistoryOK'
<1> SUFFICES ASSUME IInv, [Next]_vars PROVE HistoryOK'
  OBVIOUS
<1> USE BoundsAssumption DEF IInv, TypeOK, Servers, HistoryOK, historyVars
<1>1. ASSUME DrainEnds PROVE HistoryOK'
  <2>1. server \in Servers /\ ends[server] \in Seq(End)
    BY <1>1, KnownServer DEF DrainEnds, SharedOK
  <2>2. drained[server] + Len(ends[server]) \in Nat
    BY <2>1
  <2>3. drained' \in [Servers -> Nat]
    BY <1>1, <2>1, <2>2, Update DEF DrainEnds
  <2> QED
    BY <1>1, <2>3 DEF DrainEnds
<1>2. ASSUME Reply PROVE HistoryOK'
  BY <1>2 DEF Reply
<1>3. ASSUME Begin PROVE HistoryOK'
  <2>0. pc = "begin"
    BY <1>3 DEF Begin
  <2>a. shared \in 1..MaxStarts
    BY <2>0, KnownServer
  <2>b. begun[shared] \in Nat
    BY <2>a
  <2>1. shared \in Servers /\ begun[shared] + 1 \in Nat
    BY <2>a, <2>b
  <2>2. begun' = begun \/ begun' = [begun EXCEPT ![shared] = begun[shared] + 1]
    BY <1>3 DEF Begin
  <2>3. begun' \in [Servers -> Nat]
    BY <2>1, <2>2, Update
  <2> QED
    BY <1>3, <2>3 DEF Begin
<1>4. ASSUME NEW c \in Clients, Cancel(c) PROVE HistoryOK'
  BY <1>4 DEF Cancel
<1>5. ASSUME UNCHANGED historyVars PROVE HistoryOK'
  BY <1>5
<1> QED
  BY <1>1, <1>2, <1>3, <1>4, <1>5
     DEF Next, HostStep, DispatchStep, GuardStep, EvalStep, WatcherStep, WorldStep, vars,
         StartOk, StartFails, DropServer, Joined, EnterLoop, LeaveLoop, Dispatch,
         Deregister, BeginWrite,
         EndWrite, BareEnds, CloneInstalled, ConnectionFd, EvalEnds, EvalNests,
         EvalRedefinesHooks, FinishTake, FinishRecord,
         WatchLoop, WatchCheck, WatchStop, Connect, Send, Close, Push, Tick

LEMMA TruthStep == IInv /\ Truth /\ [Next]_vars => Truth'
<1> SUFFICES ASSUME IInv, Truth, [Next]_vars PROVE Truth'
  OBVIOUS
<1> USE DEF IInv, Truth, True, TypeOK, ProcessOK, SharedOK, CallOK, WorldOK, HistoryOK,
    Servers, Stack, Flags, Locked, Registering, PastBudget,
        processVars, sharedVars, callVars, coreVars, worldVars, historyVars
<1>1. ASSUME NEW p \in Ports, StartOk(p) PROVE Truth'
  BY <1>1 DEF StartOk
<1>2. ASSUME NEW p \in Ports, StartFails(p) PROVE Truth'
  BY <1>2 DEF StartFails
<1>3. ASSUME DrainEnds PROVE Truth'
  BY <1>3 DEF DrainEnds
<1>4. ASSUME DropServer PROVE Truth'
  BY <1>4 DEF DropServer
<1>5. ASSUME Joined PROVE Truth'
  BY <1>5 DEF Joined
<1>6. ASSUME EnterLoop PROVE Truth'
  BY <1>6 DEF EnterLoop
<1>7. ASSUME LeaveLoop PROVE Truth'
  BY <1>7 DEF LeaveLoop
<1>8. ASSUME NEW c \in Clients, Dispatch(c) PROVE Truth'
  BY <1>8 DEF Dispatch
<1>9. ASSUME NEW c \in Clients, Deregister(c) PROVE Truth'
  BY <1>9 DEF Deregister
<1>10. ASSUME BeginWrite PROVE Truth'
  BY <1>10 DEF BeginWrite
<1>11. ASSUME EndWrite PROVE Truth'
  BY <1>11 DEF EndWrite
<1>12. ASSUME Reply PROVE Truth'
  BY <1>12 DEF Reply
<1>13. ASSUME BareEnds PROVE Truth'
  BY <1>13 DEF BareEnds
<1>14. ASSUME CloneInstalled PROVE Truth'
  BY <1>14 DEF CloneInstalled
<1>15. ASSUME ConnectionFd PROVE Truth'
  BY <1>15 DEF ConnectionFd
<1>16. ASSUME Begin PROVE Truth'
  <2>1. \A s \in Servers : running'[s] # NoRun =>
          running'[s] = running[s] \/ running'[s].by = "none"
    <3>1. shared \in Servers
      BY <1>16, KnownServer DEF Begin
    <3>2. running' = running
          \/ running' = [running EXCEPT ![shared] =
                           [client |-> fd, started |-> now, by |-> "none"]]
      BY <1>16 DEF Begin
    <3>3. running \in [Servers -> Run \cup {NoRun}]
      OBVIOUS
    <3>4. ASSUME NEW s \in Servers, running'[s] # running[s] PROVE running'[s].by = "none"
      <4>1. s = shared /\ running' = [running EXCEPT ![shared] =
                           [client |-> fd, started |-> now, by |-> "none"]]
        BY <3>1, <3>2, <3>3, <3>4, Zenon
      <4>2. running'[s] = [client |-> fd, started |-> now, by |-> "none"]
        BY <3>1, <3>3, <4>1, Zenon
      <4> QED
        BY <4>2
    <3> QED
      BY <3>4
  <2>2. running[shared] = NoRun \/ running' = running
    BY <1>16 DEF Begin
  <2>3. \A s \in Servers : Locked(s) => running'[s] = running[s]
    BY <1>16, <2>2, KnownServer DEF Begin
  <2> QED
    BY <1>16, <2>1, <2>3 DEF Begin
<1>17. ASSUME EvalEnds PROVE Truth'
  BY <1>17 DEF EvalEnds, Return
<1>18. ASSUME EvalNests PROVE Truth'
  BY <1>18 DEF EvalNests
<1>19. ASSUME EvalRedefinesHooks PROVE Truth'
  BY <1>19 DEF EvalRedefinesHooks
<1>20. ASSUME FinishTake PROVE Truth'
  BY <1>20 DEF FinishTake, Return
<1>21. ASSUME FinishRecord PROVE Truth'
  BY <1>21 DEF FinishRecord, Return
<1>22. ASSUME NEW s \in Servers, WatchLoop(s) PROVE Truth'
  <2>1. \A u \in Servers : watcher'[u].by = watcher[u].by
                            /\ (watcher'[u].pc = "stopping" => watcher[u].pc = "stopping")
    BY <1>22 DEF WatchLoop
  <2> QED
    BY <1>22, <2>1 DEF WatchLoop
<1>23. ASSUME NEW s \in Servers, WatchCheck(s) PROVE Truth'
  <2>1. CASE Decision(running[s]) = "none"
    <3>1. \A u \in Servers : watcher'[u].pc = "stopping" => watcher'[u] = watcher[u]
      BY <1>23, <2>1 DEF WatchCheck
    <3> QED
      BY <1>23, <3>1 DEF WatchCheck
  <2>2. CASE Decision(running[s]) # "none"
    <3>1. \A u \in Servers : u # s => watcher'[u] = watcher[u]
      BY <1>23 DEF WatchCheck
    <3>2. watcher'[s].by = Decision(running[s]) /\ running[s] # NoRun
      BY <1>23, <2>2 DEF WatchCheck, Decision
    <3>3. True(running[s], Decision(running[s]))
      BY <2>2, <3>2, RunFields DEF Decision, PeerGone
    <3> QED
      BY <1>23, <3>1, <3>2, <3>3 DEF WatchCheck
  <2> QED
    BY <2>1, <2>2
<1>24. ASSUME NEW s \in Servers, WatchStop(s) PROVE Truth'
  BY <1>24 DEF WatchStop
<1>25. ASSUME NEW c \in Clients, Connect(c) PROVE Truth'
  BY <1>25 DEF Connect
<1>26. ASSUME NEW c \in Clients, Send(c) PROVE Truth'
  BY <1>26 DEF Send
<1>27. ASSUME NEW c \in Clients, Close(c) PROVE Truth'
  BY <1>27 DEF Close
<1>28. ASSUME NEW c \in Clients, Cancel(c) PROVE Truth'
  BY <1>28 DEF Cancel
<1>29. ASSUME Push PROVE Truth'
  BY <1>29 DEF Push
<1>30. ASSUME Tick PROVE Truth'
  <2>1. now \in Nat /\ now' = now + 1 /\ conn' = conn /\ Budget \in Nat
    BY <1>30, BoundsAssumption DEF Tick
  <2>2. \A r \in Run \cup {NoRun} : r # NoRun /\ PastBudget(r) => PastBudget(r)'
    <3> SUFFICES ASSUME NEW r \in Run \cup {NoRun}, r # NoRun, PastBudget(r)
                 PROVE  PastBudget(r)'
      OBVIOUS
    <3>1. r.started \in Nat
      BY RunFields
    <3> QED
      BY <2>1, <3>1
  <2>3. \A s \in Servers : Locked(s) => running[s] # NoRun
    OBVIOUS
  <2> HIDE DEF PastBudget
  <2> QED
    BY <1>30, <2>1, <2>2, <2>3 DEF Tick
<1>31. CASE UNCHANGED vars
  BY <1>31 DEF vars
<1> QED
  BY <1>1, <1>2, <1>3, <1>4, <1>5, <1>6, <1>7, <1>8, <1>9, <1>10, <1>11, <1>12,
     <1>13, <1>14, <1>15, <1>16, <1>17, <1>18, <1>19, <1>20, <1>21, <1>22, <1>23, <1>24,
     <1>25, <1>26, <1>27, <1>28, <1>29, <1>30, <1>31
     DEF Next, HostStep, DispatchStep, GuardStep, EvalStep, WatcherStep, WorldStep

(* Marking the request as stopped leaves it registered.                    *)
LEMMA NotNoRunStays ==
  ASSUME IInv, NEW s \in Servers, WatchStop(s)
  PROVE  \A u \in Servers : running'[u] # NoRun <=> running[u] # NoRun
<1>1. running[s] # NoRun /\ watcher[s].by \in Reasons /\ running[s] \in Run
  BY DEF WatchStop, IInv, Flags, Locked, TypeOK, SharedOK
<1>2. running'[s].by \in Reasons
  BY <1>1 DEF WatchStop, IInv, TypeOK, SharedOK, Run
<1>3. running'[s] # NoRun
  BY <1>2 DEF NoRun, Reasons
<1>4. \A u \in Servers : u # s => running'[u] = running[u]
  BY DEF WatchStop, IInv, TypeOK, SharedOK
<1> QED
  BY <1>1, <1>3, <1>4

LEMMA CountStep ==
  IInv /\ EveryRequestEndsOnce /\ [Next]_vars => EveryRequestEndsOnce'
<1> SUFFICES ASSUME IInv, EveryRequestEndsOnce, [Next]_vars
             PROVE  EveryRequestEndsOnce'
  OBVIOUS
<1> USE BoundsAssumption DEF IInv, EveryRequestEndsOnce, InFlight, TypeOK, ProcessOK,
    SharedOK, CallOK, WorldOK, HistoryOK, Servers, Stack, Registering,
        processVars, sharedVars, callVars, coreVars, worldVars, historyVars
<1>1. ASSUME NEW p \in Ports, StartOk(p) PROVE EveryRequestEndsOnce'
  BY <1>1 DEF StartOk
<1>2. ASSUME NEW p \in Ports, StartFails(p) PROVE EveryRequestEndsOnce'
  BY <1>2 DEF StartFails
<1>3. ASSUME DrainEnds PROVE EveryRequestEndsOnce'
  <2> SUFFICES ASSUME NEW s \in Servers
               PROVE  begun'[s] = drained'[s] + Len(ends'[s]) + InFlight(s)'
    BY DEF EveryRequestEndsOnce
  <2>1. /\ begun'[s] = begun[s] /\ InFlight(s)' = InFlight(s) /\ InFlight(s) \in Nat
        /\ begun[s] \in Nat /\ drained[s] \in Nat /\ ends[s] \in Seq(End)
    BY <1>3 DEF DrainEnds
  <2>2. Len(ends[s]) \in Nat /\ Len(<<>>) = 0
    BY <2>1
  <2>3. drained'[s] + Len(ends'[s]) = drained[s] + Len(ends[s])
    <3>1. CASE s = server
      <4>1. ends'[s] = <<>> /\ drained'[s] = drained[s] + Len(ends[s])
        BY <1>3, <3>1 DEF DrainEnds
      <4> QED
        BY <2>1, <2>2, <4>1
    <3>2. CASE s # server
      BY <1>3, <3>2 DEF DrainEnds
    <3> QED
      BY <3>1, <3>2
  <2>4. begun[s] = drained[s] + Len(ends[s]) + InFlight(s)
    BY DEF EveryRequestEndsOnce
  <2> QED
    BY <2>1, <2>3, <2>4
<1>4. ASSUME DropServer PROVE EveryRequestEndsOnce'
  BY <1>4 DEF DropServer
<1>5. ASSUME Joined PROVE EveryRequestEndsOnce'
  BY <1>5 DEF Joined
<1>6. ASSUME EnterLoop PROVE EveryRequestEndsOnce'
  BY <1>6 DEF EnterLoop
<1>7. ASSUME LeaveLoop PROVE EveryRequestEndsOnce'
  BY <1>7 DEF LeaveLoop
<1>8. ASSUME NEW c \in Clients, Dispatch(c) PROVE EveryRequestEndsOnce'
  BY <1>8 DEF Dispatch
<1>9. ASSUME NEW c \in Clients, Deregister(c) PROVE EveryRequestEndsOnce'
  BY <1>9 DEF Deregister
<1>10. ASSUME BeginWrite PROVE EveryRequestEndsOnce'
  BY <1>10 DEF BeginWrite
<1>11. ASSUME EndWrite PROVE EveryRequestEndsOnce'
  BY <1>11 DEF EndWrite
<1>12. ASSUME Reply PROVE EveryRequestEndsOnce'
  BY <1>12 DEF Reply
<1>13. ASSUME BareEnds PROVE EveryRequestEndsOnce'
  BY <1>13 DEF BareEnds
<1>14. ASSUME CloneInstalled PROVE EveryRequestEndsOnce'
  BY <1>14 DEF CloneInstalled
<1>15. ASSUME ConnectionFd PROVE EveryRequestEndsOnce'
  BY <1>15 DEF ConnectionFd
<1>16. ASSUME Begin PROVE EveryRequestEndsOnce'
  <2> SUFFICES ASSUME NEW s \in Servers
               PROVE  begun'[s] = drained'[s] + Len(ends'[s]) + InFlight(s)'
    BY DEF EveryRequestEndsOnce
  <2>1. shared \in Servers /\ ends' = ends /\ drained' = drained /\ shared' = shared
        /\ taken = NoRun /\ taken' = NoRun
    BY <1>16, KnownServer DEF Begin
  <2>2. drained[s] \in Nat /\ Len(ends[s]) \in Nat
    OBVIOUS
  <2>3. CASE s = shared /\ running[shared] = NoRun
    <3>1. running'[s] = [client |-> fd, started |-> now, by |-> "none"]
          /\ begun'[s] = begun[s] + 1
      BY <1>16, <2>1, <2>3 DEF Begin
    <3>2. InFlight(s) = 0 /\ InFlight(s)' = 1
      BY <2>1, <2>3, <3>1, RunIsNotNoRun
    <3>3. begun[s] = drained[s] + Len(ends[s])
      BY <2>2, <3>2
    <3>4. begun'[s] = drained'[s] + Len(ends'[s]) + 1
      BY <2>1, <2>2, <3>1, <3>3
    <3> QED
      BY <3>2, <3>4
  <2>4. CASE ~(s = shared /\ running[shared] = NoRun)
    <3>1. running'[s] = running[s] /\ begun'[s] = begun[s]
      BY <1>16, <2>1, <2>4 DEF Begin
    <3> QED
      BY <2>1, <3>1
  <2> QED
    BY <2>3, <2>4
<1>17. ASSUME EvalEnds PROVE EveryRequestEndsOnce'
  BY <1>17 DEF EvalEnds, Return
<1>18. ASSUME EvalNests PROVE EveryRequestEndsOnce'
  BY <1>18 DEF EvalNests
<1>19. ASSUME EvalRedefinesHooks PROVE EveryRequestEndsOnce'
  BY <1>19 DEF EvalRedefinesHooks
<1>20. ASSUME FinishTake PROVE EveryRequestEndsOnce'
  BY <1>20 DEF FinishTake, Return
<1>21. ASSUME FinishRecord PROVE EveryRequestEndsOnce'
  <2> SUFFICES ASSUME NEW s \in Servers
               PROVE  begun'[s] = drained'[s] + Len(ends'[s]) + InFlight(s)'
    BY DEF EveryRequestEndsOnce
  <2>1. shared \in Servers /\ taken # NoRun /\ taken' = NoRun /\ shared' = shared
        /\ running' = running /\ begun' = begun /\ drained' = drained
    BY <1>21, KnownServer DEF FinishRecord
  <2>2. running[s] = NoRun /\ drained[s] \in Nat /\ ends[s] \in Seq(End)
    BY <1>21 DEF FinishRecord
  <2>3. CASE s = shared
    <3>1. InFlight(s) = 1 /\ InFlight(s)' = 0
      BY <2>1, <2>2, <2>3
    <3>2. PICK e : ends'[s] = Append(ends[s], e)
      BY <1>21, <2>1, <2>3 DEF FinishRecord
    <3>3. Len(ends'[s]) = Len(ends[s]) + 1 /\ Len(ends[s]) \in Nat
      BY <2>2, <3>2
    <3>4. begun[s] = drained[s] + Len(ends[s]) + 1
      BY <3>1
    <3>5. begun'[s] = drained'[s] + Len(ends'[s]) + 0
      BY <2>1, <2>2, <3>3, <3>4
    <3> QED
      BY <3>1, <3>5
  <2>4. CASE s # shared
    <3>1. ends'[s] = ends[s] /\ InFlight(s)' = InFlight(s)
      BY <1>21, <2>1, <2>4 DEF FinishRecord
    <3> QED
      BY <2>1, <3>1
  <2> QED
    BY <2>3, <2>4
<1>22. ASSUME NEW s \in Servers, WatchLoop(s) PROVE EveryRequestEndsOnce'
  BY <1>22 DEF WatchLoop
<1>23. ASSUME NEW s \in Servers, WatchCheck(s) PROVE EveryRequestEndsOnce'
  BY <1>23 DEF WatchCheck, Decision
<1>24. ASSUME NEW s \in Servers, WatchStop(s) PROVE EveryRequestEndsOnce'
  <2>1. \A u \in Servers : running'[u] # NoRun <=> running[u] # NoRun
    BY <1>24, NotNoRunStays
  <2> QED
    BY <1>24, <2>1 DEF WatchStop
<1>25. ASSUME NEW c \in Clients, Connect(c) PROVE EveryRequestEndsOnce'
  BY <1>25 DEF Connect
<1>26. ASSUME NEW c \in Clients, Send(c) PROVE EveryRequestEndsOnce'
  BY <1>26 DEF Send
<1>27. ASSUME NEW c \in Clients, Close(c) PROVE EveryRequestEndsOnce'
  BY <1>27 DEF Close
<1>28. ASSUME NEW c \in Clients, Cancel(c) PROVE EveryRequestEndsOnce'
  BY <1>28 DEF Cancel
<1>29. ASSUME Push PROVE EveryRequestEndsOnce'
  BY <1>29 DEF Push
<1>30. ASSUME Tick PROVE EveryRequestEndsOnce'
  BY <1>30 DEF Tick
<1>31. CASE UNCHANGED vars
  BY <1>31 DEF vars
<1> QED
  BY <1>1, <1>2, <1>3, <1>4, <1>5, <1>6, <1>7, <1>8, <1>9, <1>10, <1>11, <1>12,
     <1>13, <1>14, <1>15, <1>16, <1>17, <1>18, <1>19, <1>20, <1>21, <1>22, <1>23, <1>24,
     <1>25, <1>26, <1>27, <1>28, <1>29, <1>30, <1>31
     DEF Next, HostStep, DispatchStep, GuardStep, EvalStep, WatcherStep, WorldStep

-----------------------------------------------------------------------------
LEMMA StepIInv == IInv /\ [Next]_vars => IInv'
BY ProcessStep, SharedStep, CallStep, WorldStepOK, HistoryStep, TenureStep, StackStep,
   RequestStep, FlagsStep, WorldInvStep DEF IInv, TypeOK

(* The inductive invariant, on every reachable state.                      *)
THEOREM Invariance == Spec => []IInv
BY InitIInv, StepIInv, PTL DEF Spec

(* Every variable keeps to its type, the end log's durations and the       *)
(* counters of the world included.                                         *)
THEOREM TypeCorrect == Spec => []TypeOK
<1>1. IInv => TypeOK
  BY DEF IInv
<1> QED
  BY <1>1, Invariance, PTL

(* The core's interrupt flag is up only inside the request it is for: the  *)
(* watcher's `check` and the loop's `finish` exclude each other by the     *)
(* lock, and finish clears the flag before it lets go of it.               *)
THEOREM NoStrayInterrupt == Spec => []InterruptOnlyInRequest
<1>1. IInv => InterruptOnlyInRequest
  <2> SUFFICES ASSUME IInv, interrupt PROVE InterruptOnlyInRequest
    BY DEF InterruptOnlyInRequest
  <2>1. registered # {} /\ running[shared].by \in Reasons
    BY DEF IInv, Flags
  <2>2. shared # 0 /\ pc \in Registering
    BY <2>1 DEF IInv, Stack
  <2>3. running[shared] # NoRun
    BY <2>1, <2>2, KnownServer DEF IInv, Stack
  <2> QED
    BY <2>1, <2>2, <2>3 DEF InterruptOnlyInRequest, Registering
<1> QED
  BY <1>1, Invariance, PTL

(* No write on the Q wire is lost to a cancel meant for a request.         *)
THEOREM WritesSafe == Spec => []WritesNeverCancelled
<1>1. IInv => WritesNeverCancelled
  BY DEF IInv, World, WritesNeverCancelled
<1> QED
  BY <1>1, Invariance, PTL

(* Only the installed server has a watcher or a request.                   *)
THEOREM OneWatcher == Spec => []WatcherOfInstalled
<1>1. IInv => WatcherOfInstalled
  <2> SUFFICES ASSUME IInv PROVE WatcherOfInstalled
    OBVIOUS
  <2>1. \A s \in Servers : running[s] # NoRun => s = installed
    BY DEF IInv, Stack
  <2> QED
    BY <2>1 DEF IInv, Tenure, WatcherOfInstalled
<1> QED
  BY <1>1, Invariance, PTL

(* While the watcher is stopping a request, the loop is inside it, with    *)
(* its client's socket still its own.                                      *)
THEOREM StopHits == Spec => [](IInv /\ Truth /\ StopHitsItsRequest)
<1>1. Init => Truth
  BY DEF Init, Truth, Locked, Servers
<1>2. IInv /\ Truth => StopHitsItsRequest
  <2> SUFFICES ASSUME IInv, Truth, NEW s \in Servers, Locked(s)
               PROVE  /\ running[s] # NoRun /\ running[s].by = "none"
                      /\ serving # NoClient
                      /\ watcher[s].by = "hangup" => running[s].client = serving
    BY DEF StopHitsItsRequest
  <2>1. running[s] # NoRun /\ running[s].by = "none"
    BY DEF IInv, Flags
  <2>2. pc \in Registering
    BY <2>1 DEF IInv, Stack
  <2>3. serving # NoClient
    BY <2>2 DEF IInv, Request, Registering, Requesting
  <2>4. running[s].client \in {serving, NoClient}
    BY <2>1 DEF IInv, Request, OfClient
  <2>5. watcher[s].by = "hangup" => running[s].client # NoClient
    BY DEF Truth, True
  <2> QED
    BY <2>1, <2>3, <2>4, <2>5
<1> QED
  BY <1>1, <1>2, Invariance, TruthStep, PTL DEF Spec

(* Every request registered ends exactly once.                             *)
THEOREM EndsOnce == Spec => []EveryRequestEndsOnce
<1>1. Init => EveryRequestEndsOnce
  BY DEF Init, EveryRequestEndsOnce, InFlight, Servers
<1> QED
  BY <1>1, Invariance, CountStep, PTL DEF Spec
-----------------------------------------------------------------------------
(* The reason in the log is true of the request it ends: the budget was    *)
(* spent by the time the end was timed, the client that hung up is closed, *)
(* and a client's cancel was the client's.                                 *)
THEOREM VerdictsTrue == Spec => VerdictsJustified
<1>1. Init => Truth
  BY DEF Init, Truth, Locked, Servers
<1>2. ASSUME IInv, Truth, FinishRecord PROVE NewEndsJustified
  <2> DEFINE end == [verdict |-> Verdict, client |-> taken.client,
                     duration |-> now - taken.started]
  <2>1. taken # NoRun /\ shared \in Servers /\ True(taken, taken.by)
        /\ (answer = "cancel" => asked \/ taken.by \in Reasons)
    BY <1>2, KnownServer DEF FinishRecord, IInv, Stack, Truth
  <2>2. taken.by \in Reasons \cup {"none"}
    BY <1>2, <2>1, RunFields DEF IInv, TypeOK, CallOK
  <2>3. /\ end.verdict = "budget" => Budget # 0 /\ end.duration >= Budget
        /\ end.verdict = "hangup" => end.client # NoClient /\ conn[end.client] = "closed"
        /\ end.verdict = "client" => asked
    <3>1. end.verdict = Verdict /\ end.client = taken.client
          /\ end.duration = now - taken.started
      OBVIOUS
    <3>2. answer \in {"ok", "error", "cancel"}
      BY <1>2 DEF IInv, TypeOK, CallOK
    <3>3. \/ Verdict \in {"answered", "failed"}
          \/ Verdict = "client" /\ answer = "cancel" /\ taken.by = "none"
          \/ Verdict = taken.by
      BY <3>2 DEF Verdict
    <3> HIDE DEF end
    <3> QED
      BY <2>1, <2>2, <3>1, <3>3 DEF True, PastBudget, Reasons
  <2>4. ends' = [ends EXCEPT ![shared] = Append(ends[shared], end)]
    BY <1>2 DEF FinishRecord
  <2> HIDE DEF end
  <2>5. ASSUME NEW s \in Servers, Len(ends'[s]) > Len(ends[s])
        PROVE  s = shared /\ ends'[s][Len(ends'[s])] = end
    <3>1. ends[s] \in Seq(End) /\ Len(ends[s]) \in Nat
      BY <1>2 DEF IInv, TypeOK, SharedOK
    <3>2. s = shared
      BY <2>1, <2>4, <2>5, <3>1 DEF IInv, TypeOK, SharedOK
    <3>3. ends'[s] = Append(ends[s], end)
      BY <1>2, <2>1, <2>4, <3>2 DEF IInv, TypeOK, SharedOK
    <3> QED
      BY <3>1, <3>2, <3>3
  <2> QED
    BY <2>3, <2>5 DEF NewEndsJustified
<1>3. ASSUME IInv, [Next]_vars, ~FinishRecord PROVE [NewEndsJustified]_vars
  <2>1. \A s \in Servers : ends'[s] = ends[s] \/ ends'[s] = <<>>
    BY <1>3, KnownServer DEF Next, HostStep, DispatchStep, GuardStep, EvalStep, WatcherStep,
         WorldStep, vars, sharedVars, IInv, TypeOK, SharedOK,
         StartOk, StartFails, DrainEnds, DropServer, Joined, EnterLoop, LeaveLoop,
         Dispatch, Deregister, BeginWrite, EndWrite, Reply, BareEnds, CloneInstalled,
         ConnectionFd, Begin, EvalEnds, EvalNests, EvalRedefinesHooks, FinishTake,
         WatchLoop, WatchCheck, WatchStop, Connect, Send, Close, Cancel, Push, Tick
  <2>2. \A s \in Servers : Len(ends[s]) \in Nat /\ Len(<<>>) = 0
    BY <1>3 DEF IInv, TypeOK, SharedOK
  <2>3. \A s \in Servers : ~(Len(ends'[s]) > Len(ends[s]))
    BY <2>1, <2>2
  <2> QED
    BY <2>3 DEF NewEndsJustified
<1>4. IInv /\ Truth /\ [Next]_vars => [NewEndsJustified]_vars
  BY <1>2, <1>3
<1> QED
  BY <1>1, <1>4, Invariance, TruthStep, PTL DEF Spec, VerdictsJustified

-----------------------------------------------------------------------------
(* The verdicts of a log as one more end is pushed.                        *)
LEMMA VerdictsOfAppend ==
  ASSUME NEW q \in Seq(End), NEW e \in End
  PROVE  [i \in DOMAIN Append(q, e) |-> Append(q, e)[i].verdict]
           = Append([i \in DOMAIN q |-> q[i].verdict], e.verdict)
<1> DEFINE p == [i \in DOMAIN q |-> q[i].verdict]
           r == [i \in DOMAIN Append(q, e) |-> Append(q, e)[i].verdict]
<1>1. Len(q) \in Nat /\ DOMAIN q = 1..Len(q) /\ DOMAIN Append(q, e) = 1..(Len(q) + 1)
  OBVIOUS
<1>2. p \in Seq({q[i].verdict : i \in DOMAIN q}) /\ Len(p) = Len(q)
  BY <1>1
<1>3. DOMAIN Append(p, e.verdict) = 1..(Len(q) + 1) /\ DOMAIN r = 1..(Len(q) + 1)
  BY <1>1, <1>2
<1>4. \A i \in 1..(Len(q) + 1) : r[i] = Append(p, e.verdict)[i]
  BY <1>1, <1>2
<1> QED
  BY <1>2, <1>3, <1>4

(* The actions of RequestLog, on the log of server s.                      *)
Opens(s) == /\ Current(s) = "idle" /\ Current(s)' = "none"
            /\ VerdictsOf(s)' = VerdictsOf(s)
Stops(s) == /\ Current(s) = "none" /\ Current(s)' \in Reasons
            /\ VerdictsOf(s)' = VerdictsOf(s)
Closes(s) ==
  /\ Current(s) # "idle" /\ Current(s)' = "idle"
  /\ \E v \in {"answered", "failed"}
              \cup (IF Current(s) = "none" THEN {"client"} ELSE {Current(s)}) :
       VerdictsOf(s)' = Append(VerdictsOf(s), v)
Empties(s) == VerdictsOf(s)' = <<>> /\ Current(s)' = Current(s)
Keeps(s) == VerdictsOf(s)' = VerdictsOf(s) /\ Current(s)' = Current(s)

LEMMA SameLog ==
  ASSUME NEW s \in Servers, ends'[s] = ends[s]
  PROVE  VerdictsOf(s)' = VerdictsOf(s)
BY DEF VerdictsOf

LEMMA DrainLogStep ==
  ASSUME IInv, NEW s \in Servers, DrainEnds PROVE Empties(s) \/ Keeps(s)
<1>1. Current(s)' = Current(s)
  BY DEF DrainEnds, Current, callVars
<1>2. CASE s = server
  <2>1. ends'[s] = <<>>
    BY <1>2 DEF DrainEnds, IInv, TypeOK, SharedOK
  <2>2. VerdictsOf(s)' = <<>>
    BY <2>1 DEF VerdictsOf
  <2> QED
    BY <1>1, <2>2 DEF Empties
<1>3. CASE s # server
  BY <1>1, <1>3, SameLog DEF DrainEnds, IInv, TypeOK, SharedOK, Keeps
<1> QED
  BY <1>2, <1>3

LEMMA BeginLogStep ==
  ASSUME IInv, NEW s \in Servers, Begin PROVE Opens(s) \/ Keeps(s)
<1>1. shared \in Servers /\ shared' = shared /\ taken = NoRun /\ taken' = NoRun
      /\ running \in [Servers -> Run \cup {NoRun}]
  BY KnownServer DEF Begin, IInv, TypeOK, SharedOK, Stack
<1>2. VerdictsOf(s)' = VerdictsOf(s)
  BY SameLog DEF Begin
<1>3. CASE s = shared /\ running[s] = NoRun
  <2>1. running'[s] = [client |-> fd, started |-> now, by |-> "none"]
    BY <1>1, <1>3 DEF Begin
  <2>2. Current(s)' = "none" /\ Current(s) = "idle"
    BY <1>1, <1>3, <2>1, RunIsNotNoRun DEF Current
  <2> QED
    BY <1>2, <2>2 DEF Opens
<1>4. CASE ~(s = shared /\ running[s] = NoRun)
  <2>1. running'[s] = running[s]
    BY <1>1, <1>4 DEF Begin
  <2> QED
    BY <1>1, <1>2, <2>1 DEF Keeps, Current
<1> QED
  BY <1>3, <1>4

LEMMA TakeLogStep ==
  ASSUME IInv, NEW s \in Servers, FinishTake PROVE Keeps(s)
<1>1. shared \in Servers /\ shared' = shared /\ taken = NoRun /\ taken' = running[shared]
      /\ running' = [running EXCEPT ![shared] = NoRun]
      /\ running \in [Servers -> Run \cup {NoRun}]
  BY KnownServer DEF FinishTake, IInv, TypeOK, SharedOK, Stack
<1>2. VerdictsOf(s)' = VerdictsOf(s)
  BY SameLog DEF FinishTake
<1> QED
  BY <1>1, <1>2 DEF Keeps, Current

LEMMA RecordLogStep ==
  ASSUME IInv, NEW s \in Servers, FinishRecord PROVE Closes(s) \/ Keeps(s)
<1> DEFINE end == [verdict |-> Verdict, client |-> taken.client,
                   duration |-> now - taken.started]
<1>1. /\ shared \in Servers /\ shared' = shared /\ taken # NoRun /\ taken' = NoRun
      /\ running' = running /\ running[s] = NoRun /\ taken \in Run
      /\ ends[s] \in Seq(End)
  BY KnownServer DEF FinishRecord, IInv, TypeOK, SharedOK, CallOK, Stack, Registering
<1>2. CASE s = shared
  <2>1. ends'[s] = Append(ends[s], end)
    BY <1>1, <1>2 DEF FinishRecord, IInv, TypeOK, SharedOK
  <2>2. end \in End
    <3>1. SharedOK'
      BY <1>2, SharedStep DEF Next, GuardStep
    <3>2. ends'[s] \in Seq(End) /\ ends'[s][Len(ends[s]) + 1] = end
          /\ Len(ends[s]) + 1 \in 1..Len(ends'[s])
      BY <1>1, <2>1, <3>1 DEF SharedOK
    <3> QED
      BY <3>2
  <2>3. VerdictsOf(s)' = Append(VerdictsOf(s), end.verdict)
    <3> HIDE DEF end
    <3> QED
      BY <1>1, <2>1, <2>2, VerdictsOfAppend DEF VerdictsOf
  <2>4. Current(s) = taken.by /\ Current(s)' = "idle" /\ taken.by # "idle"
    BY <1>1, <1>2 DEF Current, Run, Reasons
  <2>5. end.verdict \in {"answered", "failed"}
              \cup (IF taken.by = "none" THEN {"client"} ELSE {taken.by})
    BY DEF Verdict, IInv, TypeOK, CallOK
  <2> HIDE DEF end
  <2> QED
    BY <2>3, <2>4, <2>5 DEF Closes
<1>3. CASE s # shared
  <2>1. ends'[s] = ends[s]
    BY <1>1, <1>3 DEF FinishRecord
  <2> QED
    BY <1>1, <1>3, <2>1, SameLog DEF Keeps, Current
<1> QED
  BY <1>2, <1>3

LEMMA StopLogStep ==
  ASSUME IInv, NEW s \in Servers, NEW w \in Servers, WatchStop(w)
  PROVE  Stops(s) \/ Keeps(s)
<1>1. /\ taken' = taken /\ shared' = shared
      /\ running[w] # NoRun /\ running[w].by = "none" /\ watcher[w].by \in Reasons
      /\ running[w] \in Run
  BY DEF WatchStop, callVars, IInv, Flags, Locked, TypeOK, SharedOK
<1>2. VerdictsOf(s)' = VerdictsOf(s)
  BY SameLog DEF WatchStop
<1>3. CASE s = w
  <2>1. running'[s].by = watcher[s].by
    BY <1>1, <1>3 DEF WatchStop, IInv, TypeOK, SharedOK, Run
  <2>2. running'[s] # NoRun
    BY <1>1, <1>3, NotNoRunStays
  <2> QED
    BY <1>1, <1>2, <1>3, <2>1, <2>2 DEF Stops, Current
<1>4. CASE s # w
  <2>1. running'[s] = running[s]
    BY <1>4 DEF WatchStop, IInv, TypeOK, SharedOK
  <2> QED
    BY <1>1, <1>2, <2>1 DEF Keeps, Current
<1> QED
  BY <1>3, <1>4

(* The other steps leave the log alone, and the request too: `shared` only *)
(* changes while there is nothing taken.                                   *)
LEMMA OtherLogStep ==
  ASSUME IInv, NEW s \in Servers, running' = running, ends' = ends, taken' = taken,
         shared' = shared \/ taken = NoRun
  PROVE  Keeps(s)
BY SameLog DEF Keeps, Current

LEMMA LogStep ==
  ASSUME IInv, [Next]_vars, NEW s \in Servers
  PROVE  Opens(s) \/ Stops(s) \/ Closes(s) \/ Empties(s) \/ Keeps(s)
<1>1. \/ DrainEnds \/ Begin \/ FinishTake \/ FinishRecord
      \/ \E w \in Servers : WatchStop(w)
      \/ /\ running' = running /\ ends' = ends /\ taken' = taken
         /\ shared' = shared \/ taken = NoRun
  BY DEF Next, HostStep, DispatchStep, GuardStep, EvalStep, WatcherStep,
         WorldStep, vars, sharedVars, callVars, IInv, Stack,
         StartOk, StartFails, DropServer, Joined, EnterLoop, LeaveLoop,
         Dispatch, Deregister, BeginWrite, EndWrite, Reply, BareEnds, CloneInstalled,
         ConnectionFd, EvalEnds, EvalNests, EvalRedefinesHooks,
         WatchLoop, WatchCheck, Connect, Send, Close, Cancel, Push, Tick
<1> QED
  BY <1>1, DrainLogStep, BeginLogStep, TakeLogStep, RecordLogStep, StopLogStep, OtherLogStep

(* Each server's mutex, watcher and interrupt flag implement RequestLog:   *)
(* one request at a time, stopped for one reason at most, one end each.    *)
THEOREM Refinement == Spec => ImplementsRequestLog
<1>1. Init => \A s \in Servers : Log(s)!Init
  <2> SUFFICES ASSUME Init, NEW s \in Servers PROVE Log(s)!Init
    OBVIOUS
  <2>1. running[s] = NoRun /\ taken = NoRun /\ ends[s] = <<>>
    BY DEF Init
  <2>2. Current(s) = "idle" /\ VerdictsOf(s) = <<>>
    BY <2>1 DEF Current, VerdictsOf
  <2> QED
    BY <2>2 DEF Log!Init
<1>2. ASSUME IInv, [Next]_vars, NEW s \in Servers
      PROVE  [Log(s)!Next]_<<Current(s), VerdictsOf(s)>>
  BY <1>2, LogStep DEF Opens, Stops, Closes, Empties, Keeps,
         Log!Next, Log!Begin, Log!Stop, Log!End, Log!Drain, Log!Verdicts
<1>3. IInv /\ [Next]_vars
        => [\A s \in Servers : [Log(s)!Next]_<<Current(s), VerdictsOf(s)>>]_vars
  BY <1>2
<1> QED
  BY <1>1, <1>3, Invariance, PTL DEF Spec, ImplementsRequestLog
-----------------------------------------------------------------------------
(* What the liveness properties rest on.                                   *)

(* A server that is held has its watcher at work, and one that is being    *)
(* dropped has told it to stop: the join waits for nothing else.           *)
WatcherAtWork ==
  server # 0 => /\ stop[server] <=> pc = "joining"
                /\ watcher[server].pc # "none"
                /\ watcher[server].pc = "done" => stop[server]

FreshServers == \A s \in Servers : s > started => ~stop[s]

(* The mark of the watcher on a request and the core's flag go together:   *)
(* nothing but the end of the request takes back its interrupt.            *)
StoppedIsInterrupted == \A s \in Servers : running[s].by \in Reasons => interrupt

(* A request that has passed its budget, or whose client is gone, stays so *)
(* until it ends.                                                          *)
StopIsDue(s) == OverBudget(s) \/ CleanHangup(s)
NewStopsLast == \A s \in Servers : StopIsDue(s) => StopIsDue(s)' \/ running'[s] = NoRun
DueStopsLast == [][NewStopsLast]_vars

(* A watcher starts with its server and goes on its rounds until it is     *)
(* told to stop, whatever requests and clients do meanwhile.               *)
LEMMA WorkStep ==
  IInv /\ FreshServers /\ WatcherAtWork /\ [Next]_vars => FreshServers' /\ WatcherAtWork'
<1> SUFFICES ASSUME IInv, FreshServers, WatcherAtWork, [Next]_vars
             PROVE  FreshServers' /\ WatcherAtWork'
  OBVIOUS
<1> USE BoundsAssumption
      DEF FreshServers, WatcherAtWork, IInv, Tenure, TypeOK, ProcessOK, SharedOK,
          CallOK, WorldOK, HistoryOK, Servers, Run, NoRun, Reasons, WatcherPCs,
          processVars, sharedVars, callVars, coreVars, worldVars, historyVars
<1>1. ASSUME NEW p \in Ports, StartOk(p) PROVE FreshServers' /\ WatcherAtWork'
  <2> DEFINE n == started + 1
  <2>1. /\ n \in Servers /\ n > started
        /\ watcher \in [Servers -> [pc : WatcherPCs, by : Reasons \cup {"none"}]]
    <3>1. started \in Nat /\ started < MaxStarts /\ MaxStarts \in Nat
      BY <1>1 DEF StartOk
    <3> QED
      BY <3>1
  <2>2. /\ started' = n /\ server' = n /\ stop' = stop /\ pc' = "host"
        /\ watcher' = [watcher EXCEPT ![n] = [watcher[n] EXCEPT !.pc = "loop"]]
    BY <1>1 DEF StartOk
  <2>3. watcher'[n].pc = "loop" /\ ~stop[n]
    BY <2>1, <2>2
  <2> HIDE DEF n
  <2>4. WatcherAtWork'
    BY <2>2, <2>3
  <2>5. \A s \in Servers : s > n => s > started
    BY <2>1
  <2>6. FreshServers'
    BY <2>2, <2>5
  <2> QED
    BY <2>4, <2>6
<1>2. ASSUME NEW p \in Ports, StartFails(p) PROVE FreshServers' /\ WatcherAtWork'
  BY <1>2 DEF StartFails
<1>3. ASSUME DrainEnds PROVE FreshServers' /\ WatcherAtWork'
  BY <1>3 DEF DrainEnds
<1>4. ASSUME DropServer PROVE FreshServers' /\ WatcherAtWork'
  BY <1>4 DEF DropServer
<1>5. ASSUME Joined PROVE FreshServers' /\ WatcherAtWork'
  BY <1>5 DEF Joined
<1>6. ASSUME EnterLoop PROVE FreshServers' /\ WatcherAtWork'
  BY <1>6 DEF EnterLoop
<1>7. ASSUME LeaveLoop PROVE FreshServers' /\ WatcherAtWork'
  BY <1>7 DEF LeaveLoop
<1>8. ASSUME NEW c \in Clients, Dispatch(c) PROVE FreshServers' /\ WatcherAtWork'
  BY <1>8 DEF Dispatch
<1>9. ASSUME NEW c \in Clients, Deregister(c) PROVE FreshServers' /\ WatcherAtWork'
  BY <1>9 DEF Deregister
<1>10. ASSUME BeginWrite PROVE FreshServers' /\ WatcherAtWork'
  BY <1>10 DEF BeginWrite
<1>11. ASSUME EndWrite PROVE FreshServers' /\ WatcherAtWork'
  BY <1>11 DEF EndWrite
<1>12. ASSUME Reply PROVE FreshServers' /\ WatcherAtWork'
  BY <1>12 DEF Reply
<1>13. ASSUME BareEnds PROVE FreshServers' /\ WatcherAtWork'
  BY <1>13 DEF BareEnds
<1>14. ASSUME CloneInstalled PROVE FreshServers' /\ WatcherAtWork'
  BY <1>14 DEF CloneInstalled
<1>15. ASSUME ConnectionFd PROVE FreshServers' /\ WatcherAtWork'
  BY <1>15 DEF ConnectionFd
<1>16. ASSUME Begin PROVE FreshServers' /\ WatcherAtWork'
  BY <1>16 DEF Begin
<1>17. ASSUME EvalEnds PROVE FreshServers' /\ WatcherAtWork'
  BY <1>17 DEF EvalEnds, Return
<1>18. ASSUME EvalNests PROVE FreshServers' /\ WatcherAtWork'
  BY <1>18 DEF EvalNests
<1>19. ASSUME EvalRedefinesHooks PROVE FreshServers' /\ WatcherAtWork'
  BY <1>19 DEF EvalRedefinesHooks
<1>20. ASSUME FinishTake PROVE FreshServers' /\ WatcherAtWork'
  BY <1>20 DEF FinishTake, Return
<1>21. ASSUME FinishRecord PROVE FreshServers' /\ WatcherAtWork'
  BY <1>21 DEF FinishRecord, Return
<1>22. ASSUME NEW s \in Servers, WatchLoop(s) PROVE FreshServers' /\ WatcherAtWork'
  BY <1>22 DEF WatchLoop
<1>23. ASSUME NEW s \in Servers, WatchCheck(s) PROVE FreshServers' /\ WatcherAtWork'
  BY <1>23 DEF WatchCheck, Decision
<1>24. ASSUME NEW s \in Servers, WatchStop(s) PROVE FreshServers' /\ WatcherAtWork'
  BY <1>24 DEF WatchStop
<1>25. ASSUME NEW c \in Clients, Connect(c) PROVE FreshServers' /\ WatcherAtWork'
  BY <1>25 DEF Connect
<1>26. ASSUME NEW c \in Clients, Send(c) PROVE FreshServers' /\ WatcherAtWork'
  BY <1>26 DEF Send
<1>27. ASSUME NEW c \in Clients, Close(c) PROVE FreshServers' /\ WatcherAtWork'
  BY <1>27 DEF Close
<1>28. ASSUME NEW c \in Clients, Cancel(c) PROVE FreshServers' /\ WatcherAtWork'
  BY <1>28 DEF Cancel
<1>29. ASSUME Push PROVE FreshServers' /\ WatcherAtWork'
  BY <1>29 DEF Push
<1>30. ASSUME Tick PROVE FreshServers' /\ WatcherAtWork'
  BY <1>30 DEF Tick
<1>31. CASE UNCHANGED vars
  BY <1>31 DEF vars
<1> QED
  BY <1>1, <1>2, <1>3, <1>4, <1>5, <1>6, <1>7, <1>8, <1>9, <1>10, <1>11, <1>12, <1>13,
     <1>14, <1>15, <1>16, <1>17, <1>18, <1>19, <1>20, <1>21, <1>22, <1>23, <1>24,
     <1>25, <1>26, <1>27, <1>28, <1>29, <1>30, <1>31
     DEF Next, HostStep, DispatchStep, GuardStep, EvalStep, WatcherStep, WorldStep

(* The watcher marks and interrupts under the lock, and finish clears the  *)
(* flag and takes the mark with the request under it.                      *)
LEMMA MarkStep == IInv /\ StoppedIsInterrupted /\ [Next]_vars => StoppedIsInterrupted'
<1> SUFFICES ASSUME IInv, StoppedIsInterrupted, [Next]_vars PROVE StoppedIsInterrupted'
  OBVIOUS
<1> USE BoundsAssumption
      DEF StoppedIsInterrupted, IInv, Stack, Flags, Registering, Locked, TypeOK,
          ProcessOK, SharedOK, CallOK, WorldOK, HistoryOK, Servers, Run, NoRun,
          Reasons, processVars, sharedVars, callVars, coreVars, worldVars,
          historyVars
<1>1. ASSUME NEW p \in Ports, StartOk(p) PROVE StoppedIsInterrupted'
  BY <1>1 DEF StartOk
<1>2. ASSUME NEW p \in Ports, StartFails(p) PROVE StoppedIsInterrupted'
  BY <1>2 DEF StartFails
<1>3. ASSUME DrainEnds PROVE StoppedIsInterrupted'
  BY <1>3 DEF DrainEnds
<1>4. ASSUME DropServer PROVE StoppedIsInterrupted'
  BY <1>4 DEF DropServer
<1>5. ASSUME Joined PROVE StoppedIsInterrupted'
  BY <1>5 DEF Joined
<1>6. ASSUME EnterLoop PROVE StoppedIsInterrupted'
  BY <1>6 DEF EnterLoop
<1>7. ASSUME LeaveLoop PROVE StoppedIsInterrupted'
  BY <1>7 DEF LeaveLoop
<1>8. ASSUME NEW c \in Clients, Dispatch(c) PROVE StoppedIsInterrupted'
  BY <1>8 DEF Dispatch
<1>9. ASSUME NEW c \in Clients, Deregister(c) PROVE StoppedIsInterrupted'
  BY <1>9 DEF Deregister
<1>10. ASSUME BeginWrite PROVE StoppedIsInterrupted'
  BY <1>10 DEF BeginWrite
<1>11. ASSUME EndWrite PROVE StoppedIsInterrupted'
  BY <1>11 DEF EndWrite
<1>12. ASSUME Reply PROVE StoppedIsInterrupted'
  BY <1>12 DEF Reply
<1>13. ASSUME BareEnds PROVE StoppedIsInterrupted'
  BY <1>13 DEF BareEnds
<1>14. ASSUME CloneInstalled PROVE StoppedIsInterrupted'
  BY <1>14 DEF CloneInstalled
<1>15. ASSUME ConnectionFd PROVE StoppedIsInterrupted'
  BY <1>15 DEF ConnectionFd
<1>16. ASSUME Begin PROVE StoppedIsInterrupted'
  <2>1. shared \in Servers /\ interrupt' = interrupt
    BY <1>16, KnownServer DEF Begin
  <2>2. CASE running' = running
    BY <2>1, <2>2
  <2>3. CASE running' = [running EXCEPT ![shared] =
              [client |-> fd, started |-> now, by |-> "none"]]
    <3>1. /\ running'[shared].by = "none"
          /\ \A s \in Servers : s # shared => running'[s] = running[s]
      BY <2>1, <2>3
    <3> QED
      BY <2>1, <3>1
  <2> QED
    BY <1>16, <2>2, <2>3 DEF Begin
<1>17. ASSUME EvalEnds PROVE StoppedIsInterrupted'
  BY <1>17 DEF EvalEnds, Return
<1>18. ASSUME EvalNests PROVE StoppedIsInterrupted'
  BY <1>18 DEF EvalNests
<1>19. ASSUME EvalRedefinesHooks PROVE StoppedIsInterrupted'
  BY <1>19 DEF EvalRedefinesHooks
<1>20. ASSUME FinishTake PROVE StoppedIsInterrupted'
  BY <1>20 DEF FinishTake, Return
<1>21. ASSUME FinishRecord PROVE StoppedIsInterrupted'
  BY <1>21 DEF FinishRecord, Return
<1>22. ASSUME NEW s \in Servers, WatchLoop(s) PROVE StoppedIsInterrupted'
  BY <1>22 DEF WatchLoop
<1>23. ASSUME NEW s \in Servers, WatchCheck(s) PROVE StoppedIsInterrupted'
  BY <1>23 DEF WatchCheck, Decision
<1>24. ASSUME NEW s \in Servers, WatchStop(s) PROVE StoppedIsInterrupted'
  BY <1>24 DEF WatchStop
<1>25. ASSUME NEW c \in Clients, Connect(c) PROVE StoppedIsInterrupted'
  BY <1>25 DEF Connect
<1>26. ASSUME NEW c \in Clients, Send(c) PROVE StoppedIsInterrupted'
  BY <1>26 DEF Send
<1>27. ASSUME NEW c \in Clients, Close(c) PROVE StoppedIsInterrupted'
  BY <1>27 DEF Close
<1>28. ASSUME NEW c \in Clients, Cancel(c) PROVE StoppedIsInterrupted'
  BY <1>28 DEF Cancel
<1>29. ASSUME Push PROVE StoppedIsInterrupted'
  BY <1>29 DEF Push
<1>30. ASSUME Tick PROVE StoppedIsInterrupted'
  BY <1>30 DEF Tick
<1>31. CASE UNCHANGED vars
  BY <1>31 DEF vars
<1> QED
  BY <1>1, <1>2, <1>3, <1>4, <1>5, <1>6, <1>7, <1>8, <1>9, <1>10, <1>11, <1>12, <1>13,
     <1>14, <1>15, <1>16, <1>17, <1>18, <1>19, <1>20, <1>21, <1>22, <1>23, <1>24,
     <1>25, <1>26, <1>27, <1>28, <1>29, <1>30, <1>31
     DEF Next, HostStep, DispatchStep, GuardStep, EvalStep, WatcherStep, WorldStep

(* Time goes on after a budget is spent.                                   *)
LEMMA BudgetStaysPast ==
  ASSUME NEW n \in Nat, NEW s \in Nat, NEW b \in Nat, n - s >= b
  PROVE  (n + 1) - s >= b
OBVIOUS

(* Time does not go back, and a client that has closed sends no more.      *)
LEMMA DueStep == IInv /\ [Next]_vars => NewStopsLast
<1> SUFFICES ASSUME IInv, [Next]_vars PROVE NewStopsLast
  OBVIOUS
<1> USE BoundsAssumption
      DEF NewStopsLast, StopIsDue, OverBudget, CleanHangup, PastBudget, PeerGone,
          IInv, Stack, Registering, Request, OfClient, TypeOK, ProcessOK, SharedOK,
          CallOK, WorldOK, HistoryOK, Servers, Run, NoRun, Reasons, processVars,
          sharedVars, callVars, coreVars, worldVars, historyVars
<1>1. ASSUME NEW p \in Ports, StartOk(p) PROVE NewStopsLast
  BY <1>1 DEF StartOk
<1>2. ASSUME NEW p \in Ports, StartFails(p) PROVE NewStopsLast
  BY <1>2 DEF StartFails
<1>3. ASSUME DrainEnds PROVE NewStopsLast
  BY <1>3 DEF DrainEnds
<1>4. ASSUME DropServer PROVE NewStopsLast
  BY <1>4 DEF DropServer
<1>5. ASSUME Joined PROVE NewStopsLast
  BY <1>5 DEF Joined
<1>6. ASSUME EnterLoop PROVE NewStopsLast
  BY <1>6 DEF EnterLoop
<1>7. ASSUME LeaveLoop PROVE NewStopsLast
  BY <1>7 DEF LeaveLoop
<1>8. ASSUME NEW c \in Clients, Dispatch(c) PROVE NewStopsLast
  BY <1>8 DEF Dispatch
<1>9. ASSUME NEW c \in Clients, Deregister(c) PROVE NewStopsLast
  BY <1>9 DEF Deregister
<1>10. ASSUME BeginWrite PROVE NewStopsLast
  BY <1>10 DEF BeginWrite
<1>11. ASSUME EndWrite PROVE NewStopsLast
  BY <1>11 DEF EndWrite
<1>12. ASSUME Reply PROVE NewStopsLast
  BY <1>12 DEF Reply
<1>13. ASSUME BareEnds PROVE NewStopsLast
  BY <1>13 DEF BareEnds
<1>14. ASSUME CloneInstalled PROVE NewStopsLast
  BY <1>14 DEF CloneInstalled
<1>15. ASSUME ConnectionFd PROVE NewStopsLast
  BY <1>15 DEF ConnectionFd
<1>16. ASSUME Begin PROVE NewStopsLast
  BY <1>16 DEF Begin
<1>17. ASSUME EvalEnds PROVE NewStopsLast
  BY <1>17 DEF EvalEnds, Return
<1>18. ASSUME EvalNests PROVE NewStopsLast
  BY <1>18 DEF EvalNests
<1>19. ASSUME EvalRedefinesHooks PROVE NewStopsLast
  BY <1>19 DEF EvalRedefinesHooks
<1>20. ASSUME FinishTake PROVE NewStopsLast
  BY <1>20 DEF FinishTake, Return
<1>21. ASSUME FinishRecord PROVE NewStopsLast
  BY <1>21 DEF FinishRecord, Return
<1>22. ASSUME NEW s \in Servers, WatchLoop(s) PROVE NewStopsLast
  BY <1>22 DEF WatchLoop
<1>23. ASSUME NEW s \in Servers, WatchCheck(s) PROVE NewStopsLast
  BY <1>23 DEF WatchCheck, Decision
<1>24. ASSUME NEW s \in Servers, WatchStop(s) PROVE NewStopsLast
  <2>1. /\ running' = [running EXCEPT ![s] = [running[s] EXCEPT !.by = watcher[s].by]]
        /\ now' = now /\ conn' = conn /\ inbox' = inbox
    BY <1>24 DEF WatchStop
  <2>2. running[s] \in Run /\ watcher[s].by \in Reasons
    BY <1>24 DEF WatchStop, Flags, Locked
  <2>3. /\ running'[s].client = running[s].client /\ running'[s].started = running[s].started
        /\ running'[s] # NoRun
    BY <2>1, <2>2
  <2>4. \A q \in Servers : q # s => running'[q] = running[q]
    BY <2>1
  <2> QED
    BY <2>1, <2>3, <2>4
<1>25. ASSUME NEW c \in Clients, Connect(c) PROVE NewStopsLast
  BY <1>25 DEF Connect
<1>26. ASSUME NEW c \in Clients, Send(c) PROVE NewStopsLast
  BY <1>26 DEF Send
<1>27. ASSUME NEW c \in Clients, Close(c) PROVE NewStopsLast
  BY <1>27 DEF Close
<1>28. ASSUME NEW c \in Clients, Cancel(c) PROVE NewStopsLast
  BY <1>28 DEF Cancel
<1>29. ASSUME Push PROVE NewStopsLast
  BY <1>29 DEF Push
<1>30. ASSUME Tick PROVE NewStopsLast
  <2>1. /\ now' = now + 1 /\ running' = running /\ conn' = conn /\ inbox' = inbox
        /\ now \in Nat /\ Budget \in Nat
    BY <1>30 DEF Tick
  <2>2. ASSUME NEW s \in Servers, OverBudget(s) PROVE OverBudget(s)'
    <3>1. /\ running[s].started \in Nat /\ running[s] # NoRun
          /\ Budget # 0 /\ now - running[s].started >= Budget
      BY <2>2, RunFields
    <3>2. (now + 1) - running[s].started >= Budget
      BY <2>1, <3>1, BudgetStaysPast
    <3> QED
      BY <2>1, <3>1, <3>2
  <2>3. ASSUME NEW s \in Servers, CleanHangup(s) PROVE CleanHangup(s)'
    BY <2>1, <2>3
  <2> QED
    BY <2>2, <2>3
<1>31. CASE UNCHANGED vars
  BY <1>31 DEF vars
<1> QED
  BY <1>1, <1>2, <1>3, <1>4, <1>5, <1>6, <1>7, <1>8, <1>9, <1>10, <1>11, <1>12, <1>13,
     <1>14, <1>15, <1>16, <1>17, <1>18, <1>19, <1>20, <1>21, <1>22, <1>23, <1>24,
     <1>25, <1>26, <1>27, <1>28, <1>29, <1>30, <1>31
     DEF Next, HostStep, DispatchStep, GuardStep, EvalStep, WatcherStep, WorldStep

(* While a server is held its watcher runs, and ends only once the drop of *)
(* the handle has told it to, which is all that join waits for             *)
(* (serve.rs:255-302).  What DropReturns needs besides is that the watcher *)
(* gets its turns.                                                         *)
THEOREM WatcherStaysAtWork == Spec => []WatcherAtWork
<1>1. Init => FreshServers /\ WatcherAtWork
  BY DEF Init, FreshServers, WatcherAtWork
<1> QED
  BY <1>1, WorkStep, Invariance, PTL DEF Spec

(* A request the watcher has stopped stays interrupted until it ends: no   *)
(* step of the host, of a nested call or of another client takes the       *)
(* interrupt back (serve.rs:341-349, 375-395), so evaluation is left with  *)
(* nothing to do but to return.                                            *)
THEOREM StoppedStayInterrupted == Spec => []StoppedIsInterrupted
<1>1. Init => StoppedIsInterrupted
  BY DEF Init, StoppedIsInterrupted, NoRun, Reasons
<1> QED
  BY <1>1, MarkStep, Invariance, PTL DEF Spec

(* Once a request is past its budget, or its client is gone with nothing   *)
(* unread, it stays so until it ends: a watcher that looks late still      *)
(* finds the reason.  BudgetEnforced and CleanHangupStops rest on it.      *)
THEOREM DueStopsAreLasting == Spec => DueStopsLast
<1> QED
  BY DueStep, Invariance, PTL DEF Spec, DueStopsLast
==============================================================================
