------------------------------ MODULE Selectors ------------------------------
(***************************************************************************)
(* The handles on the loop's connections: q.rs (QConnection, Subscription, *)
(* QListener) and ipc.rs (TcpClient).                                      *)
(*                                                                         *)
(* The core keeps the loop's connections in a table of slots and gives a   *)
(* new one the lowest free slot, so a handle that is only a slot names     *)
(* whatever sits there now.  A Subscription is a slot, the address of the  *)
(* connection's state and a token of its own; a TcpClient is a slot it     *)
(* gives up once a failed exchange has left nothing in it.                 *)
(*                                                                         *)
(* Connections are numbered as they are opened; the number is what the     *)
(* handles would like to know and cannot.  At most one handle is issued    *)
(* for each, so handle[c] is the one issued for c.  An exchange waits for  *)
(* its answer and evaluates what the peer pushes meanwhile: the program's  *)
(* own code, in a handler, which may do anything but run the loop.         *)
(***************************************************************************)
EXTENDS Integers, Sequences, FiniteSets

CONSTANTS
  Addrs,       \* addresses malloc may give the state of a connection
  NoAddr,      \* not an address
  Slots,       \* bound: slots of the core's table
  MaxConns,    \* bound: connections opened
  MaxCalls     \* bound: exchanges under way at once, each in a handler of the one before

ASSUME SelectorsAssumption ==
  /\ Slots \in Nat \ {0} /\ MaxConns \in Nat /\ MaxCalls \in Nat
  /\ NoAddr \notin Addrs

VARIABLES
  opened,      \* connections opened so far
  kind,        \* kind[c]: who opened c and how
  peer,        \* peer[c]: the other end has closed c, or the network lost it
  addr,        \* addr[c]: where the state of c is, while c is in the table
  table,       \* table[i]: the connection in slot i, 0 for none
  attached,    \* ATTACHED: the token that owns slot i, 0 for none
  token,       \* NEXT_TOKEN
  handle,      \* handle[c]: the handle issued for c
  calls,       \* the exchanges under way, innermost last
  (* history, read by the properties only *)
  touched,     \* the last operation through a handle: issued for, and reached
  untold       \* the connections that went with nothing to tell their TcpClient

tableVars == <<peer, addr, table>>
claimVars == <<attached, token>>
vars == <<opened, kind, tableVars, claimVars, handle, calls, touched, untold>>

Conns == 1..MaxConns
Ids == 0..(Slots - 1)
CLOSED == -1

(* "sub" and "client" are connections of this crate; "accepted" and        *)
(* "listener" are the core's; "opened" is an .ipc.open of Rayfall code.    *)
Kinds == {"none", "sub", "client", "accepted", "listener", "opened"}
NoHandle == [type |-> "none", id |-> CLOSED, data |-> NoAddr, token |-> 0]
QConn == [NoHandle EXCEPT !.type = "qconn"]
Handle == [type : {"none", "qconn", "sub", "client"}, id : Ids \cup {CLOSED},
           data : Addrs \cup {NoAddr}, token : Nat]

TypeOK ==
  /\ opened \in 0..MaxConns
  /\ kind \in [Conns -> Kinds]
  /\ peer \in [Conns -> BOOLEAN]
  /\ addr \in [Conns -> Addrs \cup {NoAddr}]
  /\ table \in [Ids -> 0..MaxConns]
  /\ attached \in [Ids -> Nat]
  /\ token \in Nat \ {0}
  /\ handle \in [Conns -> Handle]
  /\ calls \in Seq([by : Conns, at : Conns]) /\ Len(calls) <= MaxCalls
  /\ touched \in [by : 0..MaxConns, at : 0..MaxConns]
  /\ untold \in SUBSET Conns

Init ==
  /\ opened = 0
  /\ kind = [c \in Conns |-> "none"]
  /\ peer = [c \in Conns |-> FALSE]
  /\ addr = [c \in Conns |-> NoAddr]
  /\ table = [i \in Ids |-> 0]
  /\ attached = [i \in Ids |-> 0] /\ token = 1
  /\ handle = [c \in Conns |-> NoHandle]
  /\ calls = <<>>
  /\ touched = [by |-> 0, at |-> 0]
  /\ untold = {}

-----------------------------------------------------------------------------
(* The core's table *)

InTable(c) == \E i \in Ids : table[i] = c
Used == {addr[table[i]] : i \in {j \in Ids : table[j] # 0}}

Waiting(d) == \E k \in DOMAIN calls : calls[k].at = d
Borrowed(c) == \E k \in DOMAIN calls : calls[k].by = c

(* ray_poll_register: the lowest free slot, and state at any free address. *)
(* A handle that is in an exchange is not told that its slot is taken.     *)
Register(c, i, a) ==
  /\ table[i] = 0 /\ \A j \in Ids : table[j] = 0 => i <= j
  /\ a \notin Used
  /\ table' = [table EXCEPT ![i] = c]
  /\ addr' = [addr EXCEPT ![c] = a]
  /\ untold' = untold \cup {d \in Conns : Borrowed(d) /\ handle[d].id = i}

Deregister(i) == table' = [table EXCEPT ![i] = 0]

(* A connection is opened and takes its number.                            *)
Open(c, k) ==
  /\ c = opened + 1 /\ opened' = c
  /\ kind' = [kind EXCEPT ![c] = k]

-----------------------------------------------------------------------------
(* QConnection *)

QConnect(c) ==
  /\ Open(c, "sub")
  /\ handle' = [handle EXCEPT ![c] = QConn]
  /\ UNCHANGED <<tableVars, claimVars, calls, touched, untold>>

(* q_close on the way out, or when the attach is refused: the socket is    *)
(* this handle's alone.                                                    *)
DropQConn(c) ==
  /\ handle[c].type = "qconn"
  /\ handle' = [handle EXCEPT ![c] = NoHandle]
  /\ UNCHANGED <<opened, kind, tableVars, claimVars, calls, touched, untold>>

(* attach: the poll takes the socket, the data pointer is read back, the   *)
(* slot is claimed under a new token.  selector_data always resolves here: *)
(* nothing runs between the two calls.                                     *)
Attach(c) ==
  /\ handle[c].type = "qconn"
  /\ \E i \in Ids, a \in Addrs :
       /\ Register(c, i, a)
       /\ attached' = [attached EXCEPT ![i] = token]
       /\ token' = token + 1
       /\ handle' = [handle EXCEPT ![c] =
                       [type |-> "sub", id |-> i, data |-> a, token |-> token]]
  /\ UNCHANGED <<opened, kind, peer, calls, touched>>

-----------------------------------------------------------------------------
(* Subscription *)

(* Slip: slot and address alone, before there were tokens.                 *)
IsAliveByAddress(c) ==
  /\ table[handle[c].id] # 0
  /\ addr[table[handle[c].id]] = handle[c].data

(* is_alive: the claim on the slot is still this handle's, and the slot    *)
(* still holds state at the address it had.                                *)
IsAlive(c) ==
  /\ attached[handle[c].id] = handle[c].token
  /\ table[handle[c].id] # 0
  /\ addr[table[handle[c].id]] = handle[c].data

Reaches(c, d) == touched' = [by |-> c, at |-> d]

(* The close a handle makes of the connection in its slot.                 *)
CloseSlot(c) ==
  LET d == table[handle[c].id]
  IN  Reaches(c, d) /\ Deregister(handle[c].id) /\ untold' = untold \cup ({d} \ {c})

(* send: refused when the subscription is dead; on a connection that is    *)
(* waiting already, the C layer refuses it; else the exchange begins.      *)
SubSend(c) ==
  /\ handle[c].type = "sub" /\ IsAlive(c)
  /\ ~Waiting(table[handle[c].id]) /\ Len(calls) < MaxCalls
  /\ Reaches(c, table[handle[c].id])
  /\ calls' = Append(calls, [by |-> c, at |-> table[handle[c].id]])
  /\ UNCHANGED <<opened, kind, tableVars, claimVars, handle, untold>>

(* Slips: the drop gives up a claim that may be another's by now, or none. *)
DropSubReleasing(c, claims) ==
  /\ handle[c].type = "sub" /\ ~Borrowed(c)
  /\ IF IsAlive(c)
       THEN CloseSlot(c)
       ELSE UNCHANGED <<table, touched, untold>>
  /\ attached' = claims
  /\ handle' = [handle EXCEPT ![c] = NoHandle]
  /\ UNCHANGED <<opened, kind, peer, addr, token, calls>>
DropSubTakesClaim(c) == DropSubReleasing(c, [attached EXCEPT ![handle[c].id] = 0])
DropSubKeepsClaim(c) == DropSubReleasing(c, attached)

(* Drop: close the connection if it is alive, give up the claim if it is   *)
(* still ours.  An exchange borrows its handle, so none is under way.      *)
DropSub(c) ==
  /\ handle[c].type = "sub" /\ ~Borrowed(c)
  /\ IF IsAlive(c)
       THEN CloseSlot(c)
       ELSE UNCHANGED <<table, touched, untold>>
  /\ attached' = IF attached[handle[c].id] = handle[c].token
                   THEN [attached EXCEPT ![handle[c].id] = 0] ELSE attached
  /\ handle' = [handle EXCEPT ![c] = NoHandle]
  /\ UNCHANGED <<opened, kind, peer, addr, token, calls>>

-----------------------------------------------------------------------------
(* TcpClient *)

Connect(c) ==
  /\ Open(c, "client")
  /\ \E i \in Ids, a \in Addrs :
       /\ Register(c, i, a)
       /\ handle' = [handle EXCEPT ![c] =
                       [type |-> "client", id |-> i, data |-> NoAddr, token |-> 0]]
  /\ UNCHANGED <<peer, claimVars, calls, touched>>

Live(c) == handle[c].type = "client" /\ handle[c].id # CLOSED

(* round_trip: live_handle, then the exchange with whatever is in the slot. *)
RoundTrip(c) ==
  /\ Live(c) /\ table[handle[c].id] # 0
  /\ ~Waiting(table[handle[c].id]) /\ Len(calls) < MaxCalls
  /\ Reaches(c, table[handle[c].id])
  /\ calls' = Append(calls, [by |-> c, at |-> table[handle[c].id]])
  /\ UNCHANGED <<opened, kind, tableVars, claimVars, handle, untold>>

(* The slot is empty: an error, and is_live agrees.                        *)
RoundTripOnNothing(c) ==
  /\ Live(c) /\ table[handle[c].id] = 0
  /\ handle' = [handle EXCEPT ![c].id = CLOSED]
  /\ UNCHANGED <<opened, kind, tableVars, claimVars, calls, touched, untold>>

(* send_async: no answer, and no look at the slot when it fails.           *)
SendAsync(c) ==
  /\ Live(c) /\ table[handle[c].id] # 0
  /\ Reaches(c, table[handle[c].id])
  /\ UNCHANGED <<opened, kind, tableVars, claimVars, handle, calls, untold>>

DropClient(c) ==
  /\ handle[c].type = "client" /\ ~Borrowed(c)
  /\ IF Live(c) /\ table[handle[c].id] # 0
       THEN CloseSlot(c)
       ELSE UNCHANGED <<table, touched, untold>>
  /\ handle' = [handle EXCEPT ![c] = NoHandle]
  /\ UNCHANGED <<opened, kind, peer, addr, claimVars, calls>>

-----------------------------------------------------------------------------
(* An exchange under way *)

Innermost == calls[Len(calls)]
Back == calls' = SubSeq(calls, 1, Len(calls) - 1)

(* Slip: an error is taken for a closed connection, and the slot not asked. *)
AnsweredForgets ==
  /\ calls # <<>> /\ InTable(Innermost.at)
  /\ Back
  /\ handle' = IF Live(Innermost.by)
                 THEN [handle EXCEPT ![Innermost.by].id = CLOSED] ELSE handle
  /\ UNCHANGED <<opened, kind, tableVars, claimVars, touched, untold>>

(* An answer, a server's error among them, on a connection that is there.  *)
Answered ==
  /\ calls # <<>> /\ InTable(Innermost.at)
  /\ Back
  /\ UNCHANGED <<opened, kind, tableVars, claimVars, handle, touched, untold>>

(* The deadline passes or the peer is gone: the core closes the connection *)
(* and frees its slot, and is not back yet.                                *)
CoreCloses ==
  /\ calls # <<>> /\ InTable(Innermost.at)
  /\ peer[Innermost.at] \/ handle[Innermost.by].type = "client"
  /\ \E i \in Ids : table[i] = Innermost.at /\ Deregister(i)
  /\ untold' = untold \cup ({Innermost.at} \ {Innermost.by})
  /\ UNCHANGED <<opened, kind, peer, addr, claimVars, handle, calls, touched>>

(* Slip: a failed exchange leaves the handle as it was.                    *)
FailedRemembers ==
  /\ calls # <<>> /\ ~InTable(Innermost.at)
  /\ Back
  /\ UNCHANGED <<opened, kind, tableVars, claimVars, handle, touched, untold>>

(* The exchange comes back without an answer: a TcpClient asks whether     *)
(* anything is in its slot, and forgets the slot if nothing is.            *)
Failed ==
  /\ calls # <<>> /\ ~InTable(Innermost.at)
  /\ Back
  /\ LET c == Innermost.by
     IN  handle' = IF Live(c) /\ table[handle[c].id] = 0
                     THEN [handle EXCEPT ![c].id = CLOSED] ELSE handle
  /\ UNCHANGED <<opened, kind, tableVars, claimVars, touched, untold>>

-----------------------------------------------------------------------------
(* The loop: Poll::run_for *)

(* serve_q: a listener takes a slot like any other and keeps it.           *)
Listen(c) ==
  /\ Open(c, "listener")
  /\ \E i \in Ids, a \in Addrs : Register(c, i, a)
  /\ UNCHANGED <<peer, claimVars, handle, calls, touched>>

(* Rayfall code opens a connection (.ipc.open), in a frame of an exchange  *)
(* or not: no handle of this crate is issued for it.                       *)
RayfallOpen(c) ==
  /\ Open(c, "opened")
  /\ \E i \in Ids, a \in Addrs : Register(c, i, a)
  /\ UNCHANGED <<peer, claimVars, handle, calls, touched>>

Accept(c) ==
  /\ calls = <<>> /\ \E i \in Ids : table[i] # 0 /\ kind[table[i]] = "listener"
  /\ Open(c, "accepted")
  /\ \E i \in Ids, a \in Addrs : Register(c, i, a)
  /\ UNCHANGED <<peer, claimVars, handle, calls, touched>>

(* The end of a connection is read, or its keepalive expires.              *)
LoopCloses(c) ==
  /\ calls = <<>> /\ peer[c]
  /\ \E i \in Ids : table[i] = c /\ Deregister(i)
  /\ untold' = untold \cup {c}
  /\ UNCHANGED <<opened, kind, peer, addr, claimVars, handle, calls, touched>>

PeerLeaves(c) ==
  /\ kind[c] \notin {"none", "listener"} /\ ~peer[c]
  /\ peer' = [peer EXCEPT ![c] = TRUE]
  /\ UNCHANGED <<opened, kind, addr, table, claimVars, handle, calls, touched, untold>>

-----------------------------------------------------------------------------
QStep == \E c \in Conns : QConnect(c) \/ DropQConn(c) \/ Attach(c) \/ SubSend(c) \/ DropSub(c)

ClientStep ==
  \E c \in Conns : \/ Connect(c) \/ RoundTrip(c) \/ RoundTripOnNothing(c)
                   \/ SendAsync(c) \/ DropClient(c)

ExchangeStep == Answered \/ CoreCloses \/ Failed

LoopStep ==
  \E c \in Conns : \/ Listen(c) \/ RayfallOpen(c) \/ Accept(c)
                   \/ LoopCloses(c) \/ PeerLeaves(c)

Next == QStep \/ ClientStep \/ ExchangeStep \/ LoopStep

Spec == Init /\ [][Next]_vars

-----------------------------------------------------------------------------
(* Properties *)

Crossed == touched.by # 0 /\ touched.by # touched.at

(* A Subscription never reaches another Subscription's connection, whatever *)
(* slots and addresses are used again: the token tells them apart          *)
(* (q.rs:137-147).                                                         *)
SubscriptionsNeverCross ==
  Crossed /\ kind[touched.by] = "sub" => kind[touched.at] # "sub"

(* A Subscription whose connection is up is alive, whoever else claims and *)
(* gives up slots: the drop of a stale handle does not take its successor's *)
(* claim away (q.rs:163-172).                                              *)
ConnectedIsAlive ==
  \A c \in Conns : handle[c].type = "sub" /\ InTable(c) => IsAlive(c)

(* ATTACHED does not grow with each reconnect: every claim in it belongs   *)
(* to a Subscription that is still held, one claim each.                   *)
ClaimsAreHeld ==
  \A i \in Ids : attached[i] # 0 =>
    \E c \in Conns : /\ handle[c].type = "sub" /\ handle[c].id = i
                     /\ handle[c].token = attached[i]

(* A connection opened through a handle is closed through it: as long as   *)
(* it is in the table its handle is held and names its slot, so the drop   *)
(* reaches it.                                                             *)
ConnectionsAreHeld ==
  \A i \in Ids : table[i] # 0 /\ kind[table[i]] \in {"sub", "client"} =>
    handle[table[i]].type = kind[table[i]] /\ handle[table[i]].id = i

(* A TcpClient reaches a connection that is not its own only if it could   *)
(* not know that its own is gone: every loss that an exchange of its own   *)
(* reports makes it forget the slot (ipc.rs:204-212).                      *)
ToldClientsNeverCross ==
  Crossed /\ kind[touched.by] = "client" => touched.by \in untold
=============================================================================
