--------------------------- MODULE SelectorsProofs ---------------------------
(***************************************************************************)
(* Theorems about Selectors.tla, for any number of slots, addresses,       *)
(* connections and nested exchanges: what a handle reaches, and what it    *)
(* leaves behind.                                                          *)
(***************************************************************************)
EXTENDS Selectors, SequenceTheorems, TLAPS

(* Connections are numbered in the order they are opened, and a handle is  *)
(* of the kind of its connection.                                          *)
Numbering ==
  /\ \A c \in Conns : c > opened => kind[c] = "none" /\ handle[c].type = "none"
  /\ \A i \in Ids : table[i] <= opened
  /\ \A c \in Conns : handle[c].type \in {"qconn", "sub"} => kind[c] = "sub"
  /\ \A c \in Conns : handle[c].type = "client" => kind[c] = "client"

(* A connection is in one slot at most, the one its handle names.          *)
Placement ==
  /\ \A i, j \in Ids : table[i] # 0 /\ table[i] = table[j] => i = j
  /\ ConnectionsAreHeld

(* A claim is the mark of one Subscription: tokens are never used again.   *)
Claims ==
  /\ \A i \in Ids : attached[i] < token
  /\ \A c \in Conns : handle[c].type = "sub" =>
       /\ handle[c].id \in Ids /\ handle[c].token # 0 /\ handle[c].token < token
       /\ InTable(c) => addr[c] = handle[c].data /\ attached[handle[c].id] = handle[c].token
  /\ \A c, d \in Conns :
       /\ handle[c].type = "sub" /\ handle[d].type = "sub"
       /\ handle[c].token = handle[d].token
       => c = d

(* A TcpClient that was told of every loss of its connection still has it, *)
(* or is inside the exchange that is losing it.                            *)
Told ==
  \A c \in Conns \ untold :
    Live(c) => \/ table[handle[c].id] = c
               \/ table[handle[c].id] = 0 /\ Borrowed(c)

(* An exchange is of a handle still held, and on the connection it was     *)
(* issued for, or of a TcpClient that was not told.                        *)
Underway ==
  \A k \in DOMAIN calls :
    /\ handle[calls[k].by].type \in {"sub", "client"}
    /\ kind[calls[k].by] = "client" /\ calls[k].by # calls[k].at => calls[k].by \in untold

(* What was touched last, and by whom.                                     *)
Touched ==
  /\ touched.by # 0 => touched.by <= opened /\ touched.at # 0 /\ touched.at <= opened
  /\ SubscriptionsNeverCross
  /\ ToldClientsNeverCross

IInv ==
  /\ TypeOK /\ Numbering /\ Placement /\ Claims /\ ClaimsAreHeld
  /\ Told /\ Underway /\ Touched

-----------------------------------------------------------------------------
LEMMA InitIInv == Init => IInv
<1> SUFFICES ASSUME Init PROVE IInv
  OBVIOUS
<1> USE SelectorsAssumption DEF Init
<1>1. TypeOK
  BY DEF TypeOK, Kinds, Handle, NoHandle, Conns, Ids, CLOSED
<1>2. Numbering /\ Placement /\ ClaimsAreHeld
  BY DEF Numbering, Placement, ConnectionsAreHeld, ClaimsAreHeld, NoHandle
<1>3. Claims
  BY DEF Claims, NoHandle
<1>4. Told /\ Underway /\ Touched
  BY DEF Told, Live, NoHandle, Underway, Touched, SubscriptionsNeverCross,
         ToldClientsNeverCross, Crossed
<1> QED
  BY <1>1, <1>2, <1>3, <1>4 DEF IInv

(* The handle of a connection in the table names its slot, the only one it *)
(* is in.                                                                  *)
LEMMA Found ==
  ASSUME IInv, NEW i \in Ids, table[i] # 0, kind[table[i]] \in {"sub", "client"}
  PROVE  /\ table[i] \in Conns /\ handle[table[i]].type = kind[table[i]]
         /\ handle[table[i]].id = i
BY DEF IInv, TypeOK, Conns, Placement, ConnectionsAreHeld

(* What a Subscription that is alive has in its slot is its connection, or *)
(* no Subscription's.                                                      *)
LEMMA AliveReaches ==
  ASSUME IInv, NEW c \in Conns, handle[c].type = "sub", IsAlive(c)
  PROVE  /\ handle[c].id \in Ids /\ table[handle[c].id] \in Conns
         /\ table[handle[c].id] <= opened
         /\ kind[table[handle[c].id]] = "sub" => table[handle[c].id] = c
<1>1. handle[c].id \in Ids
  BY DEF IInv, Claims
<1> DEFINE d == table[handle[c].id]
<1>2. d \in Conns /\ d <= opened
  BY <1>1 DEF IsAlive, IInv, TypeOK, Conns, Numbering
<1>3. ASSUME kind[d] = "sub" PROVE d = c
  <2>1. handle[d].type = "sub" /\ handle[d].id = handle[c].id
    BY <1>1, <1>2, <1>3, Found DEF IsAlive
  <2>2. attached[handle[c].id] = handle[d].token
    BY <1>1, <1>2, <2>1 DEF IInv, Claims, InTable
  <2> QED
    BY <1>2, <2>1, <2>2 DEF IInv, Claims, IsAlive
<1> QED
  BY <1>1, <1>2, <1>3

(* A Subscription whose connection is in the table is alive.               *)
LEMMA InTableAlive ==
  ASSUME IInv, NEW c \in Conns, handle[c].type = "sub", InTable(c)
  PROVE  IsAlive(c) /\ table[handle[c].id] = c
<1>1. PICK i \in Ids : table[i] = c
  BY DEF InTable
<1>2. kind[c] = "sub" /\ c # 0
  BY DEF IInv, Numbering, Conns
<1>3. handle[c].id = i
  BY <1>1, <1>2, Found
<1> QED
  BY <1>1, <1>2, <1>3 DEF IInv, Claims, IsAlive

(* What a live TcpClient has in its slot is its connection, or it was not  *)
(* told.                                                                   *)
LEMMA LiveReaches ==
  ASSUME IInv, NEW c \in Conns, Live(c), table[handle[c].id] # 0
  PROVE  /\ handle[c].id \in Ids /\ table[handle[c].id] \in Conns
         /\ table[handle[c].id] <= opened /\ kind[c] = "client"
         /\ table[handle[c].id] = c \/ c \in untold
<1>1. handle[c].id \in Ids
  BY DEF IInv, TypeOK, Handle, Live
<1> QED
  BY <1>1 DEF IInv, TypeOK, Conns, Numbering, Told, Live

-----------------------------------------------------------------------------
(* Whose an exchange is and what it is on are connections.                 *)
LEMMA CallsTyped ==
  ASSUME TypeOK, NEW k \in DOMAIN calls
  PROVE  calls[k].by \in Conns /\ calls[k].at \in Conns
<1>1. ASSUME NEW S, NEW s \in Seq(S), NEW n \in DOMAIN s PROVE s[n] \in S
  BY <1>1
<1>2. calls \in Seq([by : Conns, at : Conns])
  BY DEF TypeOK
<1>3. calls[k] \in [by : Conns, at : Conns]
  BY <1>1, <1>2
<1> QED
  BY <1>3

(* A connection is put in the lowest free slot, by whoever.                *)
LEMMA Registered ==
  ASSUME IInv, NEW c \in Conns, NEW i \in Ids, NEW a \in Addrs, Register(c, i, a),
         ~InTable(c), handle[c].type \in {"none", "qconn"},
         opened' \in opened..MaxConns, c <= opened', c > opened \/ kind' = kind,
         kind' \in [Conns -> Kinds], \A d \in Conns : d # c => kind'[d] = kind[d],
         handle' \in [Conns -> Handle], \A d \in Conns : d # c => handle'[d] = handle[d],
         \/ kind'[c] \in {"sub", "client"} /\ handle'[c].type = kind'[c] /\ handle'[c].id = i
         \/ kind'[c] \notin {"sub", "client"} /\ handle'[c].type = "none",
         \/ kind'[c] # "sub" /\ UNCHANGED claimVars
         \/ /\ kind'[c] = "sub" /\ handle'[c].token = token /\ handle'[c].data = a
            /\ attached' = [attached EXCEPT ![i] = token] /\ token' = token + 1,
         UNCHANGED <<peer, calls, touched>>
  PROVE  IInv'
<1> USE SelectorsAssumption DEF SelectorsAssumption
<1>1. /\ table[i] = 0 /\ table' = [table EXCEPT ![i] = c]
      /\ addr' = [addr EXCEPT ![c] = a]
      /\ untold' = untold \cup {d \in Conns : Borrowed(d) /\ handle[d].id = i}
  BY DEF Register
<1>2. /\ c # 0 /\ table'[i] = c /\ \A j \in Ids : j # i => table'[j] = table[j]
      /\ addr'[c] = a /\ \A d \in Conns : d # c => addr'[d] = addr[d]
  BY <1>1 DEF IInv, TypeOK, Conns
<1>3. \A j \in Ids : table[j] # c
  BY DEF InTable
<1>4. \A d \in Conns : d # c => (InTable(d)' <=> InTable(d))
  BY <1>1, <1>2, <1>3 DEF InTable, Conns
<1>5. TypeOK'
  <2>1. attached' \in [Ids -> Nat] /\ token' \in Nat \ {0}
    <3>1. attached \in [Ids -> Nat] /\ token \in Nat \ {0}
      BY DEF IInv, TypeOK
    <3>2. CASE UNCHANGED claimVars
      BY <3>1, <3>2 DEF claimVars
    <3>3. CASE attached' = [attached EXCEPT ![i] = token] /\ token' = token + 1
      BY <3>1, <3>3
    <3> QED
      BY <3>2, <3>3
  <2>2. opened' \in 0..MaxConns
    BY DEF IInv, TypeOK
  <2>3. table' \in [Ids -> 0..MaxConns] /\ addr' \in [Conns -> Addrs \cup {NoAddr}]
    BY <1>1 DEF IInv, TypeOK, Conns
  <2>4. untold' \in SUBSET Conns
    BY <1>1 DEF IInv, TypeOK
  <2> QED
    BY <2>1, <2>2, <2>3, <2>4 DEF IInv, TypeOK
<1>6. Numbering'
  <2>1. \A d \in Conns : d > opened' => kind'[d] = "none" /\ handle'[d].type = "none"
    BY DEF IInv, TypeOK, Numbering, Conns
  <2>2. ASSUME NEW j \in Ids PROVE table'[j] <= opened'
    <3>1. opened' \in opened..MaxConns /\ opened \in 0..MaxConns
      BY DEF IInv, TypeOK
    <3>2. table[j] \in 0..MaxConns /\ table[j] <= opened
      BY DEF IInv, TypeOK, Numbering
    <3> QED
      BY <1>2, <3>1, <3>2
  <2>3. \A d \in Conns : /\ handle'[d].type \in {"qconn", "sub"} => kind'[d] = "sub"
                         /\ handle'[d].type = "client" => kind'[d] = "client"
    BY DEF IInv, Numbering
  <2> QED
    BY <2>1, <2>2, <2>3 DEF Numbering
<1>7. Placement'
  <2>1. ASSUME NEW j \in Ids, NEW k \in Ids, table'[j] # 0, table'[j] = table'[k]
        PROVE  j = k
    BY <1>2, <1>3, <2>1 DEF IInv, Placement
  <2>2. ASSUME NEW j \in Ids, table'[j] # 0, kind'[table'[j]] \in {"sub", "client"}
        PROVE  handle'[table'[j]].type = kind'[table'[j]] /\ handle'[table'[j]].id = j
    <3>1. CASE j = i
      BY <1>2, <2>2, <3>1
    <3>2. CASE j # i
      <4>1. table'[j] = table[j] /\ table[j] # c /\ table[j] \in Conns
        BY <1>2, <1>3, <2>2, <3>2 DEF IInv, TypeOK, Conns
      <4> QED
        BY <2>2, <4>1, Found
    <3> QED
      BY <3>1, <3>2
  <2> QED
    BY <2>1, <2>2 DEF Placement, ConnectionsAreHeld
<1>8. Claims'
  <2>1. \A j \in Ids : attached'[j] < token'
    <3>1. token \in Nat /\ attached \in [Ids -> Nat] /\ \A j \in Ids : attached[j] < token
      BY DEF IInv, TypeOK, Claims
    <3>2. CASE UNCHANGED claimVars
      BY <3>1, <3>2 DEF claimVars
    <3>3. CASE attached' = [attached EXCEPT ![i] = token] /\ token' = token + 1
      BY <3>1, <3>3
    <3> QED
      BY <3>2, <3>3
  <2>2. ASSUME NEW d \in Conns, handle'[d].type = "sub"
        PROVE  /\ handle'[d].id \in Ids /\ handle'[d].token # 0 /\ handle'[d].token < token'
               /\ InTable(d)' => /\ addr'[d] = handle'[d].data
                                 /\ attached'[handle'[d].id] = handle'[d].token
    <3>1. CASE d = c
      BY <1>2, <2>2, <3>1 DEF IInv, TypeOK
    <3>2. CASE d # c
      <4>1. handle'[d] = handle[d] /\ handle[d].type = "sub" /\ addr'[d] = addr[d]
        BY <1>2, <2>2, <3>2
      <4>2. handle[d].id \in Ids /\ handle[d].token # 0 /\ handle[d].token < token
        BY <4>1 DEF IInv, Claims
      <4>3. handle[d].token < token'
        BY <4>2 DEF IInv, TypeOK, Handle, claimVars
      <4>4. ASSUME InTable(d)'
            PROVE  addr[d] = handle[d].data /\ attached'[handle[d].id] = handle[d].token
        <5>1. InTable(d)
          BY <1>4, <3>2, <4>4
        <5>2. addr[d] = handle[d].data /\ attached[handle[d].id] = handle[d].token
          BY <4>1, <5>1 DEF IInv, Claims
        <5>3. table[handle[d].id] = d
          BY <4>1, <5>1, InTableAlive
        <5>4. handle[d].id # i
          BY <1>1, <5>3 DEF Conns
        <5> QED
          BY <4>2, <5>2, <5>4 DEF claimVars, IInv, TypeOK
      <4> QED
        BY <4>1, <4>2, <4>3, <4>4
    <3> QED
      BY <3>1, <3>2
  <2>3. ASSUME NEW d \in Conns, NEW e \in Conns, handle'[d].type = "sub",
               handle'[e].type = "sub", handle'[d].token = handle'[e].token
        PROVE  d = e
    <3>1. \A f \in Conns : handle[f].type = "sub" => handle[f].token < token /\ handle[f].token # token
      BY DEF IInv, Claims, TypeOK, Handle
    <3>2. handle'[c].type = "sub" => handle'[c].token = token
      OBVIOUS
    <3> QED
      BY <2>3, <3>1, <3>2 DEF IInv, Claims
  <2> QED
    BY <2>1, <2>2, <2>3 DEF Claims
<1>9. ClaimsAreHeld'
  <2>1. SUFFICES ASSUME NEW j \in Ids, attached'[j] # 0
                 PROVE  \E d \in Conns : /\ handle'[d].type = "sub" /\ handle'[d].id = j
                                         /\ handle'[d].token = attached'[j]
    BY DEF ClaimsAreHeld
  <2>2. CASE kind'[c] = "sub" /\ j = i /\ attached' = [attached EXCEPT ![i] = token]
    BY <2>2 DEF IInv, TypeOK
  <2>3. CASE attached'[j] = attached[j]
    <3>1. PICK d \in Conns : handle[d].type = "sub" /\ handle[d].id = j /\ handle[d].token = attached[j]
      BY <2>1, <2>3 DEF IInv, ClaimsAreHeld
    <3> QED
      BY <2>3, <3>1
  <2> QED
    BY <2>2, <2>3 DEF IInv, TypeOK, claimVars
<1>10. Told'
  <2>1. SUFFICES ASSUME NEW d \in Conns, d \notin untold', Live(d)'
                 PROVE  \/ table'[handle'[d].id] = d
                        \/ table'[handle'[d].id] = 0 /\ Borrowed(d)'
    BY DEF Told
  <2>2. CASE d = c
    BY <1>2, <2>1, <2>2 DEF Live
  <2>3. CASE d # c
    <3>1. handle'[d] = handle[d] /\ Live(d) /\ d \notin untold
      BY <1>1, <2>1, <2>3 DEF Live
    <3>2. handle[d].id \in Ids
      BY <3>1 DEF IInv, TypeOK, Handle, Live
    <3>3. CASE table[handle[d].id] = d
      BY <1>1, <1>2, <3>1, <3>2, <3>3 DEF Conns
    <3>4. CASE table[handle[d].id] = 0 /\ Borrowed(d)
      <4>1. handle[d].id # i
        BY <1>1, <2>1, <3>4
      <4> QED
        BY <1>2, <3>1, <3>2, <3>4, <4>1 DEF Borrowed
    <3> QED
      BY <3>1, <3>3, <3>4 DEF IInv, Told
  <2> QED
    BY <2>2, <2>3
<1>11. Underway'
  <2>1. SUFFICES ASSUME NEW k \in DOMAIN calls
                 PROVE  /\ handle'[calls[k].by].type \in {"sub", "client"}
                        /\ kind'[calls[k].by] = "client" /\ calls[k].by # calls[k].at
                             => calls[k].by \in untold'
    BY DEF Underway
  <2>2. calls[k].by \in Conns
    BY CallsTyped DEF IInv
  <2>3. /\ handle[calls[k].by].type \in {"sub", "client"}
        /\ kind[calls[k].by] = "client" /\ calls[k].by # calls[k].at => calls[k].by \in untold
    BY DEF IInv, Underway
  <2> QED
    BY <1>1, <2>2, <2>3
<1>12. Touched'
  <2>1. \A d \in Conns : d <= opened => kind'[d] = kind[d]
    BY DEF IInv, TypeOK, Conns
  <2>2. touched.by # 0 => touched.by \in Conns /\ touched.at \in Conns
    BY DEF IInv, TypeOK, Touched, Conns
  <2>3. touched.by # 0 => touched.by <= opened' /\ touched.at # 0 /\ touched.at <= opened'
    BY <2>2 DEF IInv, TypeOK, Touched, Conns
  <2> QED
    BY <1>1, <2>1, <2>2, <2>3 DEF IInv, Touched, SubscriptionsNeverCross, ToldClientsNeverCross, Crossed
<1> QED
  BY <1>5, <1>6, <1>7, <1>8, <1>9, <1>10, <1>11, <1>12 DEF IInv


(* A connection that is opened takes a number nothing has yet.             *)
LEMMA Opened ==
  ASSUME IInv, NEW c \in Conns, NEW k \in Kinds, Open(c, k)
  PROVE  /\ ~InTable(c) /\ handle[c].type = "none" /\ c > opened
         /\ opened' = c /\ opened' \in opened..MaxConns
         /\ kind' \in [Conns -> Kinds] /\ kind'[c] = k
         /\ \A d \in Conns : d # c => kind'[d] = kind[d]
<1>1. /\ c = opened + 1 /\ opened' = c /\ opened \in 0..MaxConns
      /\ kind' = [kind EXCEPT ![c] = k] /\ kind \in [Conns -> Kinds]
  BY DEF Open, IInv, TypeOK
<1>2. c > opened /\ opened' \in opened..MaxConns
  BY <1>1, SelectorsAssumption DEF Conns
<1>3. handle[c].type = "none"
  BY <1>2 DEF IInv, Numbering
<1>4. ~InTable(c)
  <2> SUFFICES ASSUME NEW i \in Ids, table[i] = c PROVE FALSE
    BY DEF InTable
  <2>1. table[i] <= opened
    BY DEF IInv, Numbering
  <2> QED
    BY <1>1, <2>1
<1> QED
  BY <1>1, <1>2, <1>3, <1>4

LEMMA OpenSteps ==
  ASSUME IInv, NEW c \in Conns, Connect(c) \/ Listen(c) \/ RayfallOpen(c) \/ Accept(c)
  PROVE  IInv'
<1>1. CASE Connect(c)
  <2>1. Open(c, "client") /\ UNCHANGED <<peer, claimVars, calls, touched>>
    BY <1>1 DEF Connect
  <2>2. PICK i \in Ids, a \in Addrs :
          /\ Register(c, i, a)
          /\ handle' = [handle EXCEPT ![c] =
                          [type |-> "client", id |-> i, data |-> NoAddr, token |-> 0]]
    BY <1>1 DEF Connect
  <2>3. /\ handle' \in [Conns -> Handle] /\ \A d \in Conns : d # c => handle'[d] = handle[d]
        /\ handle'[c].type = "client" /\ handle'[c].id = i
    BY <2>2 DEF IInv, TypeOK, Handle
  <2>4. "client" \in Kinds
    BY DEF Kinds
  <2>5. /\ ~InTable(c) /\ handle[c].type = "none" /\ c > opened
        /\ opened' = c /\ opened' \in opened..MaxConns
        /\ kind' \in [Conns -> Kinds] /\ kind'[c] = "client"
        /\ \A d \in Conns : d # c => kind'[d] = kind[d]
    BY <2>1, <2>4, Opened
  <2>6. c <= opened'
    BY <2>5 DEF Conns
  <2> QED
    BY <2>1, <2>2, <2>3, <2>5, <2>6, Registered
<1>2. CASE Listen(c) \/ RayfallOpen(c) \/ Accept(c)
  <2>1. PICK k \in {"listener", "opened", "accepted"} : Open(c, k)
    BY <1>2 DEF Listen, RayfallOpen, Accept
  <2>2. PICK i \in Ids, a \in Addrs : Register(c, i, a)
    BY <1>2 DEF Listen, RayfallOpen, Accept
  <2>3. UNCHANGED <<peer, claimVars, handle, calls, touched>>
    BY <1>2 DEF Listen, RayfallOpen, Accept
  <2>4. k \in Kinds
    BY DEF Kinds
  <2>5. /\ ~InTable(c) /\ handle[c].type = "none" /\ c > opened
        /\ opened' = c /\ opened' \in opened..MaxConns
        /\ kind' \in [Conns -> Kinds] /\ kind'[c] = k
        /\ \A d \in Conns : d # c => kind'[d] = kind[d]
    BY <2>1, <2>4, Opened
  <2>6. handle' \in [Conns -> Handle] /\ \A d \in Conns : handle'[d] = handle[d]
    BY <2>3 DEF IInv, TypeOK
  <2>7. c <= opened' /\ kind'[c] \notin {"sub", "client"} /\ handle'[c].type = "none"
    BY <2>5, <2>6 DEF Conns
  <2> QED
    BY <2>2, <2>3, <2>5, <2>6, <2>7, Registered
<1> QED
  BY <1>1, <1>2

LEMMA AttachStep ==
  ASSUME IInv, NEW c \in Conns, Attach(c)
  PROVE  IInv'
<1>1. PICK i \in Ids, a \in Addrs :
        /\ Register(c, i, a)
        /\ attached' = [attached EXCEPT ![i] = token]
        /\ token' = token + 1
        /\ handle' = [handle EXCEPT ![c] =
                        [type |-> "sub", id |-> i, data |-> a, token |-> token]]
  BY DEF Attach
<1>2. handle[c].type = "qconn" /\ UNCHANGED <<opened, kind, peer, calls, touched>>
  BY DEF Attach
<1>3. kind[c] = "sub" /\ kind \in [Conns -> Kinds]
  BY <1>2 DEF IInv, TypeOK, Numbering
<1>4. ~InTable(c)
  BY <1>2, <1>3, Found DEF InTable, Conns
<1>5. /\ handle' \in [Conns -> Handle] /\ \A d \in Conns : d # c => handle'[d] = handle[d]
      /\ handle'[c].type = "sub" /\ handle'[c].id = i
      /\ handle'[c].token = token /\ handle'[c].data = a
  BY <1>1 DEF IInv, TypeOK, Handle
<1>6. opened' \in opened..MaxConns /\ c <= opened'
  <2>1. opened \in 0..MaxConns /\ c \in Nat
    BY DEF IInv, TypeOK, Conns
  <2>2. ~(c > opened)
    BY <1>3 DEF IInv, Numbering
  <2> QED
    BY <1>2, <2>1, <2>2, SelectorsAssumption
<1> QED
  BY <1>1, <1>2, <1>3, <1>4, <1>5, <1>6, Registered

-----------------------------------------------------------------------------
(* A slot is freed and no handle given up: whoever was in it is told of it *)
(* by its exchange, or is one of those that are not told.                  *)
LEMMA Freed ==
  ASSUME IInv, NEW i \in Ids, table[i] # 0, Deregister(i),
         untold' \in SUBSET Conns, untold \subseteq untold',
         table[i] \in untold' \/ Borrowed(table[i]),
         UNCHANGED <<opened, kind, peer, addr, claimVars, handle, calls, touched>>
  PROVE  IInv'
<1>1. /\ table' = [table EXCEPT ![i] = 0] /\ table' \in [Ids -> 0..MaxConns]
      /\ \A j \in Ids : j # i => table'[j] = table[j]
      /\ table'[i] = 0
  BY SelectorsAssumption DEF Deregister, IInv, TypeOK
<1>2. TypeOK'
  BY <1>1 DEF IInv, TypeOK, claimVars
<1>3. Numbering'
  BY <1>1 DEF IInv, TypeOK, Numbering
<1>4. \A d \in Conns : InTable(d)' => InTable(d)
  BY <1>1 DEF InTable, Conns
<1>5. Placement'
  BY <1>1 DEF IInv, Placement, ConnectionsAreHeld
<1>6. Claims'
  BY <1>4 DEF IInv, Claims, claimVars
<1>7. ClaimsAreHeld'
  BY DEF IInv, ClaimsAreHeld, claimVars
<1>8. Told'
  <2> SUFFICES ASSUME NEW d \in Conns, d \notin untold', Live(d)'
               PROVE  table'[handle[d].id] = d \/ (table'[handle[d].id] = 0 /\ Borrowed(d))
    BY DEF Told, Borrowed
  <2>1. Live(d) /\ d \notin untold /\ handle[d].id \in Ids
    BY DEF Live, IInv, TypeOK, Handle
  <2>2. table[handle[d].id] = d \/ (table[handle[d].id] = 0 /\ Borrowed(d))
    BY <2>1 DEF IInv, Told
  <2> QED
    BY <1>1, <2>1, <2>2
<1>9. Underway' /\ Touched'
  BY DEF IInv, Underway, Touched, SubscriptionsNeverCross, ToldClientsNeverCross, Crossed
<1> QED
  BY <1>2, <1>3, <1>5, <1>6, <1>7, <1>8, <1>9 DEF IInv

LEMMA CoreClosesStep ==
  ASSUME IInv, CoreCloses
  PROVE  IInv'
<1>1. PICK i \in Ids : table[i] = Innermost.at /\ Deregister(i)
  BY DEF CoreCloses
<1>2. /\ calls # <<>> /\ untold' = untold \cup ({Innermost.at} \ {Innermost.by})
      /\ UNCHANGED <<opened, kind, peer, addr, claimVars, handle, calls, touched>>
  BY DEF CoreCloses
<1>3. calls \in Seq([by : Conns, at : Conns]) /\ Len(calls) \in DOMAIN calls
  BY <1>2 DEF IInv, TypeOK
<1>4. Innermost.at \in Conns
  BY <1>3, CallsTyped DEF Innermost, IInv
<1>5. Innermost.at \in untold' \/ Borrowed(Innermost.at)
  BY <1>2, <1>3 DEF Borrowed, Innermost
<1>6. untold' \in SUBSET Conns /\ untold \subseteq untold'
  BY <1>2, <1>4 DEF IInv, TypeOK
<1>7. table[i] # 0
  BY <1>1, <1>4 DEF Conns
<1> QED
  BY <1>1, <1>2, <1>5, <1>6, <1>7, Freed

LEMMA LoopClosesStep ==
  ASSUME IInv, NEW c \in Conns, LoopCloses(c)
  PROVE  IInv'
<1>1. PICK i \in Ids : table[i] = c /\ Deregister(i)
  BY DEF LoopCloses
<1>2. table[i] # 0 /\ untold' \in SUBSET Conns /\ untold \subseteq untold' /\ table[i] \in untold'
  BY <1>1 DEF LoopCloses, IInv, TypeOK, Conns
<1>3. UNCHANGED <<opened, kind, peer, addr, claimVars, handle, calls, touched>>
  BY DEF LoopCloses
<1> QED
  BY <1>1, <1>2, <1>3, Freed

-----------------------------------------------------------------------------
(* A handle that no exchange borrows is given up, and with it what is in   *)
(* its slot, or else its connection is gone already.                       *)
LEMMA Dropped ==
  ASSUME IInv, NEW c \in Conns, handle[c].type \in {"sub", "client"}, ~Borrowed(c),
         handle' = [handle EXCEPT ![c] = NoHandle],
         \/ UNCHANGED <<table, touched, untold>> /\ ~InTable(c)
         \/ /\ handle[c].id \in Ids /\ CloseSlot(c)
            /\ table[handle[c].id] \in Conns /\ table[handle[c].id] <= opened
            /\ kind[c] = "sub" /\ kind[table[handle[c].id]] = "sub" => table[handle[c].id] = c
            /\ kind[c] = "client" => table[handle[c].id] = c \/ c \in untold,
         \/ handle[c].type = "client" /\ attached' = attached
         \/ /\ handle[c].type = "sub"
            /\ attached' = IF attached[handle[c].id] = handle[c].token
                             THEN [attached EXCEPT ![handle[c].id] = 0] ELSE attached,
         UNCHANGED <<opened, kind, peer, addr, token, calls>>
  PROVE  IInv'
<1> DEFINE i == handle[c].id
           d == table[i]
<1> USE SelectorsAssumption DEF SelectorsAssumption
<1>1. /\ handle' \in [Conns -> Handle] /\ handle'[c].type = "none"
      /\ \A e \in Conns : e # c => handle'[e] = handle[e]
  BY DEF IInv, TypeOK, Handle, NoHandle, CLOSED
<1>2. /\ table' \in [Ids -> 0..MaxConns]
      /\ \A j \in Ids : table'[j] = table[j] \/ (table'[j] = 0 /\ j = i)
      /\ untold \subseteq untold' /\ untold' \in SUBSET Conns
  <2>1. table \in [Ids -> 0..MaxConns] /\ untold \in SUBSET Conns
    BY DEF IInv, TypeOK
  <2>2. CASE UNCHANGED <<table, touched, untold>>
    BY <2>1, <2>2
  <2>3. CASE i \in Ids /\ CloseSlot(c) /\ d \in Conns
    <3>1. table' = [table EXCEPT ![i] = 0] /\ untold' = untold \cup ({d} \ {c})
      BY <2>3 DEF CloseSlot, Deregister
    <3> QED
      BY <2>1, <2>3, <3>1
  <2> QED
    BY <2>2, <2>3
<1>3. \A e \in Conns : InTable(e)' => InTable(e)
  BY <1>2 DEF InTable, Conns
<1>4. ~InTable(c)'
  <2>1. CASE ~InTable(c)
    BY <1>3, <2>1
  <2>2. CASE InTable(c) /\ i \in Ids /\ CloseSlot(c)
    <3>1. \A j \in Ids : table[j] = c => j = i
      <4>1. kind[c] \in {"sub", "client"} /\ c # 0
        BY DEF IInv, Numbering, Conns
      <4> QED
        BY <4>1, Found
    <3>2. table'[i] = 0
      BY <2>2 DEF CloseSlot, Deregister, IInv, TypeOK
    <3> QED
      BY <1>2, <3>1, <3>2 DEF InTable, Conns
  <2> QED
    BY <2>1, <2>2
<1>5. /\ attached' \in [Ids -> Nat]
      /\ \A j \in Ids : attached'[j] = attached[j] \/ attached'[j] = 0
      /\ \A j \in Ids : attached'[j] # attached[j] =>
           /\ handle[c].type = "sub" /\ j = i /\ attached[j] = handle[c].token
  <2>1. attached \in [Ids -> Nat]
    BY DEF IInv, TypeOK
  <2>2. CASE attached' = attached
    BY <2>1, <2>2
  <2>3. CASE /\ handle[c].type = "sub" /\ attached[i] = handle[c].token
             /\ attached' = [attached EXCEPT ![i] = 0]
    BY <2>1, <2>3
  <2> QED
    BY <2>2, <2>3
<1>6. touched' = touched \/ (i \in Ids /\ touched' = [by |-> c, at |-> d] /\ d \in Conns)
  BY DEF CloseSlot, Reaches
<1>7. TypeOK'
  <2>1. touched' \in [by : 0..MaxConns, at : 0..MaxConns]
    BY <1>6 DEF IInv, TypeOK, Conns
  <2> QED
    BY <1>1, <1>2, <1>5, <2>1 DEF IInv, TypeOK
<1>8. Numbering'
  <2>1. \A j \in Ids : table'[j] <= opened'
    BY <1>2 DEF IInv, TypeOK, Numbering
  <2> QED
    BY <1>1, <2>1 DEF IInv, Numbering
<1>9. Placement'
  <2>1. ASSUME NEW j \in Ids, NEW k \in Ids, table'[j] # 0, table'[j] = table'[k]
        PROVE  j = k
    BY <1>2, <2>1 DEF IInv, Placement
  <2>2. ASSUME NEW j \in Ids, table'[j] # 0, kind'[table'[j]] \in {"sub", "client"}
        PROVE  handle'[table'[j]].type = kind'[table'[j]] /\ handle'[table'[j]].id = j
    <3>1. table'[j] = table[j] /\ table[j] # c
      BY <1>2, <1>4, <2>2 DEF InTable
    <3> QED
      BY <1>1, <2>2, <3>1, Found
  <2> QED
    BY <2>1, <2>2 DEF Placement, ConnectionsAreHeld
<1>10. Claims'
  <2>1. \A j \in Ids : attached'[j] < token'
    BY <1>5 DEF IInv, TypeOK, Claims
  <2>2. ASSUME NEW e \in Conns, handle'[e].type = "sub"
        PROVE  /\ handle'[e].id \in Ids /\ handle'[e].token # 0 /\ handle'[e].token < token'
               /\ InTable(e)' => /\ addr'[e] = handle'[e].data
                                 /\ attached'[handle'[e].id] = handle'[e].token
    <3>1. e # c /\ handle'[e] = handle[e]
      BY <1>1, <2>2
    <3>2. handle[e].id \in Ids /\ handle[e].token # 0 /\ handle[e].token < token
      BY <2>2, <3>1 DEF IInv, Claims
    <3>3. ASSUME InTable(e)'
          PROVE  addr[e] = handle[e].data /\ attached'[handle[e].id] = handle[e].token
      <4>1. addr[e] = handle[e].data /\ attached[handle[e].id] = handle[e].token
        BY <1>3, <2>2, <3>1, <3>3 DEF IInv, Claims
      <4>2. handle[c].type = "sub" => handle[e].token # handle[c].token
        BY <2>2, <3>1 DEF IInv, Claims
      <4> QED
        BY <1>5, <3>2, <4>1, <4>2
    <3> QED
      BY <3>1, <3>2, <3>3
  <2>3. ASSUME NEW e \in Conns, NEW f \in Conns, handle'[e].type = "sub",
               handle'[f].type = "sub", handle'[e].token = handle'[f].token
        PROVE  e = f
    BY <1>1, <2>3 DEF IInv, Claims
  <2> QED
    BY <2>1, <2>2, <2>3 DEF Claims
<1>11. ClaimsAreHeld'
  <2>1. SUFFICES ASSUME NEW j \in Ids, attached'[j] # 0
                 PROVE  \E e \in Conns : /\ handle'[e].type = "sub" /\ handle'[e].id = j
                                         /\ handle'[e].token = attached'[j]
    BY DEF ClaimsAreHeld
  <2>2. attached'[j] = attached[j]
    BY <1>5, <2>1
  <2>3. PICK e \in Conns : handle[e].type = "sub" /\ handle[e].id = j /\ handle[e].token = attached[j]
    BY <2>1, <2>2 DEF IInv, ClaimsAreHeld
  <2>4. e # c
    <3> SUFFICES ASSUME e = c PROVE FALSE
      OBVIOUS
    <3>1. handle[c].type = "sub" /\ attached[i] = handle[c].token /\ i = j
      BY <2>3
    <3>2. attached' = [attached EXCEPT ![i] = 0]
      BY <3>1
    <3> QED
      BY <2>1, <3>1, <3>2 DEF IInv, TypeOK
  <2> QED
    BY <1>1, <2>2, <2>3, <2>4
<1>12. Told'
  <2> SUFFICES ASSUME NEW e \in Conns, e \notin untold', Live(e)'
               PROVE  table'[handle'[e].id] = e \/ (table'[handle'[e].id] = 0 /\ Borrowed(e))
    BY DEF Told, Borrowed
  <2>1. e # c /\ handle'[e] = handle[e] /\ Live(e) /\ e \notin untold
    BY <1>1, <1>2 DEF Live
  <2>2. handle[e].id \in Ids
    BY <2>1 DEF Live, IInv, TypeOK, Handle
  <2>3. table[handle[e].id] = e \/ (table[handle[e].id] = 0 /\ Borrowed(e))
    BY <2>1 DEF IInv, Told
  <2>4. ASSUME table'[handle[e].id] # table[handle[e].id] PROVE FALSE
    <3>1. CloseSlot(c) /\ handle[e].id = i
      BY <1>2, <2>2, <2>4
    <3>2. d = e
      BY <2>3, <3>1, <2>2, <2>4, <1>2
    <3> QED
      BY <2>1, <3>1, <3>2 DEF CloseSlot
  <2> QED
    BY <2>1, <2>3, <2>4
<1>13. Underway'
  <2> SUFFICES ASSUME NEW k \in DOMAIN calls
               PROVE  /\ handle'[calls[k].by].type \in {"sub", "client"}
                      /\ kind[calls[k].by] = "client" /\ calls[k].by # calls[k].at
                           => calls[k].by \in untold'
    BY DEF Underway
  <2>1. calls[k].by \in Conns /\ calls[k].by # c
    BY CallsTyped DEF IInv, Borrowed
  <2> QED
    BY <1>1, <1>2, <2>1 DEF IInv, Underway
<1>14. Touched'
  <2>1. CASE touched' = touched
    BY <1>2, <2>1 DEF IInv, Touched, SubscriptionsNeverCross, ToldClientsNeverCross, Crossed
  <2>2. CASE i \in Ids /\ CloseSlot(c) /\ d \in Conns
    <3>1. touched' = [by |-> c, at |-> d] /\ d # 0 /\ d <= opened
      BY <2>2, <1>6 DEF CloseSlot, Reaches, Conns, IInv, Numbering
    <3>2. c <= opened
      BY DEF IInv, TypeOK, Numbering, Conns
    <3>3. \/ d = c
          \/ kind[c] = "sub" /\ kind[d] # "sub"
          \/ kind[c] = "client" /\ c \in untold
      <4>1. kind[c] \in {"sub", "client"}
        BY DEF IInv, Numbering
      <4>2. CASE ~InTable(c) /\ UNCHANGED <<table, touched, untold>>
        <5>1. table'[i] = 0 /\ table[i] # 0
          BY <2>2 DEF CloseSlot, Deregister, IInv, TypeOK, Conns
        <5> QED
          BY <4>2, <5>1
      <4> QED
        BY <4>1, <4>2
    <3> QED
      BY <1>2, <3>1, <3>2, <3>3
      DEF Touched, SubscriptionsNeverCross, ToldClientsNeverCross, Crossed
  <2> QED
    BY <2>1, <2>2, <1>6
<1> QED
  BY <1>7, <1>8, <1>9, <1>10, <1>11, <1>12, <1>13, <1>14 DEF IInv

LEMMA DropSteps ==
  ASSUME IInv, NEW c \in Conns, DropSub(c) \/ DropClient(c)
  PROVE  IInv'
<1>1. /\ ~Borrowed(c) /\ handle' = [handle EXCEPT ![c] = NoHandle]
      /\ UNCHANGED <<opened, kind, peer, addr, token, calls>>
  BY DEF DropSub, DropClient, claimVars
<1>2. CASE DropSub(c)
  <2>1. /\ handle[c].type = "sub" /\ kind[c] = "sub"
        /\ attached' = IF attached[handle[c].id] = handle[c].token
                         THEN [attached EXCEPT ![handle[c].id] = 0] ELSE attached
    BY <1>2 DEF DropSub, IInv, Numbering
  <2>2. CASE IsAlive(c)
    <3>1. CloseSlot(c)
      BY <1>2, <2>2 DEF DropSub
    <3> QED
      BY <1>1, <2>1, <2>2, <3>1, AliveReaches, Dropped
  <2>3. CASE ~IsAlive(c)
    <3>1. ~InTable(c) /\ UNCHANGED <<table, touched, untold>>
      BY <1>2, <2>1, <2>3, InTableAlive DEF DropSub
    <3> QED
      BY <1>1, <2>1, <3>1, Dropped
  <2> QED
    BY <2>2, <2>3
<1>3. CASE DropClient(c)
  <2>1. handle[c].type = "client" /\ kind[c] = "client" /\ attached' = attached
    BY <1>3 DEF DropClient, claimVars, IInv, Numbering
  <2>2. CASE Live(c) /\ table[handle[c].id] # 0
    <3>1. CloseSlot(c)
      BY <1>3, <2>2 DEF DropClient
    <3> QED
      BY <1>1, <2>1, <2>2, <3>1, LiveReaches, Dropped
  <2>3. CASE ~(Live(c) /\ table[handle[c].id] # 0)
    <3>1. UNCHANGED <<table, touched, untold>>
      BY <1>3, <2>3 DEF DropClient
    <3>2. ~InTable(c)
      <4> SUFFICES ASSUME NEW j \in Ids, table[j] = c PROVE FALSE
        BY DEF InTable
      <4>1. table[j] # 0 /\ handle[c].id = j
        BY <2>1, Found DEF Conns
      <4> QED
        BY <2>1, <2>3, <4>1, SelectorsAssumption DEF Live, Ids, CLOSED
    <3> QED
      BY <1>1, <2>1, <3>1, <3>2, Dropped
  <2> QED
    BY <2>2, <2>3
<1> QED
  BY <1>2, <1>3

-----------------------------------------------------------------------------
(* A handle reaches what is in its slot, and begins an exchange on it or   *)
(* does not wait for an answer.                                            *)
LEMMA Reached ==
  ASSUME IInv, NEW c \in Conns, NEW d \in Conns, d <= opened, Reaches(c, d),
         \/ handle[c].type = "sub" /\ (kind[d] = "sub" => d = c)
         \/ handle[c].type = "client" /\ (d = c \/ c \in untold),
         \/ UNCHANGED calls
         \/ calls' = Append(calls, [by |-> c, at |-> d]) /\ Len(calls) < MaxCalls,
         UNCHANGED <<opened, kind, tableVars, claimVars, handle, untold>>
  PROVE  IInv'
<1> USE SelectorsAssumption DEF SelectorsAssumption
<1>1. kind[c] = handle[c].type /\ handle[c].type \in {"sub", "client"} /\ c <= opened /\ c # 0 /\ d # 0
  BY DEF IInv, TypeOK, Numbering, Conns
<1>2. /\ touched' = [by |-> c, at |-> d]
      /\ UNCHANGED <<opened, kind, peer, addr, table, attached, token, handle, untold>>
  BY DEF Reaches, tableVars, claimVars
<1>3. calls \in Seq([by : Conns, at : Conns]) /\ Len(calls) <= MaxCalls
  BY DEF IInv, TypeOK
<1>4. /\ calls' \in Seq([by : Conns, at : Conns]) /\ Len(calls') <= MaxCalls
      /\ \A k \in DOMAIN calls : k \in DOMAIN calls' /\ calls'[k] = calls[k]
      /\ \A k \in DOMAIN calls' \ DOMAIN calls : calls'[k] = [by |-> c, at |-> d]
  <2>1. CASE UNCHANGED calls
    BY <1>3, <2>1
  <2>2. CASE calls' = Append(calls, [by |-> c, at |-> d]) /\ Len(calls) < MaxCalls
    <3> DEFINE S == [by : Conns, at : Conns]
    <3>1. [by |-> c, at |-> d] \in S /\ calls \in Seq(S)
      BY <1>3
    <3> HIDE DEF S
    <3>2. /\ calls' \in Seq(S) /\ Len(calls') = Len(calls) + 1
          /\ \A k \in 1..Len(calls) : calls'[k] = calls[k]
          /\ calls'[Len(calls) + 1] = [by |-> c, at |-> d]
      BY <2>2, <3>1, AppendProperties
    <3>3. DOMAIN calls = 1..Len(calls) /\ DOMAIN calls' = 1..(Len(calls) + 1) /\ Len(calls) \in Nat
      BY <3>1, <3>2
    <3>4. calls' \in Seq(S) /\ Len(calls') <= MaxCalls
      <4>1. \A l \in Nat : l < MaxCalls => l + 1 <= MaxCalls
        OBVIOUS
      <4>2. Len(calls) + 1 <= MaxCalls
        BY <2>2, <3>3, <4>1
      <4> QED
        BY <3>2, <4>2
    <3>5. \A k \in DOMAIN calls : k \in DOMAIN calls' /\ calls'[k] = calls[k]
      BY <3>2, <3>3
    <3>6. \A k \in DOMAIN calls' \ DOMAIN calls : k = Len(calls) + 1
      BY <3>3
    <3> QED
      BY <3>2, <3>4, <3>5, <3>6 DEF S
  <2> QED
    BY <2>1, <2>2
<1>5. TypeOK'
  BY <1>2, <1>4 DEF IInv, TypeOK, Conns
<1>6. Numbering' /\ Placement' /\ ClaimsAreHeld'
  BY <1>2 DEF IInv, Numbering, Placement, ConnectionsAreHeld, ClaimsAreHeld
<1>7. Claims'
  BY <1>2 DEF IInv, Claims, InTable
<1>8. Told'
  <2>1. \A e \in Conns : Borrowed(e) => Borrowed(e)'
    BY <1>4 DEF Borrowed
  <2> QED
    BY <1>2, <2>1 DEF IInv, Told, Live
<1>9. Underway'
  <2> SUFFICES ASSUME NEW k \in DOMAIN calls'
               PROVE  /\ handle[calls'[k].by].type \in {"sub", "client"}
                      /\ kind[calls'[k].by] = "client" /\ calls'[k].by # calls'[k].at
                           => calls'[k].by \in untold
    BY <1>2 DEF Underway
  <2>1. CASE k \in DOMAIN calls
    BY <1>4, <2>1 DEF IInv, Underway
  <2>2. CASE k \notin DOMAIN calls
    BY <1>1, <1>4, <2>2
  <2> QED
    BY <2>1, <2>2
<1>10. Touched'
  BY <1>1, <1>2 DEF Touched, SubscriptionsNeverCross, ToldClientsNeverCross, Crossed
<1> QED
  BY <1>5, <1>6, <1>7, <1>8, <1>9, <1>10 DEF IInv

LEMMA ReachSteps ==
  ASSUME IInv, NEW c \in Conns, SubSend(c) \/ RoundTrip(c) \/ SendAsync(c)
  PROVE  IInv'
<1> DEFINE d == table[handle[c].id]
<1>1. /\ Reaches(c, d) /\ UNCHANGED <<opened, kind, tableVars, claimVars, handle, untold>>
      /\ \/ UNCHANGED calls
         \/ calls' = Append(calls, [by |-> c, at |-> d]) /\ Len(calls) < MaxCalls
  BY DEF SubSend, RoundTrip, SendAsync
<1>2. CASE SubSend(c)
  <2>1. handle[c].type = "sub" /\ IsAlive(c)
    BY <1>2 DEF SubSend
  <2>2. d \in Conns /\ d <= opened /\ (kind[d] = "sub" => d = c)
    BY <2>1, AliveReaches
  <2> QED
    BY <1>1, <2>1, <2>2, Reached
<1>3. CASE RoundTrip(c) \/ SendAsync(c)
  <2>1. Live(c) /\ d # 0 /\ handle[c].type = "client"
    BY <1>3 DEF RoundTrip, SendAsync, Live
  <2>2. d \in Conns /\ d <= opened /\ (d = c \/ c \in untold)
    BY <2>1, LiveReaches
  <2> QED
    BY <1>1, <2>1, <2>2, Reached
<1> QED
  BY <1>2, <1>3

(* An exchange comes back: its handle is as it was, or a TcpClient's that  *)
(* has forgotten an empty slot, and must have if it was told.              *)
LEMMA Returned ==
  ASSUME IInv, calls # <<>>, Back,
         LET c == Innermost.by
         IN  \/ handle' = handle /\ ~(c \notin untold /\ Live(c) /\ table[handle[c].id] = 0)
             \/ /\ Live(c) /\ table[handle[c].id] = 0
                /\ handle' = [handle EXCEPT ![c].id = CLOSED],
         UNCHANGED <<opened, kind, tableVars, claimVars, touched, untold>>
  PROVE  IInv'
<1> DEFINE c == Innermost.by
           n == Len(calls)
<1> USE SelectorsAssumption DEF SelectorsAssumption
<1>1. UNCHANGED <<opened, kind, peer, addr, table, attached, token, touched, untold>>
  BY DEF tableVars, claimVars
<1>2. calls \in Seq([by : Conns, at : Conns]) /\ n <= MaxCalls /\ n \in Nat \ {0}
  BY DEF IInv, TypeOK
<1>3. c \in Conns
  BY <1>2, CallsTyped DEF Innermost, IInv
<1>4. /\ calls' \in Seq([by : Conns, at : Conns]) /\ Len(calls') <= MaxCalls
      /\ DOMAIN calls' = 1..(n - 1)
      /\ \A k \in DOMAIN calls' : k \in DOMAIN calls /\ calls'[k] = calls[k]
      /\ DOMAIN calls = 1..n
  <2> DEFINE S == [by : Conns, at : Conns]
  <2>1. calls \in Seq(S) /\ calls' = SubSeq(calls, 1, n - 1)
    BY <1>2 DEF Back
  <2> HIDE DEF S
  <2>2. \A k \in 1..(n - 1) : calls[k] \in S
    BY <1>2, <2>1
  <2>3. /\ calls' \in Seq(S) /\ Len(calls') = n - 1
        /\ \A k \in 1..(n - 1) : calls'[k] = calls[k]
    <3>1. n - 1 \in Nat /\ \A k \in 1..(n - 1) : calls[k] \in S
      BY <1>2, <2>2
    <3>2. /\ calls' \in Seq(S) /\ Len(calls') = IF 1 <= n - 1 THEN (n - 1) - 1 + 1 ELSE 0
          /\ \A k \in 1..((n - 1) - 1 + 1) : calls'[k] = calls[1 + k - 1]
      BY <2>1, <3>1, SubSeqProperties
    <3>3. \A k \in 1..(n - 1) : k \in 1..((n - 1) - 1 + 1) /\ 1 + k - 1 = k
      BY <3>1
    <3>4. Len(calls') = n - 1
      <4>1. \A m \in Nat \ {0} : (IF 1 <= m - 1 THEN (m - 1) - 1 + 1 ELSE 0) = m - 1
        OBVIOUS
      <4> QED
        BY <1>2, <3>2, <4>1
    <3> QED
      BY <3>2, <3>3, <3>4
  <2>4. DOMAIN calls' = 1..(n - 1) /\ DOMAIN calls = 1..n
    BY <1>2, <2>1, <2>3
  <2> QED
    BY <1>2, <2>3, <2>4 DEF S
<1>5. /\ handle' \in [Conns -> Handle]
      /\ \A e \in Conns : /\ handle'[e].type = handle[e].type
                          /\ handle'[e].token = handle[e].token
                          /\ handle'[e].data = handle[e].data
                          /\ e # c => handle'[e] = handle[e]
      /\ handle' # handle => /\ handle[c].type = "client" /\ handle'[c].id = CLOSED
                             /\ handle[c].id \in Ids /\ table[handle[c].id] = 0
  <2>1. handle \in [Conns -> Handle]
    BY DEF IInv, TypeOK
  <2>2. CASE handle' = handle
    BY <2>1, <2>2
  <2>3. CASE Live(c) /\ table[handle[c].id] = 0 /\ handle' = [handle EXCEPT ![c].id = CLOSED]
    BY <1>3, <2>1, <2>3 DEF Live, Handle
  <2> QED
    BY <2>2, <2>3
<1> HIDE DEF c
<1>15. handle' = handle => ~(c \notin untold /\ Live(c) /\ table[handle[c].id] = 0)
  <2> SUFFICES ASSUME handle' = handle, Live(c), handle' = [handle EXCEPT ![c].id = CLOSED]
               PROVE  FALSE
    BY DEF c
  <2>1. handle'[c].id = CLOSED
    BY <1>3 DEF IInv, TypeOK, Handle
  <2> QED
    BY <2>1 DEF Live
<1>6. TypeOK'
  BY <1>1, <1>4, <1>5 DEF IInv, TypeOK
<1>7. Numbering'
  BY <1>1, <1>5 DEF IInv, Numbering
<1>8. Placement'
  <2>1. ASSUME NEW j \in Ids, table[j] # 0, kind[table[j]] \in {"sub", "client"}
        PROVE  handle'[table[j]].type = kind[table[j]] /\ handle'[table[j]].id = j
    <3>1. table[j] \in Conns /\ handle[table[j]].type = kind[table[j]] /\ handle[table[j]].id = j
      BY <2>1, Found
    <3>2. table[j] # c \/ handle' = handle
      BY <1>5, <2>1, <3>1
    <3> QED
      BY <1>5, <3>1, <3>2
  <2> QED
    BY <1>1, <2>1 DEF IInv, Placement, ConnectionsAreHeld
<1>9. \A e \in Conns : handle[e].type = "sub" => handle'[e] = handle[e]
  BY <1>5
<1>10. Claims'
  BY <1>1, <1>5, <1>9 DEF IInv, Claims, InTable
<1>11. ClaimsAreHeld'
  BY <1>1, <1>5, <1>9 DEF IInv, ClaimsAreHeld
<1>12. Told'
  <2> SUFFICES ASSUME NEW e \in Conns, e \notin untold, Live(e)'
               PROVE  table[handle'[e].id] = e \/ (table[handle'[e].id] = 0 /\ Borrowed(e)')
    BY <1>1 DEF Told
  <2>1. Live(e) /\ handle'[e] = handle[e] /\ ~(e = c /\ table[handle[e].id] = 0)
    <3>1. CASE handle' = handle
      BY <1>15, <3>1 DEF Live
    <3>2. CASE handle' # handle
      <4>1. e # c
        BY <1>5, <3>2 DEF Live
      <4> QED
        BY <1>5, <4>1 DEF Live
    <3> QED
      BY <3>1, <3>2
  <2>2. table[handle[e].id] = e \/ (table[handle[e].id] = 0 /\ Borrowed(e))
    BY <2>1 DEF IInv, Told
  <2>3. ASSUME table[handle[e].id] = 0, Borrowed(e) PROVE Borrowed(e)'
    <3>1. PICK k \in DOMAIN calls : calls[k].by = e
      BY <2>3 DEF Borrowed
    <3>2. k # n
      BY <2>1, <2>3, <3>1 DEF c, Innermost
    <3> QED
      BY <1>2, <1>4, <3>1, <3>2 DEF Borrowed
  <2> QED
    BY <2>1, <2>2, <2>3
<1>13. Underway'
  <2> SUFFICES ASSUME NEW k \in DOMAIN calls'
               PROVE  /\ handle'[calls'[k].by].type \in {"sub", "client"}
                      /\ kind[calls'[k].by] = "client" /\ calls'[k].by # calls'[k].at
                           => calls'[k].by \in untold
    BY <1>1 DEF Underway
  <2>1. k \in DOMAIN calls /\ calls'[k] = calls[k]
    BY <1>4
  <2>2. calls[k].by \in Conns
    BY <2>1, CallsTyped DEF IInv
  <2> QED
    BY <1>5, <2>1, <2>2 DEF IInv, Underway
<1>14. Touched'
  BY <1>1 DEF IInv, Touched, SubscriptionsNeverCross, ToldClientsNeverCross, Crossed
<1> QED
  BY <1>6, <1>7, <1>8, <1>10, <1>11, <1>12, <1>13, <1>14 DEF IInv

LEMMA ReturnSteps ==
  ASSUME IInv, Answered \/ Failed
  PROVE  IInv'
<1> DEFINE c == Innermost.by
<1>1. calls # <<>> /\ Back /\ UNCHANGED <<opened, kind, tableVars, claimVars, touched, untold>>
  BY DEF Answered, Failed
<1>2. c \in Conns /\ Len(calls) \in DOMAIN calls
  <2>1. calls \in Seq([by : Conns, at : Conns])
    BY DEF IInv, TypeOK
  <2>2. Len(calls) \in DOMAIN calls
    BY <1>1, <2>1
  <2> QED
    BY <2>2, CallsTyped DEF Innermost, IInv
<1>3. CASE Answered
  <2>1. handle' = handle /\ InTable(Innermost.at)
    BY <1>3 DEF Answered
  <2>2. ~(c \notin untold /\ Live(c) /\ table[handle[c].id] = 0)
    <3> SUFFICES ASSUME c \notin untold, Live(c), table[handle[c].id] = 0 PROVE FALSE
      OBVIOUS
    <3>1. kind[c] = "client"
      BY <1>2 DEF IInv, Numbering, Live
    <3>2. Innermost.at = c
      BY <1>2, <3>1 DEF IInv, Underway, Innermost
    <3> QED
      BY <1>2, <2>1, <3>1, <3>2, Found DEF InTable, Conns
  <2> QED
    BY <1>1, <2>1, <2>2, Returned
<1>4. CASE Failed
  <2>1. handle' = IF Live(c) /\ table[handle[c].id] = 0
                    THEN [handle EXCEPT ![c].id = CLOSED] ELSE handle
    BY <1>4 DEF Failed
  <2> QED
    BY <1>1, <2>1, Returned
<1> QED
  BY <1>3, <1>4

-----------------------------------------------------------------------------
(* The other end leaves; a handle is made that has no slot, or such a one  *)
(* is given up, or a TcpClient finds its slot empty.                       *)
LEMMA PeerLeavesStep ==
  ASSUME IInv, NEW c \in Conns, PeerLeaves(c)
  PROVE  IInv'
<1>1. /\ peer' = [peer EXCEPT ![c] = TRUE]
      /\ UNCHANGED <<opened, kind, addr, table, attached, token, handle, calls, touched, untold>>
  BY DEF PeerLeaves, claimVars
<1>2. TypeOK'
  BY <1>1 DEF IInv, TypeOK
<1>3. Numbering' /\ Placement' /\ ClaimsAreHeld'
  BY <1>1 DEF IInv, Numbering, Placement, ConnectionsAreHeld, ClaimsAreHeld
<1>4. Claims' /\ Told'
  BY <1>1 DEF IInv, Claims, InTable, Told, Live, Borrowed
<1>5. Underway' /\ Touched'
  BY <1>1 DEF IInv, Underway, Touched, SubscriptionsNeverCross, ToldClientsNeverCross, Crossed
<1> QED
  BY <1>2, <1>3, <1>4, <1>5 DEF IInv

LEMMA Slotless ==
  ASSUME IInv, NEW c \in Conns, ~InTable(c), ~Borrowed(c),
         handle[c].type # "sub",
         handle' \in [Conns -> Handle], \A d \in Conns : d # c => handle'[d] = handle[d],
         handle'[c].type \in {"none", "qconn"}, handle'[c].type = "qconn" => kind'[c] = "sub",
         opened' \in opened..MaxConns, c <= opened',
         kind' \in [Conns -> Kinds], \A d \in Conns : d # c => kind'[d] = kind[d],
         c > opened \/ kind' = kind,
         UNCHANGED <<tableVars, claimVars, calls, touched, untold>>
  PROVE  IInv'
<1>1. UNCHANGED <<peer, addr, table, attached, token, calls, touched, untold>>
  BY DEF tableVars, claimVars
<1>2. opened \in 0..MaxConns /\ opened' \in 0..MaxConns
  BY DEF IInv, TypeOK
<1>3. TypeOK'
  BY <1>1, <1>2 DEF IInv, TypeOK
<1>4. \A i \in Ids : table[i] # c
  BY DEF InTable
<1>5. Numbering'
  <2>1. \A d \in Conns : d > opened' => kind'[d] = "none" /\ handle'[d].type = "none"
    BY <1>2 DEF IInv, Numbering, Conns
  <2>2. ASSUME NEW i \in Ids PROVE table[i] <= opened'
    <3>1. table[i] \in 0..MaxConns /\ table[i] <= opened
      BY DEF IInv, TypeOK, Numbering
    <3> QED
      BY <1>2, <3>1
  <2>3. \A d \in Conns : /\ handle'[d].type \in {"qconn", "sub"} => kind'[d] = "sub"
                         /\ handle'[d].type = "client" => kind'[d] = "client"
    BY DEF IInv, Numbering
  <2> QED
    BY <1>1, <2>1, <2>2, <2>3 DEF Numbering
<1>6. Placement'
  <2>1. ASSUME NEW i \in Ids, table[i] # 0, kind'[table[i]] \in {"sub", "client"}
        PROVE  handle'[table[i]].type = kind'[table[i]] /\ handle'[table[i]].id = i
    <3>1. table[i] \in Conns /\ table[i] # c
      BY <1>4, <2>1 DEF IInv, TypeOK, Conns
    <3> QED
      BY <2>1, <3>1, Found
  <2> QED
    BY <1>1, <2>1 DEF IInv, Placement, ConnectionsAreHeld
<1>7. \A d \in Conns : handle'[d].type = "sub" => d # c
  OBVIOUS
<1>8. Claims'
  <2>1. \A d \in Conns : InTable(d)' <=> InTable(d)
    BY <1>1 DEF InTable
  <2> QED
    BY <1>1, <1>7, <2>1 DEF IInv, Claims
<1>9. ClaimsAreHeld'
  BY <1>1 DEF IInv, ClaimsAreHeld
<1>10. Told'
  BY <1>1 DEF IInv, Told, Live, Borrowed
<1>11. Underway'
  <2> SUFFICES ASSUME NEW k \in DOMAIN calls
               PROVE  /\ handle'[calls[k].by].type \in {"sub", "client"}
                      /\ kind'[calls[k].by] = "client" /\ calls[k].by # calls[k].at
                           => calls[k].by \in untold
    BY <1>1 DEF Underway
  <2>1. calls[k].by \in Conns /\ calls[k].by # c
    BY CallsTyped DEF IInv, Borrowed
  <2> QED
    BY <2>1 DEF IInv, Underway
<1>12. Touched'
  <2>1. ASSUME NEW d \in Conns, d <= opened PROVE kind'[d] = kind[d]
    <3>1. CASE c > opened
      <4>1. d # c
        BY <1>2, <2>1, <3>1 DEF Conns
      <4> QED
        BY <4>1
    <3>2. CASE kind' = kind
      BY <3>2
    <3> QED
      BY <3>1, <3>2
  <2>2. touched \in [by : 0..MaxConns, at : 0..MaxConns] /\ (touched.by # 0 => touched.at # 0)
    BY DEF IInv, TypeOK, Touched
  <2>3. touched.by # 0 => touched.by \in Conns /\ touched.at \in Conns
    BY <2>2 DEF Conns
  <2>4. touched.by # 0 => touched.by <= opened' /\ touched.at # 0 /\ touched.at <= opened'
    <3>1. touched.by # 0 => touched.by <= opened /\ touched.at <= opened
      BY DEF IInv, Touched
    <3> QED
      BY <1>2, <2>2, <3>1
  <2>5. touched.by # 0 => kind'[touched.by] = kind[touched.by] /\ kind'[touched.at] = kind[touched.at]
    BY <2>1, <2>3 DEF IInv, Touched
  <2> QED
    BY <1>1, <2>4, <2>5 DEF IInv, Touched, SubscriptionsNeverCross, ToldClientsNeverCross, Crossed
<1> QED
  BY <1>3, <1>5, <1>6, <1>8, <1>9, <1>10, <1>11, <1>12 DEF IInv

LEMMA QConnSteps ==
  ASSUME IInv, NEW c \in Conns, QConnect(c) \/ DropQConn(c)
  PROVE  IInv'
<1>1. UNCHANGED <<tableVars, claimVars, calls, touched, untold>>
  BY DEF QConnect, DropQConn
<1>2. handle[c].type \in {"none", "qconn"} => ~Borrowed(c)
  BY DEF IInv, Underway, Borrowed
<1>3. CASE QConnect(c)
  <2>1. Open(c, "sub") /\ handle' = [handle EXCEPT ![c] = QConn]
    BY <1>3 DEF QConnect
  <2>2. "sub" \in Kinds
    BY DEF Kinds
  <2>3. /\ ~InTable(c) /\ handle[c].type = "none" /\ c > opened
        /\ opened' = c /\ opened' \in opened..MaxConns
        /\ kind' \in [Conns -> Kinds] /\ kind'[c] = "sub"
        /\ \A d \in Conns : d # c => kind'[d] = kind[d]
    BY <2>1, <2>2, Opened
  <2>4. /\ handle' \in [Conns -> Handle] /\ \A d \in Conns : d # c => handle'[d] = handle[d]
        /\ handle'[c].type = "qconn"
    BY <2>1 DEF IInv, TypeOK, Handle, QConn, NoHandle, CLOSED
  <2>5. c <= opened'
    BY <2>3 DEF Conns
  <2> QED
    BY <1>1, <1>2, <2>3, <2>4, <2>5, Slotless
<1>4. CASE DropQConn(c)
  <2>1. /\ handle[c].type = "qconn" /\ handle' = [handle EXCEPT ![c] = NoHandle]
        /\ UNCHANGED <<opened, kind>>
    BY <1>4 DEF DropQConn
  <2>2. kind[c] = "sub" /\ kind \in [Conns -> Kinds]
    BY <2>1 DEF IInv, TypeOK, Numbering
  <2>3. ~InTable(c)
    BY <2>1, <2>2, Found DEF InTable, Conns
  <2>4. /\ handle' \in [Conns -> Handle] /\ \A d \in Conns : d # c => handle'[d] = handle[d]
        /\ handle'[c].type = "none"
    BY <2>1 DEF IInv, TypeOK, Handle, NoHandle, CLOSED
  <2>5. opened' \in opened..MaxConns /\ c <= opened'
    <3>1. opened \in 0..MaxConns /\ c \in Nat
      BY DEF IInv, TypeOK, Conns
    <3>2. ~(c > opened)
      BY <2>2 DEF IInv, Numbering
    <3> QED
      BY <2>1, <3>1, <3>2, SelectorsAssumption
  <2> QED
    BY <1>1, <1>2, <2>1, <2>2, <2>3, <2>4, <2>5, Slotless
<1> QED
  BY <1>3, <1>4

LEMMA OnNothingStep ==
  ASSUME IInv, NEW c \in Conns, RoundTripOnNothing(c)
  PROVE  IInv'
<1>1. /\ Live(c) /\ table[handle[c].id] = 0
      /\ handle' = [handle EXCEPT ![c].id = CLOSED]
      /\ UNCHANGED <<opened, kind, peer, addr, table, attached, token, calls, touched, untold>>
  BY DEF RoundTripOnNothing, tableVars, claimVars
<1>2. /\ handle' \in [Conns -> Handle]
      /\ \A e \in Conns : handle'[e].type = handle[e].type /\ (e # c => handle'[e] = handle[e])
      /\ handle[c].type = "client" /\ handle'[c].id = CLOSED
  BY <1>1 DEF IInv, TypeOK, Live, Handle
<1>3. TypeOK'
  BY <1>1, <1>2 DEF IInv, TypeOK
<1>4. Numbering'
  BY <1>1, <1>2 DEF IInv, Numbering
<1>5. Placement'
  <2>1. ASSUME NEW j \in Ids, table[j] # 0, kind[table[j]] \in {"sub", "client"}
        PROVE  handle'[table[j]].type = kind[table[j]] /\ handle'[table[j]].id = j
    <3>1. table[j] \in Conns /\ handle[table[j]].type = kind[table[j]] /\ handle[table[j]].id = j
      BY <2>1, Found
    <3>2. table[j] # c
      BY <1>1, <2>1, <3>1
    <3> QED
      BY <1>2, <3>1, <3>2
  <2> QED
    BY <1>1, <2>1 DEF IInv, Placement, ConnectionsAreHeld
<1>6. \A e \in Conns : handle[e].type = "sub" => handle'[e] = handle[e]
  BY <1>2
<1>7. Claims' /\ ClaimsAreHeld'
  BY <1>1, <1>2, <1>6 DEF IInv, Claims, ClaimsAreHeld, InTable
<1>8. Told'
  BY <1>1, <1>2 DEF IInv, Told, Live, Borrowed
<1>9. Underway'
  <2> SUFFICES ASSUME NEW k \in DOMAIN calls
               PROVE  handle'[calls[k].by].type \in {"sub", "client"}
    BY <1>1 DEF IInv, Underway
  <2>1. calls[k].by \in Conns
    BY CallsTyped DEF IInv
  <2> QED
    BY <1>2, <2>1 DEF IInv, Underway
<1>10. Touched'
  BY <1>1 DEF IInv, Touched, SubscriptionsNeverCross, ToldClientsNeverCross, Crossed
<1> QED
  BY <1>3, <1>4, <1>5, <1>7, <1>8, <1>9, <1>10 DEF IInv

-----------------------------------------------------------------------------
LEMMA StutterIInv == ASSUME IInv, UNCHANGED vars PROVE IInv'
<1>1. UNCHANGED <<opened, kind, peer, addr, table, attached, token, handle, calls, touched, untold>>
  BY DEF vars, tableVars, claimVars
<1> QED
  BY <1>1 DEF IInv, TypeOK, Numbering, Placement, ConnectionsAreHeld, Claims, ClaimsAreHeld,
              InTable, Told, Live, Borrowed, Underway, Touched, SubscriptionsNeverCross,
              ToldClientsNeverCross, Crossed

LEMMA IInvStep == ASSUME IInv, [Next]_vars PROVE IInv'
<1>1. CASE UNCHANGED vars
  BY <1>1, StutterIInv
<1>2. CASE QStep
  <2>1. PICK c \in Conns : QConnect(c) \/ DropQConn(c) \/ Attach(c) \/ SubSend(c) \/ DropSub(c)
    BY <1>2 DEF QStep
  <2> QED
    BY <2>1, QConnSteps, AttachStep, ReachSteps, DropSteps
<1>3. CASE ClientStep
  <2>1. PICK c \in Conns : \/ Connect(c) \/ RoundTrip(c) \/ RoundTripOnNothing(c)
                           \/ SendAsync(c) \/ DropClient(c)
    BY <1>3 DEF ClientStep
  <2> QED
    BY <2>1, OpenSteps, ReachSteps, OnNothingStep, DropSteps
<1>4. CASE ExchangeStep
  BY <1>4, ReturnSteps, CoreClosesStep DEF ExchangeStep
<1>5. CASE LoopStep
  <2>1. PICK c \in Conns : \/ Listen(c) \/ RayfallOpen(c) \/ Accept(c)
                           \/ LoopCloses(c) \/ PeerLeaves(c)
    BY <1>5 DEF LoopStep
  <2> QED
    BY <2>1, OpenSteps, LoopClosesStep, PeerLeavesStep
<1> QED
  BY <1>1, <1>2, <1>3, <1>4, <1>5 DEF Next

(* The invariant: who was given what slot, address, token and connection.  *)
THEOREM Invariance == Spec => []IInv
<1> QED
  BY InitIInv, IInvStep, PTL DEF Spec

(* Every variable has the type it should.                                  *)
THEOREM TypeCorrect == Spec => []TypeOK
<1>1. IInv => TypeOK
  BY DEF IInv
<1> QED
  BY <1>1, Invariance, PTL

(* A Subscription never reaches another's connection, however many slots   *)
(* and addresses are used again (q.rs:137-147).                            *)
THEOREM NeverCross == Spec => []SubscriptionsNeverCross
<1>1. IInv => SubscriptionsNeverCross
  BY DEF IInv, Touched
<1> QED
  BY <1>1, Invariance, PTL

(* A Subscription whose connection is up is alive, whoever else claims and *)
(* gives up slots (q.rs:163-172).                                          *)
THEOREM Connected == Spec => []ConnectedIsAlive
<1>1. IInv => ConnectedIsAlive
  BY InTableAlive DEF ConnectedIsAlive
<1> QED
  BY <1>1, Invariance, PTL

(* Every claim in ATTACHED belongs to a Subscription that is still held.   *)
THEOREM NoClaimLeaks == Spec => []ClaimsAreHeld
<1>1. IInv => ClaimsAreHeld
  BY DEF IInv
<1> QED
  BY <1>1, Invariance, PTL

(* A connection opened through a handle is closed through it: the handle   *)
(* is held and names the slot for as long as it is in the table.           *)
THEOREM NoConnectionLeaks == Spec => []ConnectionsAreHeld
<1>1. IInv => ConnectionsAreHeld
  BY DEF IInv, Placement
<1> QED
  BY <1>1, Invariance, PTL

(* A TcpClient reaches a connection that is not its own only if nothing    *)
(* told it that its own is gone (ipc.rs:204-212).                          *)
THEOREM ToldNeverCross == Spec => []ToldClientsNeverCross
<1>1. IInv => ToldClientsNeverCross
  BY DEF IInv, Touched
<1> QED
  BY <1>1, Invariance, PTL
=============================================================================
