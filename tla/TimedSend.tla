------------------------------ MODULE TimedSend ------------------------------
(***************************************************************************)
(* The exchanges of a TcpClient (rayforce/src/ipc.rs) in time: send,       *)
(* send_timeout and send_async on one connection after another.            *)
(*                                                                         *)
(* A response carries no request id, so an exchange takes whatever answer  *)
(* comes next on its connection.  Time passes in ticks, TicksPerMs to the  *)
(* millisecond; the core's clock counts whole milliseconds, and a deadline *)
(* is that clock plus the milliseconds asked for, in 64 bits.  Which slot  *)
(* a handle names is left to Selectors: here a handle is the number of its *)
(* connection, and one client is held at a time.                           *)
(***************************************************************************)
EXTENDS Integers

CONSTANTS
  TicksPerMs,  \* ticks in a millisecond
  Timeouts,    \* the timeouts a program asks for, in ticks
  MaxI64,      \* the largest i64
  MaxNow,      \* bound: the last tick
  MaxConns,    \* bound: connections opened
  MaxSends,    \* bound: messages sent
  None         \* no client, no timeout, no deadline

MAX_TIMEOUT_MS == MaxI64 \div 2

\* The clock stays in the lower half of its range.
ASSUME TimedSendAssumption ==
  /\ TicksPerMs \in Nat \ {0} /\ Timeouts \subseteq Nat
  /\ MaxI64 \in Nat \ {0, 1} /\ MaxNow \in Nat /\ MaxConns \in Nat /\ MaxSends \in Nat
  /\ MaxNow \div TicksPerMs <= MaxI64 - MAX_TIMEOUT_MS
  /\ None \notin Int

VARIABLES
  now,         \* the tick
  client,      \* the handle of the TcpClient held: a connection, CLOSED, or None
  opened,      \* connections opened so far
  up,          \* the connections in the core's table
  gone,        \* the connections whose server is gone
  pending,     \* pending[c]: requests the server has to answer
  answers,     \* answers[c]: the requests whose answers are on their way back
  sent,        \* messages sent so far
  call,        \* the exchange under way, or NoCall
  last         \* history: how the last call came back

vars == <<now, client, opened, up, gone, pending, answers, sent, call, last>>
network == <<up, gone, pending, answers>>

Conns == 1..MaxConns
CLOSED == -1
NoCall == [id |-> 0, asked |-> None, since |-> 0, deadline |-> None]

-----------------------------------------------------------------------------
(* Time *)

Least(a, b) == IF a <= b THEN a ELSE b
Clock == now \div TicksPerMs

\* A signed 64-bit sum, which wraps.
Wrapped(x) == IF x > MaxI64 THEN x - 2 * (MaxI64 + 1) ELSE x

\* Slips: truncated, a short timeout is 0, which the core takes for none;
\* without the cap the sum with the clock leaves the range.
timeout_msTruncated(t) == Least(t \div TicksPerMs, MAX_TIMEOUT_MS)
timeout_msUncapped(t) == Least((t + TicksPerMs - 1) \div TicksPerMs, MaxI64)

timeout_ms(t) == Least((t + TicksPerMs - 1) \div TicksPerMs, MAX_TIMEOUT_MS)

\* The core's deadline; 0 is how a wait without one is asked for.
Deadline(ms) == IF ms = 0 THEN None ELSE Wrapped(Clock + ms)

-----------------------------------------------------------------------------
Init ==
  /\ now = 0 /\ client = None /\ opened = 0 /\ sent = 0
  /\ up = {} /\ gone = {}
  /\ pending = [c \in Conns |-> {}] /\ answers = [c \in Conns |-> {}]
  /\ call = NoCall
  /\ last = [how |-> "none"]

Idle == call.id = 0

Connect ==
  /\ Idle /\ client = None /\ opened < MaxConns
  /\ opened' = opened + 1 /\ client' = opened'
  /\ up' = up \cup {opened'}
  /\ UNCHANGED <<now, gone, pending, answers, sent, call, last>>

\* drop, and close: the core closes the connection unless it has already.
Drop ==
  /\ Idle /\ client # None
  /\ client' = None
  /\ up' = up \ {client}
  /\ UNCHANGED <<now, opened, gone, pending, answers, sent, call, last>>

\* live_handle: the core has closed the connection.
Refused ==
  /\ Idle /\ client = CLOSED
  /\ last' = [how |-> "closed"]
  /\ UNCHANGED <<now, client, opened, network, sent, call>>

\* Zero is refused whether the client is closed or not.
RefusedZero ==
  /\ Idle /\ client # None /\ 0 \in Timeouts
  /\ last' = [how |-> "zero"]
  /\ UNCHANGED <<now, client, opened, network, sent, call>>

Live == Idle /\ client \in Conns /\ sent < MaxSends

\* The request is written, and waited for from now on.
RoundTrip(ms, asked) ==
  /\ Live
  /\ sent' = sent + 1
  /\ pending' = [pending EXCEPT ![client] = @ \cup {sent'}]
  /\ call' = [id |-> sent', asked |-> asked, since |-> now, deadline |-> Deadline(ms)]
  /\ UNCHANGED <<now, client, opened, up, gone, answers, last>>

Send == RoundTrip(0, None)
SendTimeout == \E t \in Timeouts \ {0} : RoundTrip(timeout_ms(t), t)

\* Slip: an asynchronous message goes out as a request, its answer unawaited.
SendAsyncAsRequest ==
  /\ Live
  /\ sent' = sent + 1
  /\ pending' = [pending EXCEPT ![client] = @ \cup {sent'}]
  /\ UNCHANGED <<now, client, opened, up, gone, answers, call, last>>

\* No answer is made to it, so nothing of it stays.
SendAsync ==
  /\ Live
  /\ sent' = sent + 1
  /\ UNCHANGED <<now, client, opened, network, call, last>>

-----------------------------------------------------------------------------
(* How an exchange comes back *)

Received ==
  /\ ~Idle
  /\ \E a \in answers[client] :
       /\ answers' = [answers EXCEPT ![client] = @ \ {a}]
       /\ last' = [how |-> "answer", id |-> call.id, of |-> a]
  /\ call' = NoCall
  /\ UNCHANGED <<now, client, opened, up, gone, pending, sent>>

\* The core closes the connection, and the client finds nothing in its slot.
Closes(result) ==
  /\ up' = up \ {client}
  /\ client' = IF client \in up' THEN client ELSE CLOSED
  /\ last' = result
  /\ call' = NoCall
  /\ UNCHANGED <<now, opened, gone, pending, answers, sent>>

Expired ==
  /\ ~Idle /\ call.deadline # None /\ Clock >= call.deadline
  /\ Closes([how |-> "expired", asked |-> call.asked, after |-> now - call.since])

Lost ==
  /\ ~Idle /\ client \in gone
  /\ Closes([how |-> "lost"])

-----------------------------------------------------------------------------
(* The world *)

Tick ==
  /\ now < MaxNow /\ now' = now + 1
  /\ UNCHANGED <<client, opened, network, sent, call, last>>

\* The server answers on a connection it has not seen the end of.
ServerAnswers(c) ==
  /\ c \notin gone
  /\ \E r \in pending[c] :
       /\ pending' = [pending EXCEPT ![c] = @ \ {r}]
       /\ answers' = [answers EXCEPT ![c] = @ \cup {r}]
  /\ UNCHANGED <<now, client, opened, up, gone, sent, call, last>>

ServerLeaves(c) ==
  /\ c <= opened /\ c \notin gone
  /\ gone' = gone \cup {c}
  /\ UNCHANGED <<now, client, opened, up, pending, answers, sent, call, last>>

-----------------------------------------------------------------------------
ClientStep == Connect \/ Drop \/ Refused \/ RefusedZero \/ Send \/ SendTimeout \/ SendAsync
Next ==
  \/ ClientStep \/ Received \/ Expired \/ Lost \/ Tick
  \/ \E c \in Conns : ServerAnswers(c) \/ ServerLeaves(c)

Spec == Init /\ [][Next]_vars

\* Time passes, and the core wakes at its deadline and at the end of its stream.
FairSpec == Spec /\ WF_vars(Tick) /\ WF_vars(Expired) /\ WF_vars(Lost)

-----------------------------------------------------------------------------
(* Properties *)

(* An exchange is answered with the answer to its own request: no late one, *)
(* and none to an asynchronous message, is left on a connection for the     *)
(* next request to take (ipc.rs:185-190).                                   *)
AnswersMatch == last.how = "answer" => last.of = last.id

(* A timeout does not end an exchange early, by more than the millisecond   *)
(* the core's clock is coarse: neither the rounding nor the longest         *)
(* timeouts, whose sum with the clock could leave the range (ipc.rs:47-63). *)
NeverEarly ==
  last.how = "expired" =>
    last.after > Least(last.asked, MAX_TIMEOUT_MS * TicksPerMs) - TicksPerMs

(* An exchange with a timeout comes back though the server never answers,   *)
(* and any exchange does whose server goes away (ipc.rs:169-190).           *)
Due == /\ ~Idle
       /\ \/ client \in gone
          \/ call.asked # None /\ call.since + call.asked + TicksPerMs <= MaxNow
ExchangesEnd == Due ~> Idle
=============================================================================
