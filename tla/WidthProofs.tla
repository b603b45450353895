----------------------------- MODULE WidthProofs -----------------------------
(***************************************************************************)
(* Theorems about the two modules whose integers have a width.             *)
(*                                                                         *)
(* Sentinels.tla, for vectors of any length and integers of any width:     *)
(* which nulls may go unreported, that Options miss none, and that chrono  *)
(* values read back.                                                       *)
(*                                                                         *)
(* TimedSend.tla, for any timeouts, any width of the integers and any      *)
(* number of connections and messages: an exchange takes only its own      *)
(* answer, and no timeout ends it early.                                   *)
(***************************************************************************)
EXTENDS Sentinels, TimedSend, TLAPS

-----------------------------------------------------------------------------
(* Sentinels: the inductive invariant.                                     *)

Buffers == [cells : Seq(Int), gate : BOOLEAN, late : SUBSET Nat]

(* With the flag down, what holds a sentinel was written late.             *)
Accounted(b) ==
  ty \in Gated /\ ~b.gate =>
    \A i \in DOMAIN b.cells : IsSentinel(ty, b.cells[i]) => i \in b.late

(* A view looks inside what it looks at.                                   *)
Views == [off : Nat, len : Nat, shared : BOOLEAN, buf : Buffers]
ViewInRange ==
  \/ view = NoView
  \/ view \in Views /\ view.off + view.len <= Len(Viewed.buf.cells)

IInv ==
  /\ ty \in Types
  /\ main \in Buffers /\ Accounted(main)
  /\ ViewInRange
  /\ view \in Views => Accounted(view.buf)

-----------------------------------------------------------------------------
LEMMA VectorAccounted ==
  ASSUME NEW t \in Types, NEW n \in Nat, NEW cells \in [1..n -> CellsOf(t)]
  PROVE  Vector(t, cells) \in Buffers
<1>1. CellsOf(t) \subseteq Int
  BY SentinelsAssumption DEF CellsOf, Sentinel
<1>2. cells \in Seq(Int)
  BY <1>1
<1> QED
  BY <1>2 DEF Vector, Buffers

LEMMA InitIInv == SentinelsInit => IInv
<1> SUFFICES ASSUME SentinelsInit PROVE IInv
  OBVIOUS
<1>1. main = Vector(ty, <<>>) /\ ty \in Types /\ view = NoView
  BY DEF SentinelsInit
<1>2. main \in Buffers /\ Accounted(main)
  BY <1>1 DEF Vector, Buffers, Accounted
<1>3. view \in Views => Accounted(view.buf)
  <2>1. NoView \notin Views
    BY DEF NoView, Views
  <2> QED
    BY <1>1, <2>1
<1>4. ViewInRange
  BY <1>1 DEF ViewInRange
<1> QED
  BY <1>1, <1>2, <1>3, <1>4 DEF IInv

LEMMA VecStep == IInv /\ vec => IInv'
<1> SUFFICES ASSUME IInv, vec PROVE IInv'
  OBVIOUS
<1>1. PICK t \in Types, n \in 0..MaxLen : \E cells \in [1..n -> CellsOf(t)] :
        ty' = t /\ main' = Vector(t, cells)
  BY DEF vec
<1>2. PICK cells \in [1..n -> CellsOf(t)] : ty' = t /\ main' = Vector(t, cells)
  BY <1>1
<1>3. main' \in Buffers
  BY <1>1, <1>2, VectorAccounted, SentinelsAssumption
<1>4. Accounted(main)'
  BY <1>2 DEF Accounted, Vector
<1>5. view' = NoView
  BY DEF vec
<1>6. view' \in Views => Accounted(view.buf)'
  <2>1. NoView \notin Views
    BY DEF NoView, Views
  <2> QED
    BY <1>5, <2>1
<1>7. ViewInRange'
  BY <1>5 DEF ViewInRange
<1> QED
  BY <1>1, <1>2, <1>3, <1>4, <1>6, <1>7 DEF IInv

(* A write to the vector's own cells keeps the vector accounted for, and   *)
(* what a view was left with is the vector as it was.                      *)
LEMMA WriteStep ==
  ASSUME IInv, NEW cells \in Seq(Int), NEW i \in Nat, NEW x \in Int,
         i \in DOMAIN cells, cells[i] = x,
         \A j \in DOMAIN cells : j # i => j \in DOMAIN main.cells /\ cells[j] = main.cells[j],
         Write(cells, i, x)
  PROVE  IInv'
<1>1. /\ ty' = ty
      /\ main' = [main EXCEPT !.cells = cells,
                              !.late = IF IsSentinel(ty, x) THEN @ \cup {i} ELSE @ \ {i}]
      /\ view' = IF view # NoView /\ view.shared
                   THEN [view EXCEPT !.shared = FALSE, !.buf = main] ELSE view
  BY DEF Write
<1>2. /\ main'.cells = cells /\ main'.gate = main.gate
      /\ main'.late = IF IsSentinel(ty, x) THEN main.late \cup {i} ELSE main.late \ {i}
      /\ main' \in Buffers
  BY <1>1 DEF IInv, Buffers
<1>3. Accounted(main)'
  <2>1. SUFFICES ASSUME ty \in Gated, ~main.gate, NEW j \in DOMAIN cells, IsSentinel(ty, cells[j])
                 PROVE  j \in main'.late
    BY <1>1, <1>2 DEF Accounted, IsSentinel, Sentinel
  <2>2. CASE j = i
    BY <1>2, <2>1, <2>2
  <2>3. CASE j # i
    BY <1>2, <2>1, <2>3 DEF IInv, Accounted
  <2> QED
    BY <2>2, <2>3
<1>4. CASE view = NoView
  <2>1. view' = NoView
    BY <1>1, <1>4
  <2>2. NoView \notin Views
    BY DEF NoView, Views
  <2>3. ViewInRange'
    BY <2>1 DEF ViewInRange
  <2>4. view' \in Views => Accounted(view.buf)'
    BY <2>1, <2>2
  <2> QED
    BY <1>1, <1>2, <1>3, <2>3, <2>4 DEF IInv
<1>5. CASE view # NoView /\ view.shared
  <2>1. view \in Views /\ view.off + view.len <= Len(main.cells)
    BY <1>5 DEF IInv, ViewInRange, Viewed
  <2>2. /\ view' \in Views /\ ~view'.shared /\ view'.buf = main
        /\ view'.off = view.off /\ view'.len = view.len
    BY <1>1, <1>5, <2>1 DEF Views, IInv
  <2>3. ViewInRange'
    BY <2>1, <2>2 DEF ViewInRange, Viewed
  <2>4. Accounted(view.buf)'
    BY <1>1, <2>2 DEF IInv, Accounted, IsSentinel, Sentinel
  <2> QED
    BY <1>1, <1>2, <1>3, <2>3, <2>4 DEF IInv
<1>6. CASE view # NoView /\ ~view.shared
  <2>1. view' = view /\ view \in Views
    BY <1>1, <1>6 DEF IInv, ViewInRange
  <2>2. ViewInRange'
    BY <1>6, <2>1 DEF IInv, ViewInRange, Viewed
  <2>3. Accounted(view.buf)'
    BY <1>1, <2>1 DEF IInv, Accounted, IsSentinel, Sentinel
  <2> QED
    BY <1>1, <1>2, <1>3, <2>2, <2>3 DEF IInv
<1> QED
  BY <1>4, <1>5, <1>6

LEMMA SetStep == IInv /\ set => IInv'
<1> SUFFICES ASSUME IInv, set PROVE IInv'
  OBVIOUS
<1>1. PICK i \in DOMAIN main.cells, x \in CellsOf(ty) : Write([main.cells EXCEPT ![i] = x], i, x)
  BY DEF set
<1>2. x \in Int /\ i \in Nat /\ main.cells \in Seq(Int)
  BY SentinelsAssumption DEF CellsOf, Sentinel, IInv, Buffers
<1> DEFINE cells == [main.cells EXCEPT ![i] = x]
<1>3. /\ cells \in Seq(Int) /\ i \in DOMAIN cells /\ cells[i] = x
      /\ \A j \in DOMAIN cells : j # i => j \in DOMAIN main.cells /\ cells[j] = main.cells[j]
  BY <1>1, <1>2
<1> HIDE DEF cells
<1>4. Write(cells, i, x)
  BY <1>1 DEF cells
<1> QED
  BY <1>2, <1>3, <1>4, WriteStep

LEMMA PushStep == IInv /\ push => IInv'
<1> SUFFICES ASSUME IInv, push PROVE IInv'
  OBVIOUS
<1>1. PICK x \in CellsOf(ty) : Write(Append(main.cells, x), Len(main.cells) + 1, x)
  BY DEF push
<1>2. x \in Int /\ main.cells \in Seq(Int)
  BY SentinelsAssumption DEF CellsOf, Sentinel, IInv, Buffers
<1> DEFINE cells == Append(main.cells, x)
           i == Len(main.cells) + 1
<1>3. /\ cells \in Seq(Int) /\ i \in Nat /\ i \in DOMAIN cells /\ cells[i] = x
      /\ \A j \in DOMAIN cells : j # i => j \in DOMAIN main.cells /\ cells[j] = main.cells[j]
  BY <1>2
<1> HIDE DEF cells, i
<1>4. Write(cells, i, x)
  BY <1>1 DEF cells, i
<1> QED
  BY <1>2, <1>3, <1>4, WriteStep

LEMMA SetNullStep == IInv /\ set_null => IInv'
<1> SUFFICES ASSUME IInv, set_null PROVE IInv'
  OBVIOUS
<1>1. PICK i \in DOMAIN main.cells :
        main' = [main EXCEPT !.cells[i] = Sentinel(ty), !.gate = TRUE, !.late = @ \ {i}]
  BY DEF set_null
<1>2. ty' = ty /\ view' = view
  BY DEF set_null
<1>3. Sentinel(ty) \in Int /\ main.cells \in Seq(Int)
  BY SentinelsAssumption DEF Sentinel, IInv, Buffers
<1> DEFINE cells == [main.cells EXCEPT ![i] = Sentinel(ty)]
<1>4. main' = [cells |-> cells, gate |-> TRUE, late |-> main.late \ {i}]
  BY <1>1 DEF IInv, Buffers
<1>5. cells \in Seq(Int) /\ Len(cells) = Len(main.cells) /\ main.late \ {i} \in SUBSET Nat
  BY <1>3 DEF IInv, Buffers
<1> HIDE DEF cells
<1>6. main'.cells = cells /\ main'.gate = TRUE /\ main' \in Buffers
  BY <1>4, <1>5 DEF Buffers
<1>7. Len(main'.cells) = Len(main.cells)
  BY <1>6, <1>5
<1>8. Accounted(main)'
  BY <1>6 DEF Accounted
<1>9. ViewInRange'
  BY <1>2, <1>7 DEF IInv, ViewInRange, Viewed
<1>10. view \in Views => Accounted(view.buf)'
  BY <1>2 DEF IInv, Accounted, IsSentinel, Sentinel
<1> QED
  BY <1>2, <1>6, <1>8, <1>9, <1>10 DEF IInv

LEMMA SliceStep == IInv /\ slice => IInv'
<1> SUFFICES ASSUME IInv, slice PROVE IInv'
  OBVIOUS
<1>1. PICK off \in 0..Len(main.cells) : \E len \in 0..(Len(main.cells) - off) :
        view' = [off |-> off, len |-> len, shared |-> TRUE, buf |-> Vector(ty, <<>>)]
  BY DEF slice
<1>2. ty' = ty /\ main' = main /\ Len(main.cells) \in Nat
  BY DEF slice, IInv, Buffers
<1>3. Vector(ty, <<>>) \in Buffers
  BY DEF Vector, Buffers
<1>4. PICK len \in 0..(Len(main.cells) - off) :
        view' = [off |-> off, len |-> len, shared |-> TRUE, buf |-> Vector(ty, <<>>)]
  BY <1>1
<1>5. view' \in Views /\ view'.shared /\ view'.off + view'.len <= Len(main.cells)
  BY <1>4, <1>2, <1>3 DEF Views
<1>6. ViewInRange'
  BY <1>2, <1>5 DEF ViewInRange, Viewed
<1>7. Accounted(view.buf)'
  BY <1>1 DEF Accounted, Vector
<1>8. Accounted(main)'
  BY <1>2 DEF IInv, Accounted, IsSentinel, Sentinel
<1> QED
  BY <1>2, <1>6, <1>7, <1>8 DEF IInv

LEMMA IInvStep == IInv /\ [SentinelsNext]_sentinelsVars => IInv'
<1> SUFFICES ASSUME IInv, [SentinelsNext]_sentinelsVars PROVE IInv'
  OBVIOUS
<1>1. CASE UNCHANGED <<ty, main, view>>
  BY <1>1 DEF IInv, Accounted, ViewInRange, Viewed, IsSentinel, Sentinel
<1>2. CASE WriteInstant \/ WriteTime \/ UNCHANGED sentinelsVars
  BY <1>1, <1>2 DEF WriteInstant, WriteTime, sentinelsVars
<1> QED
  BY <1>2, VecStep, SetStep, PushStep, SetNullStep, SliceStep DEF SentinelsNext

LEMMA IInvHidesOnlyLate == IInv => OnlyLateWritesHide
<1> SUFFICES ASSUME IInv, NEW v \in Vectors, NEW i \in 1..v.len,
                    IsSentinel(ty, Cell(v, i)), ~is_null_at(v, i)
             PROVE  v.off + i \in v.buf.late
  BY DEF OnlyLateWritesHide
<1>1. ty \in Gated /\ ~v.buf.gate
  BY DEF is_null_at
<1>2. CASE v = Whole
  BY <1>1, <1>2 DEF IInv, Whole, Accounted, Cell, Buffers
<1>3. CASE v = Viewed /\ view # NoView
  <2>1. view \in Views /\ view.off + view.len <= Len(v.buf.cells)
    BY <1>3 DEF IInv, ViewInRange
  <2>2. v.off = view.off /\ v.len = view.len /\ v.buf = IF view.shared THEN main ELSE view.buf
    BY <1>3 DEF Viewed
  <2>3. v.buf \in Buffers /\ Accounted(v.buf)
    BY <2>1, <2>2 DEF IInv, Views
  <2>4. v.off + i \in DOMAIN v.buf.cells
    BY <2>1, <2>2, <2>3 DEF Views, Buffers
  <2> QED
    BY <1>1, <2>3, <2>4 DEF Accounted, Cell
<1> QED
  BY <1>2, <1>3 DEF Vectors

LEMMA IInvReadsOptions == IInv => OptionReadsTheCell
<1> SUFFICES ASSUME IInv, NEW v \in Vectors, NEW i \in 1..v.len
             PROVE  to_vec(v)[i] =
                      IF IsSentinel(ty, Cell(v, i)) THEN NoneOption ELSE Some(Cell(v, i))
  BY DEF OptionReadsTheCell
<1>1. to_vec(v)[i] = OptionOf(ty, get(v, i))
  BY DEF to_vec
<1>2. ty # "null" /\ Boxed(ty, Cell(v, i)) # Null
  BY DEF IInv, Types, Boxed, Null
<1>3. CASE ty # "sym" /\ is_null_at(v, i)
  BY <1>1, <1>3 DEF get, OptionOf, is_atom_null, is_null_at
<1>4. CASE ~(ty # "sym" /\ is_null_at(v, i))
  BY <1>1, <1>2, <1>4 DEF get, OptionOf, is_atom_null, Boxed, ReadAs, Ok, Some
<1> QED
  BY <1>3, <1>4

(* Options miss no null and invent none, and is_null_at misses only what   *)
(* set or push wrote, however the vector was built, written, nulled and    *)
(* viewed (vector.rs:225-246).                                             *)
THEOREM NullsExact == SentinelsSpec => []NullsReadBack
<1>1. IInv => NullsReadBack
  BY IInvReadsOptions, IInvHidesOnlyLate DEF NullsReadBack
<1> QED
  BY <1>1, InitIInv, IInvStep, PTL DEF SentinelsSpec

-----------------------------------------------------------------------------
(* The atom in hand is what the last chrono value was boxed as.            *)
BoxedAsMeant ==
  /\ meant.is = "instant" => meant.val \in Instants /\ atom = Boxed("timestamp", Nanos(meant.val))
  /\ meant.is = "time" => meant.val \in Times /\ atom = Boxed("time", Millis(meant.val))

LEMMA MeantStep == BoxedAsMeant /\ [SentinelsNext]_sentinelsVars => BoxedAsMeant'
<1> SUFFICES ASSUME BoxedAsMeant, [SentinelsNext]_sentinelsVars PROVE BoxedAsMeant'
  OBVIOUS
<1>1. CASE UNCHANGED <<atom, meant>>
  BY <1>1 DEF BoxedAsMeant, Boxed, Nanos, Millis
<1>2. CASE WriteInstant
  BY <1>2 DEF BoxedAsMeant, WriteInstant
<1>3. CASE WriteTime
  BY <1>3 DEF BoxedAsMeant, WriteTime
<1>4. vec \/ set \/ push \/ set_null \/ slice \/ UNCHANGED sentinelsVars => UNCHANGED <<atom, meant>>
  BY DEF vec, set, push, Write, set_null, slice, sentinelsVars
<1> QED
  BY <1>1, <1>2, <1>3, <1>4 DEF SentinelsNext

LEMMA InstantsReadBack ==
  ASSUME NEW d \in Int, d # MinI
  PROVE  OptionOf("timestamp", Boxed("timestamp", Nanos(d))) =
           Some(IF d > MaxI THEN MaxI ELSE IF d < MinI THEN MinI + 1 ELSE d)
<1> USE SentinelsAssumption
<1> DEFINE want == IF d > MaxI THEN MaxI ELSE IF d < MinI THEN MinI + 1 ELSE d
<1>1. d < MinI => num_seconds(d) < 0
  <2>1. SUFFICES ASSUME d < MinI PROVE (-d) \div NanosPerSec > 0
    BY DEF num_seconds, Quotient
  <2>2. -d \in Nat /\ -d >= NanosPerSec
    BY <2>1
  <2> QED
    BY <2>2, Z3
<1>2. d > MaxI => ~(num_seconds(d) < 0)
  <2>1. SUFFICES ASSUME d > MaxI PROVE d \div NanosPerSec >= 0
    BY DEF num_seconds, Quotient
  <2> QED
    BY <2>1, Z3
<1>3. Nanos(d) = want
  BY <1>1, <1>2 DEF Nanos, num_nanoseconds, Some, NoneOption
<1>4. want # MinI
  OBVIOUS
<1> HIDE DEF want
<1>5. OptionOf("timestamp", Boxed("timestamp", want)) = Some(want)
  BY <1>4 DEF OptionOf, is_atom_null, Boxed, Null, IsSentinel, Sentinel, ReadAs, Ok
<1> QED
  BY <1>3, <1>5 DEF want

(* A quotient and its rest.                                                *)
LEMMA Division ==
  ASSUME NEW a \in Nat, NEW b \in Nat \ {0}
  PROVE  a \div b \in Nat /\ a % b \in Nat /\ a = b * (a \div b) + (a % b)
BY Z3

(* Whole milliseconds split again into the seconds and the rest.           *)
LEMMA Split ==
  ASSUME NEW m \in Nat \ {0}, NEW s \in Nat, NEW r \in Nat, r < m
  PROVE  (s * m + r) \div m = s /\ (s * m + r) % m = r
BY Z3

LEMMA TimesReadBack ==
  ASSUME NEW t \in Times, t.nanos < NanosPerSec
  PROVE  TimeOf(Millis(t)) = Ok([t EXCEPT !.nanos = @ - (@ % NanosPerMs)])
<1> USE SentinelsAssumption
<1> DEFINE m == MsPerSec
           r == t.nanos \div NanosPerMs
<1>1. t.secs \in 0..(SecsPerDay - 1) /\ t.nanos \in Nat
  BY DEF Times
<1>2. m \in Nat \ {0} /\ NanosPerSec = m * NanosPerMs
  <2>1. NanosPerSec = NanosPerMs * (NanosPerSec \div NanosPerMs) + (NanosPerSec % NanosPerMs)
    BY Z3
  <2>2. NanosPerSec \div NanosPerMs \in Nat
    BY Z3
  <2> DEFINE q == NanosPerSec \div NanosPerMs
  <2>3. q \in Nat /\ NanosPerSec = NanosPerMs * q
    BY <2>1, <2>2
  <2> HIDE DEF q
  <2>4. q # 0 /\ q * NanosPerMs = NanosPerMs * q
    BY <2>3
  <2> QED
    BY <2>3, <2>4 DEF q, MsPerSec
<1>3. r \in Nat /\ t.nanos = NanosPerMs * r + (t.nanos % NanosPerMs) /\ t.nanos % NanosPerMs \in Nat
  BY <1>1, Division
<1> HIDE DEF m, r
<1>4. r < m
  <2>1. SUFFICES ASSUME m <= r PROVE FALSE
    BY <1>2, <1>3
  <2>2. NanosPerMs * m <= NanosPerMs * r
    BY <1>2, <1>3, <2>1
  <2> QED
    BY <1>1, <1>2, <1>3, <2>2
<1>5. Millis(t) = t.secs * m + r
  BY DEF Millis, m, r
<1>6. Millis(t) \div m = t.secs /\ Millis(t) % m = r
  <2>1. t.secs \in Nat
    BY <1>1
  <2>2. (t.secs * m + r) \div m = t.secs /\ (t.secs * m + r) % m = r
    BY <2>1, <1>2, <1>3, <1>4, Split
  <2> QED
    BY <2>2, <1>5
<1>7. TimeOf(Millis(t)) = Ok([secs |-> t.secs, nanos |-> r * NanosPerMs])
  BY <1>1, <1>6 DEF TimeOf, m
<1>8. r * NanosPerMs = t.nanos - (t.nanos % NanosPerMs)
  BY <1>1, <1>3
<1>9. [t EXCEPT !.nanos = @ - (@ % NanosPerMs)] =
        [secs |-> t.secs, nanos |-> t.nanos - (t.nanos % NanosPerMs)]
  BY DEF Times
<1> QED
  BY <1>7, <1>8, <1>9

(* A DateTime reads back as itself or as the end of the range it passed,   *)
(* never as a null, and a time of day to the millisecond                   *)
(* (convert.rs:202-250).                                                   *)
THEOREM ChronoExact == SentinelsSpec => []ChronoReadsBack
<1>1. BoxedAsMeant => ChronoReadsBack
  <2> SUFFICES ASSUME BoxedAsMeant PROVE ChronoReadsBack
    OBVIOUS
  <2>1. ASSUME meant.is = "instant", meant.val # MinI
        PROVE  OptionOf("timestamp", atom) =
                 Some(IF meant.val > MaxI THEN MaxI
                      ELSE IF meant.val < MinI THEN MinI + 1 ELSE meant.val)
    <3>1. meant.val \in Int /\ atom = Boxed("timestamp", Nanos(meant.val))
      BY <2>1, SentinelsAssumption DEF BoxedAsMeant
    <3> QED
      BY <2>1, <3>1, InstantsReadBack
  <2>2. ASSUME meant.is = "time", meant.val.nanos < NanosPerSec
        PROVE  TimeOf(atom.val) = Ok([meant.val EXCEPT !.nanos = @ - (@ % NanosPerMs)])
    <3>1. meant.val \in Times /\ atom.val = Millis(meant.val)
      BY <2>2 DEF BoxedAsMeant, Boxed
    <3> QED
      BY <2>2, <3>1, TimesReadBack
  <2> QED
    BY <2>1, <2>2 DEF ChronoReadsBack
<1>2. SentinelsInit => BoxedAsMeant
  BY DEF SentinelsInit, BoxedAsMeant
<1> QED
  BY <1>1, <1>2, MeantStep, PTL DEF SentinelsSpec

-----------------------------------------------------------------------------
(* TimedSend: the inductive invariants.                                    *)

OfClient == client \in Conns

(* The exchanges, and that none is under way is one of them.               *)
Calls == [id : Nat, asked : (Nat \ {0}) \cup {None}, since : Nat, deadline : Int \cup {None}]

(* What each variable may hold, as far as the proofs need it.              *)
Shapes ==
  /\ now \in 0..MaxNow /\ sent \in Nat /\ opened \in 0..MaxConns
  /\ client \in Conns \cup {CLOSED, None}
  /\ pending \in [Conns -> SUBSET Nat] /\ answers \in [Conns -> SUBSET Nat]
  /\ call \in Calls

(* On the connection in use nothing is owed or on its way but the answer   *)
(* awaited, and a connection not opened yet has carried nothing.           *)
OnlyTheAwaited ==
  /\ ~Idle => OfClient
  /\ OfClient => client <= opened /\ pending[client] \cup answers[client] \subseteq {call.id} \ {0}
  /\ OfClient => pending[client] \cap answers[client] = {}
  /\ \A c \in Conns : c > opened => pending[c] = {} /\ answers[c] = {}

(* A deadline is the clock at the start plus the milliseconds asked for,   *)
(* capped and not wrapped.                                                 *)
DeadlineKept ==
  ~Idle =>
    /\ call.asked = None => call.deadline = None
    /\ call.asked # None =>
         call.deadline = (call.since \div TicksPerMs) + timeout_ms(call.asked)

PairingInv == Shapes /\ OnlyTheAwaited /\ AnswersMatch
TimingInv == Shapes /\ DeadlineKept /\ NeverEarly

-----------------------------------------------------------------------------
(* Division rounds down.                                                   *)
LEMMA DivisionBounds ==
  ASSUME NEW x \in Nat, NEW n \in Nat \ {0}
  PROVE  /\ x \div n \in Nat
         /\ n * (x \div n) <= x
         /\ x < n * (x \div n) + n
BY Z3

LEMMA DivisionMonotone ==
  ASSUME NEW x \in Nat, NEW y \in Nat, NEW n \in Nat \ {0}, x <= y
  PROVE  x \div n <= y \div n
<1> DEFINE a == x \div n  b == y \div n
<1>1. a \in Nat /\ b \in Nat /\ n * a <= x /\ y < n * b + n
  BY DivisionBounds
<1> HIDE DEF a, b
<1>2. SUFFICES ASSUME b + 1 <= a PROVE FALSE
  BY <1>1 DEF a, b
<1>3. n * (b + 1) <= n * a
  BY <1>1, <1>2
<1>4. n * (b + 1) = n * b + n
  BY <1>1
<1> QED
  BY <1>1, <1>3, <1>4

(* A timeout asked for is at least a millisecond and at most the cap.      *)
LEMMA TimeoutRange ==
  ASSUME NEW t \in Nat \ {0}
  PROVE  timeout_ms(t) \in 0..MAX_TIMEOUT_MS
<1> USE TimedSendAssumption
<1>1. (t + TicksPerMs - 1) \div TicksPerMs \in Nat
  BY DivisionBounds
<1>2. MAX_TIMEOUT_MS \in Nat
  BY DivisionBounds DEF MAX_TIMEOUT_MS
<1> QED
  BY <1>1, <1>2 DEF timeout_ms, Least

-----------------------------------------------------------------------------
(* Every exchange takes its own answer.                                    *)
LEMMA InitPairing == Init => PairingInv
BY TimedSendAssumption DEF Init, PairingInv, Shapes, OnlyTheAwaited, AnswersMatch,
  Idle, NoCall, Calls, OfClient, Conns, CLOSED

LEMMA DeadlineShape ==
  ASSUME Shapes, NEW ms \in Nat
  PROVE  Deadline(ms) \in Int \cup {None}
<1>1. Clock \in Nat
  BY TimedSendAssumption, DivisionBounds DEF Shapes, Clock
<1> QED
  BY <1>1, TimedSendAssumption DEF Deadline, Wrapped

LEMMA ShapesStep == Shapes /\ OnlyTheAwaited /\ [Next]_vars => Shapes'
<1> SUFFICES ASSUME Shapes, OnlyTheAwaited, [Next]_vars PROVE Shapes'
  OBVIOUS
<1> USE TimedSendAssumption DEF Shapes, network, Conns, CLOSED
<1>0. NoCall \in Calls
  BY DEF Calls, NoCall
<1>1. CASE Connect
  BY <1>1 DEF Connect
<1>2. CASE Drop \/ Refused \/ RefusedZero \/ Tick \/ SendAsync
  BY <1>2 DEF Drop, Refused, RefusedZero, Tick, SendAsync, Live
<1>3. ASSUME NEW ms \in Nat, NEW asked \in (Nat \ {0}) \cup {None}, RoundTrip(ms, asked)
      PROVE  Shapes'
  <2>1. Deadline(ms) \in Int \cup {None}
    BY DeadlineShape
  <2>2. /\ call' \in Calls
        /\ pending' \in [Conns -> SUBSET Nat] /\ sent' \in Nat
    BY <1>3, <2>1 DEF RoundTrip, Live, Calls
  <2> QED
    BY <1>3, <2>2 DEF RoundTrip
<1>4. CASE Send
  BY <1>3, <1>4 DEF Send
<1>5. CASE SendTimeout
  <2>1. PICK t \in Timeouts \ {0} : RoundTrip(timeout_ms(t), t)
    BY <1>5 DEF SendTimeout
  <2>2. timeout_ms(t) \in 0..MAX_TIMEOUT_MS /\ MAX_TIMEOUT_MS \in Nat /\ t \in Nat
    BY TimeoutRange, DivisionBounds DEF MAX_TIMEOUT_MS
  <2>3. timeout_ms(t) \in Nat
    BY <2>2
  <2> QED
    BY <2>1, <2>2, <2>3, <1>3
<1>6. CASE Received
  BY <1>0, <1>6 DEF Received
<1>7. CASE Expired \/ Lost
  BY <1>0, <1>7 DEF Expired, Lost, Closes
<1>8. ASSUME NEW c \in Conns, ServerAnswers(c) \/ ServerLeaves(c)
      PROVE  Shapes'
  <2>1. CASE ServerLeaves(c)
    BY <2>1 DEF ServerLeaves
  <2>2. CASE ServerAnswers(c)
    <3>1. pending' \in [Conns -> SUBSET Nat] /\ answers' \in [Conns -> SUBSET Nat]
      BY <2>2 DEF ServerAnswers
    <3> QED
      BY <2>2, <3>1 DEF ServerAnswers
  <2> QED
    BY <1>8, <2>1, <2>2
<1>9. CASE UNCHANGED vars
  BY <1>9 DEF vars
<1> QED
  BY <1>1, <1>2, <1>4, <1>5, <1>6, <1>7, <1>8, <1>9 DEF Next, ClientStep

LEMMA PairingStep == PairingInv /\ [Next]_vars => PairingInv'
<1> SUFFICES ASSUME PairingInv, [Next]_vars PROVE PairingInv'
  OBVIOUS
<1>0. Shapes'
  BY ShapesStep DEF PairingInv
<1> SUFFICES OnlyTheAwaited' /\ AnswersMatch'
  BY <1>0 DEF PairingInv
<1> USE TimedSendAssumption DEF PairingInv, Shapes, OnlyTheAwaited, AnswersMatch,
          OfClient, Idle, NoCall, Conns, CLOSED, network
<1>1. CASE Connect
  BY <1>1 DEF Connect
<1>2. CASE Drop \/ Refused \/ RefusedZero \/ Tick \/ SendAsync
  BY <1>2 DEF Drop, Refused, RefusedZero, Tick, SendAsync, Live
<1>3. ASSUME NEW ms, NEW asked, RoundTrip(ms, asked)
      PROVE  OnlyTheAwaited' /\ AnswersMatch'
  BY <1>3 DEF RoundTrip, Live
<1>4. CASE Send \/ SendTimeout
  BY <1>3, <1>4 DEF Send, SendTimeout
<1>5. CASE Received
  <2>1. PICK a \in answers[client] :
          /\ answers' = [answers EXCEPT ![client] = @ \ {a}]
          /\ last' = [how |-> "answer", id |-> call.id, of |-> a]
    BY <1>5 DEF Received
  <2>2. a = call.id
    BY <2>1, <1>5 DEF Received
  <2>3. pending[client] = {} /\ answers'[client] = {}
    BY <2>1, <2>2, <1>5 DEF Received
  <2> QED
    BY <1>5, <2>1, <2>2, <2>3 DEF Received
<1>6. CASE Expired \/ Lost
  BY <1>6 DEF Expired, Lost, Closes
<1>7. ASSUME NEW c \in Conns, ServerAnswers(c) \/ ServerLeaves(c)
      PROVE  OnlyTheAwaited' /\ AnswersMatch'
  <2>1. CASE ServerLeaves(c)
    BY <2>1 DEF ServerLeaves
  <2>2. CASE ServerAnswers(c)
    <3>1. PICK r \in pending[c] :
            /\ pending' = [pending EXCEPT ![c] = @ \ {r}]
            /\ answers' = [answers EXCEPT ![c] = @ \cup {r}]
      BY <2>2 DEF ServerAnswers
    <3>2. \A d \in Conns : pending'[d] \cup answers'[d] = pending[d] \cup answers[d] \/ d = c
      BY <3>1
    <3>3. pending'[c] \cup answers'[c] \subseteq pending[c] \cup answers[c]
      BY <3>1
    <3>4. \A d \in Conns : pending'[d] \cup answers'[d] \subseteq pending[d] \cup answers[d]
      BY <3>2, <3>3
    <3>5. client' = client /\ opened' = opened /\ call' = call /\ last' = last
      BY <2>2 DEF ServerAnswers
    <3>6. OfClient => pending'[client] \cup answers'[client] \subseteq {call.id} \ {0}
      BY <3>4, Zenon
    <3>8. OfClient => pending'[client] \cap answers'[client] = {}
      BY <3>1
    <3>7. \A d \in Conns : d > opened => pending'[d] = {} /\ answers'[d] = {}
      BY <3>4
    <3> QED
      BY <3>5, <3>6, <3>7, <3>8
  <2> QED
    BY <1>7, <2>1, <2>2
<1>8. CASE UNCHANGED vars
  BY <1>8 DEF vars
<1> QED
  BY <1>1, <1>2, <1>4, <1>5, <1>6, <1>7, <1>8 DEF Next, ClientStep

(* An exchange is answered with the answer to its own request, whatever    *)
(* expired, was lost or was sent without waiting before (ipc.rs:185-190).  *)
THEOREM OwnAnswer == Spec => []AnswersMatch
<1>1. PairingInv => AnswersMatch
  BY DEF PairingInv
<1> QED
  BY <1>1, InitPairing, PairingStep, PTL DEF Spec

-----------------------------------------------------------------------------
(* No timeout ends an exchange early.                                      *)

(* What the core sees of the clock at the deadline, in ticks.              *)
LEMMA ClockAtDeadline ==
  ASSUME NEW s \in Nat, NEW n \in Nat, NEW t \in Nat \ {0},
         n \div TicksPerMs >= (s \div TicksPerMs) + timeout_ms(t)
  PROVE  n - s > Least(t, MAX_TIMEOUT_MS * TicksPerMs) - TicksPerMs
<1> USE TimedSendAssumption
<1> DEFINE a == n \div TicksPerMs
           b == s \div TicksPerMs
           k == (t + TicksPerMs - 1) \div TicksPerMs
           m == timeout_ms(t)
           cap == MAX_TIMEOUT_MS
<1>1. a \in Nat /\ TicksPerMs * a <= n
  BY DivisionBounds
<1>2. b \in Nat /\ s < TicksPerMs * b + TicksPerMs
  BY DivisionBounds
<1>3. k \in Nat /\ t + TicksPerMs - 1 < TicksPerMs * k + TicksPerMs
  BY DivisionBounds
<1>4. cap \in Nat
  BY DivisionBounds DEF MAX_TIMEOUT_MS
<1>5. m = Least(k, cap)
  BY DEF timeout_ms
<1>6. a >= b + m
  OBVIOUS
<1> HIDE DEF a, b, k, m, cap
<1>7. m \in Nat
  BY <1>3, <1>4, <1>5 DEF Least
<1>8. TicksPerMs * a >= TicksPerMs * b + TicksPerMs * m
  <2>1. TicksPerMs * (b + m) = TicksPerMs * b + TicksPerMs * m
    BY <1>2, <1>7
  <2>2. TicksPerMs * a >= TicksPerMs * (b + m)
    BY <1>1, <1>2, <1>6, <1>7
  <2> QED
    BY <2>1, <2>2, <1>1, <1>2, <1>7
<1>9. n - s > TicksPerMs * m - TicksPerMs
  BY <1>1, <1>2, <1>7, <1>8
<1>10. TicksPerMs * m >= Least(t, cap * TicksPerMs)
  <2>1. CASE k <= cap
    BY <2>1, <1>3, <1>4, <1>5 DEF Least
  <2>2. CASE ~(k <= cap)
    BY <2>2, <1>3, <1>4, <1>5 DEF Least
  <2> QED
    BY <2>1, <2>2
<1>11. Least(t, cap * TicksPerMs) \in Int /\ TicksPerMs * m \in Int
  BY <1>4, <1>7 DEF Least
<1>12. n - s > Least(t, cap * TicksPerMs) - TicksPerMs
  BY <1>9, <1>10, <1>11
<1> QED
  BY <1>12 DEF cap

(* The sum of the clock and a timeout stays in range.                      *)
LEMMA NoWrap ==
  ASSUME Shapes, NEW t \in Nat \ {0}
  PROVE  Deadline(timeout_ms(t)) = Clock + timeout_ms(t)
<1> USE TimedSendAssumption
<1>1. Clock \in Nat /\ Clock <= MaxNow \div TicksPerMs /\ MaxNow \div TicksPerMs \in Nat
  BY DivisionMonotone, DivisionBounds DEF Shapes, Clock
<1>2. MAX_TIMEOUT_MS \in Nat
  BY DivisionBounds DEF MAX_TIMEOUT_MS
<1>3. timeout_ms(t) \in Nat /\ timeout_ms(t) <= MAX_TIMEOUT_MS
  BY TimeoutRange, <1>2
<1>4. timeout_ms(t) # 0
  <2> DEFINE k == (t + TicksPerMs - 1) \div TicksPerMs
  <2>1. k \in Nat /\ t + TicksPerMs - 1 < TicksPerMs * k + TicksPerMs
    BY DivisionBounds
  <2>2. timeout_ms(t) = Least(k, MAX_TIMEOUT_MS)
    BY DEF timeout_ms
  <2> HIDE DEF k
  <2>3. k # 0
    BY <2>1
  <2>4. MAX_TIMEOUT_MS # 0
    BY DEF MAX_TIMEOUT_MS
  <2> QED
    BY <2>1, <2>2, <2>3, <2>4, <1>2 DEF Least
<1> QED
  BY <1>1, <1>2, <1>3, <1>4 DEF Deadline, Wrapped

LEMMA InitTiming == Init => TimingInv
BY InitPairing DEF TimingInv, PairingInv, DeadlineKept, NeverEarly, Init, Idle, NoCall

LEMMA TimingStep == PairingInv /\ TimingInv /\ [Next]_vars => TimingInv'
<1> SUFFICES ASSUME PairingInv, TimingInv, [Next]_vars PROVE TimingInv'
  OBVIOUS
<1>0. Shapes /\ Shapes'
  BY ShapesStep DEF PairingInv
<1> SUFFICES DeadlineKept' /\ NeverEarly'
  BY <1>0 DEF TimingInv
<1> USE TimedSendAssumption DEF TimingInv, DeadlineKept, Idle, NoCall, network
<1>1. CASE UNCHANGED <<call, last>>
  BY <1>1 DEF NeverEarly, timeout_ms
<1>2. CASE Refused \/ RefusedZero
  BY <1>2 DEF Refused, RefusedZero, NeverEarly, timeout_ms
<1>3. CASE Send
  BY <1>3, <1>0 DEF Send, RoundTrip, Deadline, NeverEarly
<1>4. CASE SendTimeout
  <2>1. PICK t \in Timeouts \ {0} : RoundTrip(timeout_ms(t), t)
    BY <1>4 DEF SendTimeout
  <2>2. /\ call' = [id |-> sent', asked |-> t, since |-> now,
                    deadline |-> Deadline(timeout_ms(t))]
        /\ last' = last
    BY <2>1 DEF RoundTrip
  <2>3. t \in Nat \ {0} /\ t # None
    BY <2>1
  <2>4. call'.deadline = (now \div TicksPerMs) + timeout_ms(t)
    BY <2>2, <2>3, <1>0, NoWrap DEF Clock
  <2>5. DeadlineKept'
    BY <2>2, <2>3, <2>4 DEF timeout_ms
  <2> QED
    BY <2>2, <2>5 DEF NeverEarly
<1>5. CASE Received
  BY <1>5 DEF Received, NeverEarly
<1>6. CASE Expired
  <2>1. /\ call' = NoCall /\ ~Idle /\ call.deadline # None /\ Clock >= call.deadline
        /\ last' = [how |-> "expired", asked |-> call.asked, after |-> now - call.since]
    BY <1>6 DEF Expired, Closes
  <2>2. /\ call.asked \in Nat /\ call.since \in Nat /\ now \in Nat
        /\ call.deadline = (call.since \div TicksPerMs) + timeout_ms(call.asked)
    BY <2>1, <1>0 DEF Shapes, Calls
  <2>3. call.asked # 0
    BY <1>0, <2>1 DEF Shapes, Calls
  <2>4. now - call.since > Least(call.asked, MAX_TIMEOUT_MS * TicksPerMs) - TicksPerMs
    BY <2>1, <2>2, <2>3, ClockAtDeadline DEF Clock
  <2> QED
    BY <2>1, <2>4 DEF NeverEarly
<1>7. CASE Lost
  BY <1>7 DEF Lost, Closes, NeverEarly
<1>8. CASE Connect \/ Drop \/ SendAsync \/ Tick \/ UNCHANGED vars
  BY <1>1, <1>8 DEF Connect, Drop, SendAsync, Tick, vars
<1>9. ASSUME NEW c \in Conns, ServerAnswers(c) \/ ServerLeaves(c)
      PROVE  UNCHANGED <<call, last>>
  BY <1>9 DEF ServerAnswers, ServerLeaves
<1> QED
  BY <1>1, <1>2, <1>3, <1>4, <1>5, <1>6, <1>7, <1>8, <1>9 DEF Next, ClientStep

(* No timeout ends an exchange before its time but for the millisecond the *)
(* clock is coarse, the cap included (ipc.rs:47-63).                       *)
THEOREM NoTimeoutIsEarly == Spec => []NeverEarly
<1>1. TimingInv => NeverEarly
  BY DEF TimingInv
<1> QED
  BY <1>1, InitPairing, PairingStep, InitTiming, TimingStep, PTL DEF Spec

-----------------------------------------------------------------------------
(* No timeout ends an exchange late.                                       *)

(* An exchange past its timeout, by no more than the clock is coarse, has  *)
(* a deadline and the core's clock has reached it.                         *)
OverdueIsExpired ==
  ~Idle /\ call.asked # None /\ call.since + call.asked + TicksPerMs <= now
    => call.deadline # None /\ Clock >= call.deadline

(* The core's clock has reached a deadline by the time it is due, in ticks. *)
LEMMA DeadlineInTime ==
  ASSUME NEW s \in Nat, NEW n \in Nat, NEW t \in Nat \ {0}, s + t + TicksPerMs <= n
  PROVE  n \div TicksPerMs >= (s \div TicksPerMs) + timeout_ms(t)
<1> USE TimedSendAssumption
<1> DEFINE a == n \div TicksPerMs
           b == s \div TicksPerMs
           k == (t + TicksPerMs - 1) \div TicksPerMs
           m == timeout_ms(t)
           cap == MAX_TIMEOUT_MS
<1>1. a \in Nat /\ n < TicksPerMs * a + TicksPerMs
  BY DivisionBounds
<1>2. b \in Nat /\ TicksPerMs * b <= s
  BY DivisionBounds
<1>3. k \in Nat /\ TicksPerMs * k <= t + TicksPerMs - 1
  BY DivisionBounds
<1>4. cap \in Nat
  BY DivisionBounds DEF MAX_TIMEOUT_MS
<1>5. m = Least(k, cap)
  BY DEF timeout_ms
<1> HIDE DEF a, b, k, m, cap
<1>6. m \in Nat /\ m <= k
  BY <1>3, <1>4, <1>5 DEF Least
<1>7. SUFFICES ASSUME a + 1 <= b + m PROVE FALSE
  BY <1>1, <1>2, <1>6 DEF a, b, m
<1>8. TicksPerMs * (a + 1) <= TicksPerMs * (b + k)
  BY <1>1, <1>2, <1>3, <1>6, <1>7
<1>9. TicksPerMs * (a + 1) = TicksPerMs * a + TicksPerMs
  BY <1>1
<1>10. TicksPerMs * (b + k) = TicksPerMs * b + TicksPerMs * k
  BY <1>2, <1>3
<1> QED
  BY <1>1, <1>2, <1>3, <1>8, <1>9, <1>10

(* An exchange with a timeout may expire as soon as its timeout and the    *)
(* millisecond the clock is coarse are over: the rounding does not make a  *)
(* deadline later, nor a short timeout none (ipc.rs:51-63).  The rest of   *)
(* ExchangesEnd is that the core wakes.                                    *)
THEOREM NoTimeoutIsLate == Spec => []OverdueIsExpired
<1>1. TimingInv => OverdueIsExpired
  <2> SUFFICES ASSUME TimingInv, ~Idle, call.asked # None,
                      call.since + call.asked + TicksPerMs <= now
               PROVE  call.deadline # None /\ Clock >= call.deadline
    BY DEF OverdueIsExpired
  <2>1. call.asked \in Nat \ {0} /\ call.since \in Nat /\ now \in Nat
    BY TimedSendAssumption DEF TimingInv, Shapes, Calls
  <2>2. call.deadline = (call.since \div TicksPerMs) + timeout_ms(call.asked)
    BY DEF TimingInv, DeadlineKept
  <2>3. Clock >= call.deadline
    BY <2>1, <2>2, DeadlineInTime DEF Clock
  <2>4. call.since \div TicksPerMs \in Nat /\ timeout_ms(call.asked) \in Int
    BY <2>1, DivisionBounds, TimeoutRange, TimedSendAssumption DEF MAX_TIMEOUT_MS
  <2> QED
    BY <2>2, <2>3, <2>4, TimedSendAssumption
<1> QED
  BY <1>1, InitPairing, PairingStep, InitTiming, TimingStep, PTL DEF Spec
=============================================================================
