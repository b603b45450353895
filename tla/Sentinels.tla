------------------------------ MODULE Sentinels ------------------------------
(***************************************************************************)
(* In-band nulls and the conversions that read them: vector.rs (vec, set,  *)
(* push, set_null, slice, is_null_at, get, to_vec), raw.rs (the nulls of   *)
(* atoms), scalars.rs and convert.rs (Option and the chrono types).        *)
(*                                                                         *)
(* A null is a value of the type, its sentinel; for the fixed-width types  *)
(* the core looks for it in a vector only when HAS_NULLS is up, and not    *)
(* every write raises that.  The module follows one vector of any kind, a  *)
(* view taken of it, and one chrono value boxed as an atom.                *)
(***************************************************************************)
EXTENDS Integers, Sequences

CONSTANTS
  MinI, MaxI,   \* the range of i64
  Plain,        \* a cell that is no sentinel, of every type
  NanosPerSec,  \* nanoseconds in a second
  NanosPerMs,   \* nanoseconds in a millisecond
  SecsPerDay,   \* seconds in a day
  Instants,     \* DateTimes, in nanoseconds since 2000-01-01
  MaxLen        \* bound: cells of a vector

ASSUME SentinelsAssumption ==
  /\ MinI \in Int /\ MaxI = -MinI - 1 /\ Plain \in 1..MaxI
  /\ NanosPerMs \in Nat \ {0} /\ NanosPerSec \in Nat \ {0} /\ NanosPerSec % NanosPerMs = 0
  /\ NanosPerSec <= MaxI /\ SecsPerDay \in Nat \ {0}
  /\ Instants \subseteq Int /\ MaxLen \in Nat

VARIABLES
  ty,          \* the type of the vector
  main,        \* the vector: its cells, HAS_NULLS, and (history) the cells
               \* whose sentinel was written by set or push
  view,        \* a slice of it: where it looks, and at what if not at main
  atom,        \* the atom a chrono value was boxed as
  meant        \* history: that value

sentinelsVars == <<ty, main, view, atom, meant>>

-----------------------------------------------------------------------------
(* The encoding of nulls *)

\* i64 stands for the types with a sentinel behind the gate, sym for the two
\* whose empty value is the null, u8 for the two that have none.
Types == {"i64", "sym", "u8"}
Gated == {"i64"}
VecElem == {"i64", "u8"}
Sentinel(t) == IF t = "sym" THEN 0 ELSE MinI
IsSentinel(t, x) == t # "u8" /\ x = Sentinel(t)
CellsOf(t) == {IF t = "u8" THEN 0 ELSE Sentinel(t), Plain}

\* Atoms; Null is the untyped null singleton.
Null == [tag |-> "null"]
Boxed(t, x) == [tag |-> t, val |-> x]
is_atom_null(v) == v = Null \/ IsSentinel(v.tag, v.val)

\* A reader of one type, and its result.
Err == [ok |-> FALSE]
Ok(x) == [ok |-> TRUE, val |-> x]
ReadAs(t, v) == IF v.tag = t THEN Ok(v.val) ELSE Err

NoneOption == [some |-> FALSE]
Some(x) == [some |-> TRUE, val |-> x]

\* Option<T>::from_value, where T reads atoms of type t.
OptionOf(t, v) == IF is_atom_null(v) THEN NoneOption ELSE Some(ReadAs(t, v).val)

-----------------------------------------------------------------------------
(* A vector, or a view of one; the core asks a view's parent about nulls.  *)

Whole == [buf |-> main, off |-> 0, len |-> Len(main.cells)]
NoView == [is |-> "none"]
Viewed == [buf |-> IF view.shared THEN main ELSE view.buf, off |-> view.off, len |-> view.len]
Vectors == IF view = NoView THEN {Whole} ELSE {Whole, Viewed}

Cell(v, i) == v.buf.cells[v.off + i]
is_null_at(v, i) == IsSentinel(ty, Cell(v, i)) /\ (ty \in Gated => v.buf.gate)

get(v, i) ==
  IF ty # "sym" /\ is_null_at(v, i) THEN Null ELSE Boxed(ty, Cell(v, i))

\* to_vec::<Option<T>>.
to_vec(v) == [i \in 1..v.len |-> OptionOf(ty, get(v, i))]

-----------------------------------------------------------------------------
\* Slip: the vector is built cell by cell, with nothing to look for sentinels.
VectorByAppend(t, cells) == [cells |-> cells, gate |-> FALSE, late |-> {}]

\* The core looks for sentinels in what a vector is built from.
Vector(t, cells) ==
  [cells |-> cells, gate |-> t \in Gated /\ \E i \in DOMAIN cells : IsSentinel(t, cells[i]),
   late |-> {}]

SentinelsInit ==
  /\ ty \in Types
  /\ main = Vector(ty, <<>>)
  /\ view = NoView
  /\ atom = Null /\ meant = [is |-> "nothing"]

\* Value::vec, sym_vec, bool_vec: any cells, sentinels among them.
vec ==
  /\ \E t \in Types, n \in 0..MaxLen : \E cells \in [1..n -> CellsOf(t)] :
       ty' = t /\ main' = Vector(t, cells)
  /\ view' = NoView
  /\ UNCHANGED <<atom, meant>>

\* A consuming write: a vector a view shares is copied first, and the view
\* keeps what was there.
Write(cells, i, x) ==
  /\ main' = [main EXCEPT !.cells = cells,
                          !.late = IF IsSentinel(ty, x) THEN @ \cup {i} ELSE @ \ {i}]
  /\ view' = IF view # NoView /\ view.shared
               THEN [view EXCEPT !.shared = FALSE, !.buf = main] ELSE view
  /\ UNCHANGED <<ty, atom, meant>>

set ==
  /\ ty \in VecElem
  /\ \E i \in DOMAIN main.cells, x \in CellsOf(ty) : Write([main.cells EXCEPT ![i] = x], i, x)

push ==
  /\ ty \in VecElem /\ Len(main.cells) < MaxLen
  /\ \E x \in CellsOf(ty) : Write(Append(main.cells, x), Len(main.cells) + 1, x)

\* In place, whoever shares the vector; refused where there is no null.
\* set_null(i, false) does nothing.
set_null ==
  /\ ty # "u8"
  /\ \E i \in DOMAIN main.cells :
       main' = [main EXCEPT !.cells[i] = Sentinel(ty), !.gate = TRUE, !.late = @ \ {i}]
  /\ UNCHANGED <<ty, view, atom, meant>>

slice ==
  /\ \E off \in 0..Len(main.cells) : \E len \in 0..(Len(main.cells) - off) :
       view' = [off |-> off, len |-> len, shared |-> TRUE, buf |-> Vector(ty, <<>>)]
  /\ UNCHANGED <<ty, main, atom, meant>>

-----------------------------------------------------------------------------
(* chrono *)

\* Rust's division, towards zero.
Quotient(a, b) == IF a < 0 THEN -((-a) \div b) ELSE a \div b
num_nanoseconds(d) == IF d \in MinI..MaxI THEN Some(d) ELSE NoneOption
num_seconds(d) == Quotient(d, NanosPerSec)

\* Slip: an instant out of range collapses to the least i64.
NanosOrLeast(d) == LET n == num_nanoseconds(d) IN IF n.some THEN n.val ELSE MinI

\* DateTime::to_value: out of range it saturates, short of the sentinel.
Nanos(d) ==
  LET n == num_nanoseconds(d)
  IN  IF n.some THEN n.val ELSE IF num_seconds(d) < 0 THEN MinI + 1 ELSE MaxI

\* NaiveTime::to_value and from_value; in a leap second nanos runs on past
\* the second.
Times == [secs : 0..(SecsPerDay - 1), nanos : 0..(2 * NanosPerSec - 1)]
MsPerSec == NanosPerSec \div NanosPerMs
Millis(t) == t.secs * MsPerSec + t.nanos \div NanosPerMs
TimeOf(ms) ==
  IF ms \div MsPerSec < SecsPerDay
    THEN Ok([secs |-> ms \div MsPerSec, nanos |-> (ms % MsPerSec) * NanosPerMs])
    ELSE Err

WriteInstant ==
  /\ \E d \in Instants :
       /\ meant' = [is |-> "instant", val |-> d]
       /\ atom' = Boxed("timestamp", Nanos(d))
  /\ UNCHANGED <<ty, main, view>>

WriteTime ==
  /\ \E t \in Times :
       /\ meant' = [is |-> "time", val |-> t]
       /\ atom' = Boxed("time", Millis(t))
  /\ UNCHANGED <<ty, main, view>>

-----------------------------------------------------------------------------
SentinelsNext == vec \/ set \/ push \/ set_null \/ slice \/ WriteInstant \/ WriteTime

SentinelsSpec == SentinelsInit /\ [][SentinelsNext]_sentinelsVars

-----------------------------------------------------------------------------
(* Properties *)

\* Options give None for exactly the cells that hold the null of their type.
OptionReadsTheCell ==
  \A v \in Vectors : \A i \in 1..v.len :
    to_vec(v)[i] = IF IsSentinel(ty, Cell(v, i)) THEN NoneOption ELSE Some(Cell(v, i))

\* Not a null the vector was built with, not one of set_null is missed.
OnlyLateWritesHide ==
  \A v \in Vectors : \A i \in 1..v.len :
    IsSentinel(ty, Cell(v, i)) /\ ~is_null_at(v, i) => v.off + i \in v.buf.late

(* Read as Options, a vector and its view are exact, whether the core's    *)
(* flag is up or not; read with is_null_at, they miss no null but one      *)
(* written over a cell by set or push (vector.rs:225-246).                 *)
NullsReadBack == OptionReadsTheCell /\ OnlyLateWritesHide

(* A DateTime reads back as itself or, out of range, as the end of the     *)
(* range it passed, and never as a null (convert.rs:217-234); the least    *)
(* i64 alone, which is in range and the sentinel, is left out.  A time of  *)
(* day reads back to the millisecond, leap seconds left out.               *)
ChronoReadsBack ==
  /\ meant.is = "instant" /\ meant.val # MinI =>
       OptionOf("timestamp", atom) =
         Some(IF meant.val > MaxI THEN MaxI ELSE IF meant.val < MinI THEN MinI + 1 ELSE meant.val)
  /\ meant.is = "time" /\ meant.val.nanos < NanosPerSec =>
       TimeOf(atom.val) = Ok([meant.val EXCEPT !.nanos = @ - (@ % NanosPerMs)])
=============================================================================
