# Verification of rayforce-rs

TLA+ models of the Rust bindings to the RayforceDB core (`src/rayforce`) and of
the build of that core (`src/rayforce-sys`), checked with TLC on small
instances, with the central safety properties proved by TLAPS for every value
of the constants. Line numbers are those of the sources in this repository;
`PROJECT.json` maps each definition to its lines.

The core itself is C, vendored as a submodule and absent from the sources. What
it does is modelled only as far as the bindings rely on it, from how they call
it and from what their comments say of it.

## The system

The core has one process-wide runtime, a heap and a VM that belong to the
thread that created it, one event loop, and almost no checks. The bindings make
it safe to use, or say where they do not. What is hard in them is the state
that Rust's types do not reach: process-wide and thread-local flags, pointers
the core frees when it likes, slots it uses again, a thread that interrupts
another.

| Part | Source | State | Operations | Interacts with |
|---|---|---|---|---|
| Runtime scopes | `runtime.rs` | `LIVE` (process), `OWNS_RUNTIME` (thread), the core's runtime, heap and loop pointers | `scope` (new, body, drop), `eval`, `set_global`, `get_global` | every other part asks it whether it is on the runtime's thread |
| Event loop handle | `poll.rs` | the pointer to the loop | `install`, `run_for`, `exit`, `holds`, `selector_data` | runs connections, handlers and guarded requests |
| Guarded IPC server | `serve.rs` | `INSTALLED`, the `Shared` of each server (running request, ends, stop), the watcher thread, the core's interrupt flag | `start`, `drain`, drop, the guard around each request, the watcher's look | the loop calls the guard; the watcher calls `ray_request_interrupt` from its own thread |
| Q client and subscriptions | `q.rs` | `ATTACHED`, `NEXT_TOKEN` (thread), slot, address and token in each `Subscription` | `connect`, `attach`, `send`, `is_alive`, drop, `serve_q` | shares the core's table of slots with the IPC client and the loop |
| Native IPC client | `ipc.rs` | a slot number, or closed | `connect`, `send`, `send_timeout`, `send_async`, drop | as above; the core's clock and the server at the other end |
| Values | `value.rs`, `vector.rs`, `list.rs`, `dict.rs`, `table.rs` | the counted reference each `Value` stands for; the null flag of a vector | construct, clone, slice, read, change, drop | arguments and results of everything else |
| Bindings | `env.rs`, `lambda.rs` | the core's environment, `BIND_COUNTER` (thread), the name in each `Fn` | `bind_vary`, `bind_unary`, `Fn::new`, `from_global`, `call`, `apply` | the loop dispatches pushed frames to handlers by name |
| Queries and expressions | `query.rs`, `expr.rs`, `ops.rs` | the builder: filters, projections, keys, order | `select`, `update`, `head`, `tail`, `take`, `insert`, joins | lower expressions to values, which the core evaluates |
| Conversions | `scalars.rs`, `convert.rs`, `raw.rs` | none | read and write atoms, nulls, `Option`, dates and times | nulls of atoms and of the cells of vectors |
| Errors | `error.rs` | none | read and free error objects | |
| Build of the core | `rayforce-sys/build.rs` | the mirror, objects, archive and stamp in `OUT_DIR` | stage, prune, compare the stamp, make | outlives each run of the build |

The hard behaviours, and what would make each part correct:

- *Scopes.* Threads race for `LIVE`, and tear down in an order that other
  threads can see. At most one core runtime; no engine call without a VM; the
  loop within the heap; `LIVE` given back whatever fails; refusals that tell
  the truth; a `Poll` that escapes is inert.
- *Guard.* The watcher decides and the request finishes at the same time. An
  interrupt hits its own request or nothing; every request ends once, with a
  true verdict; budgets and hangups are enforced; a drop returns; a restart
  starts clean.
- *Handles.* The loop closes a connection inside a call or outside, and gives
  its slot to the next. A handle reaches its own connection or none, and leaks
  neither connections nor claims.
- *Values.* Every core call borrows, consumes or returns references, in its
  own way when it fails. Counts are exact, nothing dangles or leaks, a change
  is private.
- *Bindings.* Names outlive objects and runtimes. `apply` runs what `call`
  runs; a stale expression runs nothing of another's.
- *Queries.* A builder rewrites what the core cannot run and folds what it can
  take only once. The answer is what the calls say, in any order and number.
- *Exchanges in time.* A response has no request id, and a deadline is a sum of
  whole milliseconds in 64 bits. No answer goes to another request, no timeout
  comes early, an exchange that should end does.
- *Nulls.* A null is a value of the type, and the core looks for it only behind
  a flag not every write raises. What was written reads back; saturation does
  not make a null.
- *Build.* Killed anywhere, sources edited under it. One flavour, these
  sources, no stale object.

`PROJECT.json` lists the hazards with the lines at which they bite, and the
property that covers each, or why none does.

## Modules

| Module | Models | Extends or uses |
|---|---|---|
| `ScopeLock` | what `Runtime::scope` promises: exclusive tenures of one resource | |
| `Runtime` | `runtime.rs` and `poll.rs`, thread by thread, a step per store or core call | implements `ScopeLock` |
| `RuntimeProofs` | theorems about `Runtime` | |
| `RequestLog` | what a server promises of its log: one request, one reason, one end each | |
| `IpcGuard` | `serve.rs`: host, loop, watchers, core flags, clients, clock | implements `RequestLog`, per server |
| `IpcGuardProofs` | theorems about `IpcGuard` | |
| `Selectors` | handles of `q.rs` and `ipc.rs` on the core's table, exchanges nested in handlers | |
| `SelectorsProofs` | theorems about `Selectors` | |
| `TimedSend` | the exchanges of a `TcpClient` in time: deadlines, late answers, lost servers | |
| `Values` | references, sharing and copy on write | |
| `ValuesProofs` | theorems about `Values` | |
| `Sentinels` | nulls in cells and atoms, `Option`, and the chrono conversions | |
| `WidthProofs` | theorems about `Sentinels` and `TimedSend`, the two modules whose integers have a width | |
| `Expr` | `expr.rs` and `ops.rs`: expressions, the ASTs they compile to, and `compile`, as trees of bounded height | |
| `QueryCore` | the part of the core a query uses: evaluation, `select`, `update`, sorting, `take` | extends `Expr` |
| `Query` | `query.rs`: builders, rewrite, fold and dicts | extends `QueryCore` |
| `QueryProofs` | theorems about `Query` | |
| `Bindings` | `lambda.rs` and the binding half of `env.rs` | |
| `BindingsProofs` | theorems about `Bindings` | |
| `BuildStage` | `build.rs` over an `OUT_DIR` that outlives each run | |
| `BuildStageProofs` | theorems about `BuildStage` | |
| `MC*` | the symmetry sets, tables, expressions and instants of the runs | one per component |

### How state and actions correspond to the code

**Runtime.** `pc[t]` is how far thread `t` is through `Runtime::new`, the body
and `Drop`. Each store to `LIVE` or `OWNS_RUNTIME` and each core call is a step
(`WinLive`, `CreateCore`, `SetOwns`, `EndBody`, `DropPoll`, `DropCore`,
`ClearOwns`, `ReleaseLive`), so other threads run between any two. `RefuseScope`
is one step: the compare-exchange decides it, and the thread-local it reads next
cannot be changed by anyone else. `EngineCall` stands for `eval`, `eval_value`
and the globals, whose only control is the thread check. Runtimes are numbered;
a number stands for a pointer never used again, which favours no check: what
`check_current` compares is not the pointer.

**IpcGuard.** The loop's thread is one `pc`. `Dispatch` hands a client's frame
to the hook; `CloneInstalled`, `ConnectionFd`, `Begin`, an evaluation,
`FinishTake`, `FinishRecord` and `Reply` are the guard call, split where a lock
is taken or given back. `EvalNests` is a guard call made inside a request;
`EvalRedefinesHooks` is the replacement of the hooks by evaluated code that
`serve.rs:29` mentions. Each server has a watcher: `WatchLoop` sleeps and looks
at `stop`, `WatchCheck` locks and decides, `WatchStop` marks the request, sets
the flag and unlocks. The lock is held between the last two, so the guard waits
there. A client is one connection; a socket's content is the number of frames
not yet read, and `PeerGone` is the one-byte peek.

**Selectors.** `table` is the core's table of slots; a new connection gets the
lowest free one, at any free address. A `Subscription` is slot, address and
token; a `TcpClient` a slot. `calls` is the stack of exchanges under way: while
one waits, handlers run the program's code, which may open, close and exchange
on other handles. What an exchange tells its handle is `Answered` or `Failed`.

**Values.** One step per operation; `ReleaseOne` is the core freeing an object
and what it holds, one reference at a time, with nothing else in between. An
atom stands as a vector of one cell, which nobody shares cells with. What a
concatenation or an evaluation computes is any payload; an evaluation may also
give back another reference to the value evaluated or to what a name is bound
to, or the null singleton (`EvalValue`). A
consuming call takes its argument's reference whether or not it succeeds, with
the one exception the code documents (`vector.rs:359-361`), which the check in
front of it excludes. A reference a call has consumed is never released again
by the handle (`InstallMutation`).

**Bindings.** `fn` holds the places of `Fn` objects, `expr` the expressions of
`apply`: a name, and no value. `ApplyBinds` is `bind` and `apply` of a nameless
`Fn`, with the refusal of the core as an outcome; `ApplyNamed` of one that has
a name. `BindObj` tries both tables; each may refuse.

**TimedSend.** `RoundTrip` writes a request and begins the wait; `Received`,
`Expired` and `Lost` are the three ways it comes back, the last two of which
close the connection. `timeout_ms` and `Deadline` are the code's arithmetic,
with integers that wrap; time passes in ticks, some to the millisecond, as the
core's clock is coarser than the caller's. A server answers whenever it likes,
also after its client has given up. Which slot a handle names is left to
`Selectors`.

**Sentinels.** One vector, of a type whose null is behind the flag (`i64`
stands for all of them), one whose empty value is the null (`sym`), or one with
none (`u8`); a view of it; and an atom. `set`, `push` and `set_null` write
through the view's sharing as the core does. `late` is history: the cells whose
sentinel was written with no flag raised. Integers are of any width in the
module and of four bits in the run, so both ends of the range are near.

**Query.** A program makes calls on a builder (`BeginSelect`, `Agg`, `Filter`,
`By`, `OrderBy`, `Set`, ...), then executes it (`ExecuteSelect`,
`ExecuteUpdate`), as often as it likes, or asks the table in hand for `head`,
`tail` or `take`. `compile`, `dag_rewrite`, `Combined` (the fold of the
filters), `select_dict`, `update_dict` and `select_execute` are the functions of
the code. `calls` is history, and the properties read from it, with expressions
as they were written, what the answer should be. Expressions and ASTs are trees
over the names `Syms`, taken up to `MaxHeight`, so that they form a set and what
follows their recursion is a function on it. `QueryCore` evaluates an AST in one
of two ways, "eval", which has `filter`, and the "query" path of a select,
which has not.

**BuildStage.** One action per file copied, pruned, removed or compiled, and
per write of stamp and archive; `fs::copy` is two steps, with the destination
cut short in between. `Killed` may come at any of them. Times are instants of
the file system's clock; several steps may fall in one.

Each module also has operators whose comment begins with *Slip*: a definition
with the mistake one could make in it (a dropped check, a missing reset, a
swapped order). They are not part of any specification. `PROJECT.json` names,
for each property, the slip that breaks it when it is put in the place of the
definition it imitates: it shows that the property can tell.

## Runs

| Run | Instance | What it shows |
|---|---|---|
| `scopes` | 3 threads, 3 runtimes, fair | one core runtime, no call without a VM, the loop gone before its heap, truthful refusals, an escaped `Poll` inert outside scopes, `LIVE` given back, `ScopeLock` implemented |
| `escaped_poll` | 2 threads, 3 runtimes | **violated**: an escaped `Poll` is not inert once its thread has a second scope |
| `guard` | 2 clients, a frame each, 1 push, budget 1 of 2 ticks, nesting 2 | an interrupt hits its request and nothing else, one end per request, true verdicts |
| `guard_live` | 1 client, 2 frames, 2 servers in turn, 2 ports, fair | budgets and clean hangups enforced, drop returns, the lock is granted, one watcher, `RequestLog` implemented |
| `guard_hangup` | 1 client, 2 frames, fair | **violated**: a hangup behind a pipelined frame is never seen |
| `handles` | 3 connections, 2 slots, 2 addresses, exchanges 2 deep | subscriptions never reach each other, none connected looks dead, no leaked claim or connection, a client crosses only when nothing told it |
| `client` | 2 connections, 3 messages, 8 ticks of half a millisecond, timeouts of 0 to 20 ticks, integers of 4 bits, fair | an answer goes to its own request, no timeout is early, an exchange that should end does |
| `values` | 3 blocks, 3 handles, boxes of 2 | exact counts, nothing dangling, nothing leaked, private changes |
| `nulls` | 2 cells, integers of 4 bits, instants of both signs beyond their range | Options read exactly the cells, `is_null_at` misses only nulls written by `set` or `push`, dates saturate short of the null |
| `bindings` | 2 threads, 3 runtimes, 2 lambdas, 2 `Fn`s, 2 expressions, 2 generated names a thread, 2 definitions | `apply` agrees with `call`, stale expressions name nothing of another's |
| `query` | 3 tables of 3 rows, 4 filters, 8 projections, 3 sets, 2 keys, 3 orders, 3 calls a builder | select and update mean their calls, masked sums are always answered, head and tail split the table |
| `build` | 2 files, 3 runs, 1 edit or bump, 4 instants | one flavour, archive of the stage, no edit missed but inside a copy |

Why the bounds are enough:

- *Scopes*: two threads race, a third sees both; three runtimes let a thread
  leave one scope, another thread have one, and the first come back. The
  proofs have no bound.
- *Guard*: one request runs at a time, so the second client is there to run
  next and be hit by mistake. One tick spends the budget, the second is for
  what comes after. Two frames are a pipeline. Nesting 2 is a guard call inside
  a request; `begin` treats a deeper one alike, and the proofs cover any depth.
  `guard_live` has no nesting, which the safety run has. The second server needs
  a second port, as the core cannot stop listening.
- *Handles*: three connections over two slots are a lost one, one in its slot,
  and one elsewhere; two exchanges are one inside the handler of the other.
- *Client*: the second connection is the one a late answer must not reach; of
  three messages one is given up, one is asynchronous and one waits. With two
  ticks to the millisecond a timeout can fall between two; with 4 bits the cap
  and the longest timeouts fall within the run.
- *Nulls*: two cells are one inside a view and one outside; one of two can be a
  null while the other is not. The proofs have no bound.
- *Query*: three calls are a filter, another, and a projection, key or order
  beside them; each expression is there for a shape the rewrite tells apart (a
  reduction of a filter under a call, inside a mask, of a filter of a filter).
- *Values*: with three blocks a box, what it holds and a copy exist at once.
- *Bindings*: three scopes on two threads as above; the second generated name
  is the one that must not be the first.
- *Build*: three runs are one that completes, one that is killed, and one that
  pays for it; of two files one is done and one is not.

`CHECK_DEADLOCK FALSE` is set where everything is counted by a bound and the
system may stop when the bounds are spent: in `Selectors`, `TimedSend`,
`Bindings` and `BuildStage`.

### Fairness

`Runtime`: a thread inside `Runtime::new` or `Drop` is scheduled again (`WF`
of its internal steps); bodies owe nothing, and liveness excuses a scope whose
body never ends. `IpcGuard`: weak fairness for each watcher (a thread that
sleeps with a bound and then looks), for the guard's own code between the
evaluations, for the join, and for the core reaching its next cancellation
check once a flag is set; strong fairness for that of the outermost call, as
nested calls may begin and end for ever under it. `TimedSend`: time passes, and the core
wakes at its deadline and at the end of its stream, which is what `poll` with a
timeout gives; nothing is assumed of servers. In `IpcGuard` nothing is assumed of
evaluations, clients, the host or the clock: a budget is enforced on an
evaluation that never ends by itself, once the clock has passed it.

## Proofs

TLAPS proves, for any set of threads, clients, ports, slots, lambdas, names
and files, any finite heap and places for Values, lists of any length, any
budget and width of integers, tables of any size, expressions of any height,
and any bounds, every safety property that a passing run checks, invariants and
action properties alike:

- `RuntimeProofs`: `TypeOK`, `OneCoreRuntime`, `NoCallWithoutVM`,
  `LoopWithinRuntime`, `LiveCoversTeardown`, `RefusalIsTruthful`,
  `EscapedPollInertOutside`, and that `Runtime` implements `ScopeLock`.
- `IpcGuardProofs`: `TypeOK`, `InterruptOnlyInRequest`,
  `WritesNeverCancelled`, `WatcherOfInstalled`, `StopHitsItsRequest`,
  `EveryRequestEndsOnce`, `VerdictsJustified`, and that each server implements
  `RequestLog`; and what its liveness rests on (below).
- `SelectorsProofs`: `TypeOK`, `SubscriptionsNeverCross`, `ConnectedIsAlive`,
  `ClaimsAreHeld`, `ConnectionsAreHeld`, `ToldClientsNeverCross`.
- `WidthProofs`: `AnswersMatch` and `NeverEarly` of `TimedSend`, and what its
  liveness rests on; `NullsReadBack` and `ChronoReadsBack` of `Sentinels`.
- `QueryProofs`: `SelectMeansCalls`, `MaskedSumsAnswered`, `UpdateMeansCalls`,
  `HeadTailSplit`, and two facts about the code's functions alone: the rewrite
  agrees with what was written (`RewriteAgrees`), and the fold of the filters
  with all of them (`FiltersFold`).
- `ValuesProofs`: `TypeOK`, `CountsExact`, `NoDanglingValue`, `NothingLeaks`,
  `ChangesStayPrivate`.
- `BindingsProofs`: `TypeOK`, `ApplyAgreesWithCall`, `StaleExprNamesNothing`,
  `OkIsDispatched`.
- `BuildStageProofs`: `TypeOK`, `FlagsNeverMixed`, `ArchiveOfStage`,
  `MissesOnlyEditsInCopy`.

The type invariants, `LiveCoversTeardown`, `WritesNeverCancelled` and
`OkIsDispatched` are proved and not run as well.

The only assumptions are the `ASSUME`s of the modules: the stand-ins for "none"
are not members, bounds are naturals, heap and places are finite, and, for
queries, tables are rectangular, the expressions in hand are trees within the
height, and a builder's filters leave room for the fold.

*Runtime.* None of the properties is inductive: each needs to know which thread
accounts for which global. `IInv` says that one thread is in a scope and `live`
says whether any is (`Exclusion`), that thread-locals follow the step of their
thread (`PerThread`), and that the core's pointers are up only while some
thread is at a step that accounts for them (`CoreInScope`, `LoopInScope`). The
refinement maps `holder` to the thread in a scope; `Exclusion` makes the choice
unique.

*IpcGuard.* `IInv` is the conjunction of `Tenure` (handle, `INSTALLED` and
watcher go together), `Stack` (only the outermost guard call registers, and the
mutex holds a request exactly while that call is on the stack), `Request` (whose
it is), `Flags` (flags are up only for the registered request; the lock is held
only over a request not yet stopped) and `World`. The heart of it is that
`FinishTake` needs the lock: between the watcher's decision and its interrupt
the request cannot be finished, and after the interrupt `finish` takes the mark
with the request and clears the flag. `Truth`, on top of it, keeps the reason
given for a stop true as long as the request lasts, which gives
`VerdictsJustified`. `EveryRequestEndsOnce` is preserved step by step under
`IInv`. The refinement adds that each step of a server is a step of
`RequestLog` or leaves its log as it was.

*Values.* A count is a sum over the places a reference can be (Values, boxes,
the environment, arguments, what is being released), and each operation is
shown to change count and sum alike (`CountsFollow`): a fresh block (`Made`,
`Replaced`), a reference borrowed from the core (`Borrowed`), one that only
changes hands (`HandedOver`). Nothing refers to a free block then, which is
`NoDanglingValue`. `NothingLeaks` needs that boxes do not go round, and
`Founded` says so without paths: in any set of objects there is one that no
object of the set holds. It is kept because a box that changes is fresh or in
no box, as it has one reference and a handle has that. So has what a mutator
writes in place (`StepEffect`, `SoleReference`), and nobody else sees it
(`SeenThrough`), which is `ChangesStayPrivate`. `Shapes` says what a dict and a
view hold.

*Bindings.* `IInv` adds to the types what makes a generated name fresh: every one
that is bound, or held by an expression, is below the counter of its thread
(`Counted`), while the environment is empty between runtimes (`Defined`). So
`bind` takes a name that no `Fn` and no expression of the thread has, and the
names there are go on resolving as they did (`FnsResolve`, `ExprsResolve`); only
the program can change what one of its own names stands for, at a later date
than that of the `Fn`.

*Selectors.* The properties look at slots, and what makes them true is who was
given what: connections are opened in order and a handle is of its connection's
kind (`Numbering`), a connection is in one slot at most, the one its handle
names (`Placement`), tokens are below the counter and of one Subscription each,
and a connected one has its address and its claim (`Claims`), a client told of
every loss still has its connection or is in the exchange that is losing it
(`Told`, `Underway`). A live Subscription finds in its slot its own connection
or none of a Subscription's (`AliveReaches`), because two claims on a slot
cannot have one token. The actions fall into families: whoever registers a
connection (`Registered`), frees a slot (`Freed`), drops a handle (`Dropped`),
reaches through one (`Reached`) or comes back from an exchange (`Returned`).

*TimedSend.* The only request whose answer can be on a connection still held is
the one awaited (`OnlyTheAwaited`): asynchronous messages make none, and an
exchange given up takes its connection with it. `NeverEarly` needs that the sum
of clock and cap stays in range (`DeadlineKept`), which is what the cap is for.

*Sentinels.* With the flag down, a cell that holds a sentinel was written late
(`Accounted`), in the vector and in what a view has of its own; a view lies
within what it looks at (`ViewInRange`). For the chrono types a boxed value is
the saturated one (`BoxedAsMeant`), and saturation stops short of the null.

*BuildStage.* The invariant says what dates, stamp, mirror, objects and archive
say of each other at every step, since a run may be killed at any: objects are
of the stamp, and gone by the time it is written (`Stamped`); an object no
older than a copy was compiled from it (`Compilings`), as a run finds only
older ones (`Dated`); an archive no older than an object holds it, and has the
files of the version in the stamp (`Archived`), which a bump always changes;
the mirror has what the core has from the pruning on (`Mirrored`); a copy
differs from its source only by an edit since it was read (`Copied`).

*Query.* The functions of the code follow the recursion of trees, and the
library's induction theorems take an operator, which the provers cannot
instantiate. So induction is built from what they can use. `NatSets` draws
induction over the naturals, for a set, from the pigeonhole principle;
`Height` is the least level a tree is on; from the two follow `Climbing`, which
is induction over the height of a tree, and `Recursion`, that a recursion which
only looks at what is lower defines a function. Every recursive function of
`Expr`, `QueryCore` and `Query` is shown to exist with it, and so to obey its
equation.

`RewriteAgrees` is then an induction over expressions: where a sum or a count
stands over a filter, adding up what an `if` lets through is adding up what the
filter keeps (`MaskedSum`, itself an induction over the cells), and everything
else is rewritten part by part. It has two halves, because the rewritten
expression may answer where the written one is refused: they agree if both
answer, and the rewritten one does answer when all filters are masks. What it
needs besides is that over columns of n cells the query path gives scalars and
vectors of n cells only (`Fits`). `FiltersFold` is an induction over the filters.
With these the mask of the dict is the set of rows that pass every filter, the
projections and keys are worth what they were as written, over the whole table
as over the rows of a group, and the answer of the core is the same
(`SameAnswer`). A summary of aggregates without keys is one row, sorted or not,
so the final `take` changes nothing (`SummaryIsOneRow`).

All of that is about a builder's fields; `IInv` says that these are what the
calls say, the filters all of them, the order the last, and that the last
answer is what execute makes of them. It is needed because `wheres` is a
sequence while a program says a set of conditions, and the fold takes each of
them once.

The modules with proofs declare no recursive operator: recursion is by
recursive functions.

*What liveness rests on.* The provers handle neither fairness nor `ENABLED`, so
the six liveness properties (`LiveIsGivenBack`, `BudgetEnforced`,
`CleanHangupStops`, `DropReturns`, `LockIsGranted`, `ExchangesEnd`) are
model-checked only. Of four of them the part that is safety is proved. A server
that is held has its watcher on its rounds, told to stop exactly when the drop
is joining it (`WatcherStaysAtWork`, for `DropReturns`). A request that is due to
be stopped stays due until it ends (`DueStopsAreLasting`), and one that has been
stopped keeps the core's interrupt until then (`StoppedStayInterrupted`), for
`BudgetEnforced` and `CleanHangupStops`. By the time its timeout and the
millisecond the clock is coarse are over, an exchange may expire
(`NoTimeoutIsLate`, for `ExchangesEnd`). What is left to TLC is that a step which
may be taken is taken.

## Findings

1. `escaped_poll`: `check_current` asks whether the thread owns *a* runtime. A
   `Poll` kept past its scope passes again in the next one and follows a
   pointer to a loop that is gone, where `poll.rs:48-51` calls it inert.
2. `guard_hangup`: the peek sees the end of a stream only at its head. A client
   that sends a second request and closes leaves the first running for ever,
   where `serve.rs:18-19` and `160-162` say a client that leaves ends it.

Noticed while modelling, with no run of their own:

- *Handles.* `TcpClient::connect` takes slots without a token, so a lost
  `Subscription` can pass for the client in its slot, where `q.rs:140-144` says
  slot, address and token identify every connection of the crate; and a
  `TcpClient` learns of a loss only from an exchange of its own, where
  `CHANGELOG.md:360-361` says one whose connection is closed no longer reaches
  the next. `SubscriptionsNeverCross` and `ToldClientsNeverCross` say exactly
  what is left.
- *set_null.* Under the heading of copy-on-write mutation (`vector.rs:351`), it
  calls a function that returns no pointer, and so writes where the cells are
  shared; `ChangesStayPrivate` excepts it. This rests on the shape of the call.
- *Nulls.* `set` and `push` of a null leave the flag down, so `is_null_at` may
  miss it while `Option` reads it; a typed read of a null cell returns the
  sentinel as data. A `DateTime` at exactly the least nanosecond becomes the
  null, where `convert.rs` says the null sentinel is avoided; a time of day in a
  leap second cannot be read back.
- *Queries.* `count` of a filter drops what is counted and counts the mask, so a
  select may answer where the same expression evaluated alone is refused. A
  projection named `by`, `from` or `where` becomes that clause.
  `is_aggregation` knows nothing of `Deviation`.
- *Handlers.* `bind_obj` gives an error object to `ray_release` (`env.rs:154`),
  which `error.rs:86` says does nothing.
- *Build.* A source edited within the copy of its staging, at its old size, is
  never staged again (`build.rs:346`; `MissesOnlyEditsInCopy` says it is the
  only such case). In a `RAYFORCE_SRC` checkout, objects the user makes by hand
  with other flags pass for those of the stamp.
- *Names.* `Fn::from_global` then `apply` follows a later definition of the
  name while `call` does not (`lambda.rs:126-128`; `ApplyAgreesWithCall` says it
  is the only such case).

## Assumptions and what is left out

- Connections end in an orderly close; resets are not modelled. A cancel is
  the client's own frame, outside the stream it cancels in.
- The core frees, closes and retains as the comments of the bindings say. A
  bound handler's reply and arguments are the core's to release.
- Compiling a file is one step, and make leaves no half-written object behind;
  a new pin changes the version with the files (`build.rs:21-41`). A file that
  is there can be removed: `build.rs` ignores the error if not. Several
  builds do not share one `OUT_DIR`; cargo's lock sees to that.
- What the core makes of a query is read from the builders, their tests and
  guide (`QueryCore`); column names are unique, and no projection is named as a
  clause.
- The core's clock stays in the lower half of its range
  (`TimedSendAssumption`), some hundred million years.
- A new runtime starts with an empty environment. Names of the form
  `__rustfn_*` are not defined by the program.
- `mem::forget` of an `IpcServer`, a panic in a custom `Clock`, and a `Value`
  kept past its scope are misuses the code does not claim to survive.

Not modelled, and why:

- The text of errors, values and requests, the crate root, the generated FFI
  crate: no state and no control of their own.
- The C core: not in the sources.
- The Q wire's encoding (`q.rs`): a codec that calls one C function each way;
  the properties above hold whatever the bytes.
- Typed copies of vectors, which read cells. CSV and splayed tables on disk:
  one core call each, whose result is fresh, or an error that leaves nothing.
  What `Values` would see of a read is a table of new columns, which `NewVec`,
  `TableNew` and `Drop` make.
- `insert`, `upsert` and joins (`query.rs`): they hand their arguments to the
  core as they are, so their meaning is the core's.
- `set` and `push` on a view in `Sentinels` (a copy is made, which `Values`
  has); floats, whose null is a NaN, stand under `i64`.
- The in-place build of a `RAYFORCE_SRC` checkout, which is the model without
  its staging; bindgen, libclang, the fetch of submodules: external tools.
- Docs, examples, benchmarks and scripts.

## Plan

The order was: the core (scopes, guard, handles), what everything else stands
on (values), names and the build, then queries, exchanges in time and nulls,
and proofs of each. What is left, in order:

1. A composition of `Runtime` with `IpcGuard`, in which the scope ends while a
   server is held, and of `Selectors` with `TimedSend`.
2. The in-place build beside the staged one; failed removals.
