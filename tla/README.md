# TLA+ models of duckbug-go

Specifications of the DuckBug SDK for Go, the TLC configurations that check
them on small instances, and proofs, checked by TLAPS, of their main safety
properties for every value of the constants. Line numbers are those of the
sources beside this directory.

## The system

`Duck` (core) turns errors, logs and transactions into payloads and hands each
to its providers. Bridges feed it: the net/http middleware, the gRPC
interceptors and the slog, zap and zerolog adapters. The first-party provider
queues and batches payloads, and its HTTP transport posts them to an ingest API.

| component | state | operations | talks to |
|---|---|---|---|
| `providers/duckbug/provider.go` | channel `queue`, wait group `pending`, map `buffers` under `mu`, counter `dropped` | `CaptureEvent`, `Flush`, the loop `run`, `flushType`, `wait` | callers' goroutines, its own worker and ticker, the transport, the failure handler |
| `providers/duckbug/http_transport.go` | none between calls; the retry loop of one | `Send`, `SendBatch` | ingest, through whatever edge is in front of it |
| `integrations/nethttp` | a `responseWriterTracker` per request | reading the request body, the hooks of the response writer, the closure of `Middleware`, its deferred function | handler, `net/http`, `Duck` |
| `integrations/grpc` | per call | unary and stream interceptors | handler, `Duck` |
| `integrations/slog`, `zap`, `zerolog` | attributes and groups of a logger | `Enabled`, `Handle`, `Check`, `Write`, `WriteLevel`, `WithAttrs`, `WithGroup` | the wrapped logger, `Duck`, and the standard logger when the bridge is its output |
| `core/duck.go` | provider list under a lock, scope | `Quack*`, `Log*`, `CaptureTransaction*`, `Flush` | scope, pond, providers |
| `core/scope.go` | tags, breadcrumbs, user, extra ... under a lock | setters, `snapshot` | `Duck` |
| `core/transaction.go` | a transaction and its spans, no lock | `StartChild`, `Finish`, setters, the payload | the application's goroutines, `Duck` |
| `pond` | limits and sensitive keys | `Ripple`, sanitising | request contexts |
| `duckbug.go`, `preset.go`, `internal/sdkrequest` | none | constructors, the marker of the SDK's own requests | |

What is hard in it, and for which the properties are meant, is listed at its
line under `hazards` in `PROJECT.json`: the orders of callers, worker, ticker
and flushers; a queue at its limit; a wait group reused while a wait is under
way; answers lost and requests that arrive late; a response that is committed,
hijacked or abandoned by a panic at any point; spans that are finished while
they are reported; a report of the SDK that comes back to it as an event.

Correctness, per component:

- provider: an accepted event is in one place until it is delivered, failed or
  dropped, and goes only forward; with the worker, events of one type keep their
  order; only a full queue drops, and only what it has not taken; a `Flush`
  leaves nothing captured before it in the queue or the buffers; batches are of
  one type and bounded; nothing waits for ever.
- transport: no sequence of attempts stores an event twice; success means
  stored; an attempt is repeated exactly while the outcome is transient.
- nethttp: the observer knows the response; the middleware does not touch one
  that is not its own; failures are reported once and with the client's status;
  the handler reads the body of its request although the middleware has.
- grpc: the handler's answer stands; failures are reported once and with the
  code of the error handed on, which is the caller's but for one kind of error.
- scope, transactions: a snapshot is of one moment; a finished span is reported
  as it was finished, with a duration that fits its end and is never negative.
- pond and the payload functions: what is sensitive is masked at any depth.
- logging bridges: a call of a logger returns, and waits for no network; no
  goroutine waits for a lock it holds.

## Modules

| module | what it is |
|---|---|
| `EventLedger` | what the provider promises, with every queue, buffer and goroutine hidden: the fate of each event |
| `Provider` | `provider.go`: one action per stretch of a goroutine between two points where another can intervene |
| `ProviderInv` | its inductive invariant, in named parts |
| `ProviderProofs` | theorems about it, and that it implements `EventLedger` |
| `MCProvider` | the event types of the instances |
| `PendingGroup`, `PendingGroupInv`, `PendingGroupProofs` | `p.pending` at the grain of `sync.WaitGroup`, with the panics `Provider` abstracts from |
| `WaitGroup` | the wait group as `Provider` takes it: Add, Done and the return of a Wait a step each |
| `LogBridge`, `LogBridgeInv`, `LogBridgeProofs`, `MCLogBridge` | `integrations/slog`, `zap` and `zerolog` with the provider and the standard logger: who waits for whom |
| `Delivery` | what the transport promises the provider, with attempts, answers and retries hidden: rows at ingest, one verdict per call |
| `HTTPTransport`, `HTTPTransportInv`, `HTTPTransportProofs`, `MCHTTPTransport` | `http_transport.go` against an ingest and an edge that lose, delay and refuse |
| `HTTPMiddleware`, `HTTPMiddlewareInv`, `HTTPMiddlewareProofs` | one request through `integrations/nethttp` |
| `GRPCInterceptor`, `GRPCInterceptorInv`, `GRPCInterceptorProofs` | one call through `integrations/grpc`, unary or stream |
| `Transaction`, `TransactionInv`, `TransactionProofs`, `MCTransaction` | `core/transaction.go` and the payload made of it, while spans are in use |
| `Duck`, `DuckInv`, `DuckProofs`, `MCDuck` | captures from scope to queue: `core/duck.go`, `core/scope.go`, the sanitizer of `pond`, `preparePayload` |

### Provider

`pc[g]` is the place of goroutine `g`; `cur[g]` the event it captures; `todo[g]`
the `flushType` calls it has still to make; `sending[g]` the items of the
transport call it is in. Callers run `CaptureEvent`, flushers `Flush`, the
worker `run`. The two transport calls of `capturePrepared` and `flushType` are
the step into label `send` and `TransportReturns`, which is also
`handleTransportResult`; any call may fail. A critical section of `p.mu` is one
step. `outcome` and `before` are history: what the failure handler learns, and
for each `Flush` the events whose `CaptureEvent` had returned when it began.
`async` is `Config.Async`, chosen from `Modes` when the provider is made: with
it callers enqueue and the worker sends, without it there is neither queue nor
worker nor ticker and the callers run the send path themselves.

The detailed specification implements `EventLedger` (`ImplementsLedger`, with
the ledger's `limit` refined by `MaxBatch`): each request settles, as a whole, a
batch of one type, no larger than `BatchSize - 1` plus the goroutines that
append (the worker alone, or all callers), and transactions one at a time. The
ledger hides every buffer and goroutine but not the channel, on which the fate of
an event depends: with a worker an accepted event is `offered` to it once
(refined by the events at the select of `enqueue`), and either enters it, which
needs room, or is dropped, which needs it full. A provider that dropped with room
left, without the worker, or what the channel had once taken would not refine it.

Two action properties say how events move. `EventsOnlyAdvance`: what has left
the caller, the channel, the worker or a buffer does not come back to it, and a
fate stands. `KeepsOrder`: with the worker, of two events of one type that the
channel took in this order (`InOrder`), the later comes into a request only when
the earlier has been in one, or is ahead of it in the same. It says nothing of
the order in which two concurrent requests arrive, which the code leaves open,
nor of a provider without the worker, where two callers may pass each other.

`Provider` takes Add, Done and Wait of the wait group as atomic. `PendingGroup`
does not: a Done that reaches zero releases the waiters in a second step, and a
released waiter looks at the group again; a drop is the failed send of `enqueue`
(`Overflows`) and its Done (`Drops`). `NoLostWakeup` counts the parked goroutines
against the state word and the semaphore. When no capture begins once a `Flush`
has (`ShutdownSpec`), all this implements `WaitGroup`, whose steps are those of
`Provider` (`ImplementsWaitGroup`); `pending_overlap` shows what happens
otherwise.

### HTTPTransport

Each sender is one call of `Send` or `SendBatch`. `wire` is the set of requests
on their way: a request the client has given up may still arrive. Ingest is
external and does what the comments in `provider.go:357` and
`http_transport.go:155` say of it: it refuses an id that is not a uuid, keeps
rows unique by id, mints an id for an event without one, and may answer 409 when
it has everything. Two things are assumed of it (`Ingests`) that nothing in the
repository shows: it stores a batch as a whole, and answers a batch with 409 only
when it holds all of it; `README.md:157` says so of a single event. The code
relies on both. Any 409 is a success (`http_transport.go:139`), and the items that
a 2xx may list, with a status for each, are parsed (`http_transport.go:143-150`)
into `TransportResult.Items`, which nothing in the repository reads, so that a 2xx
is a success of the whole batch. The items are left out of the model for that
reason, and `NoFalseSuccess` and `ImplementsDelivery` hold under these
assumptions. The edge may answer 408, 500 or 503 after ingest stored the
events. The context of some senders may end at any moment. Durations are left
out; a timeout is a step that may always happen.

All of it implements `Delivery` (`ImplementsDelivery`): events that can be
encoded get their rows, one each and together; the one verdict on a call is a
success only when its rows are there. `CallsWindDown` is a ranking:
`Remaining(s)` falls with every step of the sender and never rises.

### HTTPMiddleware

`status`, `sent`, `taken` are the response as `net/http` keeps it (external);
`statusCode` ... `truncated` are the fields of `responseWriterTracker`. The
handler uses any sequence of hooks, then returns or panics. `stage` is the place
in the closure and its deferred function. A capture may panic in user code
(`HookMayPanic`), which unwinds into the deferred function, or out of it; the
reporting properties say what is reported of such a request too: the panic of
the capture, no incident twice, and as the last thing a transaction with the
status the client got. A status of 0 is not measured, so that the 200 of an
earlier capture, one that panicked, stays in the transaction (`Measured`). Bytes
are numbered in the order the response takes them, so that "the snippet is a
prefix" can be said.

Before the handler runs, `BuildsContext` is `bodyParams`: with `ReadBody`, and a
declared length within the limit, it reads the body and puts what it read back.
`request` is what the client sends, which may break off; `rest` is what `r.Body`
still has, `got` what the handler has read, `params` what the middleware has.
The handler reads before it writes, as net/http asks; what it reads does not
depend on anything later, so the model loses no order that matters.

### GRPCInterceptor

The closure and its deferred function, from the handler's answer on. `err` is
what the handler returned, `code` what the interceptor reads in it, `outcome`
what the server gets, an error or a panic, `reports` what a provider received and `hookPanics` how many captures panicked in user code. As
in `HTTPMiddleware` such a panic unwinds into the deferred function, and from
there out of it; another provider may already have the event. A call whose one
panic the deferred function has dealt with is `Recovered`, and is reported like
one whose handler panicked. The two
interceptors differ in how the handler is called and in a label, and are one
specification. `ShouldCapture` is any set of codes.

The error is read twice, and not alike. The interceptor calls `status.Code`
(`StatusCode`), for which an error without a status is Unknown. The gRPC server
(external) looks for a status too, but turns the error of a context into Canceled
or DeadlineExceeded (`ServedCode`). `ReportedCodeIsAnswered` speaks of both: a
report has the code that `status.Code` reads in the error handed on; this is the
code the server answers with exactly if the error is not the bare one of a
context; and a transaction is "ok" exactly if the call was.

### LogBridge

A goroutine is in a logger's call, in the provider, or in `log.Printf`; `pc` is
what it does next. The standard logger is external: `Printf` holds `outMu` while
it writes. The application may have made the bridge its output
(`slog.SetDefault`, `zap.RedirectStdLog`, `log.SetOutput`), so that a printed
line is a record on the same goroutine, nested in what it was doing (`resume`).
The provider is `Provider` reduced to where a goroutine may wait or print: a
queue of so many payloads, a transport call, and the two places where a failure
or a drop goes to the failure handler (`quiet`) or to `log.Printf` (`Reports`).
A `config` is one bridge with its threshold, the level of the wrapped logger,
the failure handler and `Config.Async`. The levels are ranks. zerolog differs
in what it knows of the level: an event that names none counts as Debug, one
that names an unknown level as `NoLevel`, above every threshold. A line printed
through a `zerolog.Logger` is an event without a level; a `Writer` that is the
output itself gets the bare line, which `decodePayload` refuses, and only passes
it on. `PrintHandled` has both.

The properties hold as far as the reports leave the provider (`ReportsLeave`): a
failure handler takes them, or the threshold is above the level of a printed
line, as it is by default. `log_feedback` shows the rest. `CallsWindDown` ranks
the labels (`StepsToGo`): each step of a goroutine brings its call nearer to its
end, what it prints and captures on the way included.

### Transaction

The owner starts the spans, finishes the transaction and captures; every span
belongs to a goroutine that may call `SetData` and `Finish` at any moment, also
while the owner reads the span. There is no lock, so `Finish` is split where a
reader can see the difference (`FinishBegins`, `FinishSetsStatus`,
`FinishSetsEnd`), a status being written may be `Torn`, and `Span.payload` is
split between the end and the rest (`ReadsEnd`, `ReadsRest`). `data[o]` says
whose map a field refers to, the application's or a copy of its own; `own` and
`app` are the contents, since the application goes on writing to its map.
`raced` is history: the spans in use since the capture began. Times are
milliseconds of a clock that may step back, or what the caller passes. The
transaction's own part is one step: it is its owner's alone.

### Duck

A capture is three kinds of step: it snapshots the scope and builds an event
(`Builds`), copies the list of providers (`ListsProviders`), and is offered to
each (`CaptureEvent`: the copy, `applyPrivacy`, `beforeSend`, the event id, and
the payload in the queue). Between any two, other goroutines set the trace,
`extra` and breadcrumbs, register a provider, or capture.

A payload is a set of sections. What matters about the value of a section is
its `Shape`, the static types of the containers on the way to a sensitive field
in it, because `sanitizeValue` and `cloneMap` each descend into some types only
(`SanitizeReaches`, `CloneReaches`). `cell[o][g][s]` is the content of a value
and `o` who made it, the core or a provider; `queued[p][g][s]` is whose value
`p`'s payload refers to. So a value that `cloneMap` does not copy is one cell in
several queues, and a `beforeSend` that changes it in place (`HookWrites`)
changes all of them. `touched` and `known` are history.

One section stands for those the code treats alike: `url` for what the request
option alone excludes, `headers` for what has an option of its own, `env`,
`extra` and `breadcrumbs` for the scope. Left out: tags, stack traces, details,
single strings, times, and the empty payload of `stripNilValues`.
`CaptureEvent` ends where `Provider` begins, with a payload for the queue.

## Runs

| run | instance | shows |
|---|---|---|
| `provider` | 2 callers, a flusher with a deadline, two errors and a transaction, queue 1, batch 2, with and without the worker, fairness | places, counts, order, the ledger; every event is settled, `Flush` comes back |
| `provider_flush_settles` | 1 event | **violated**: `Flush` returns while a batch taken by the ticker is in flight |
| `pending_overlap` | 2 callers, 1 waiter, queue 1 | **violated**: the wait group panics |
| `pending_shutdown` | 3 callers, 2 waiters, queue 1 | the atomic group and no panic, a barrier, no lost wakeup, and progress, when captures end before the first flush |
| `http_transport` | 3 senders, 4 events with an id of each kind and one that cannot be encoded, one retry | the transport's properties, and that it implements `Delivery` |
| `http_middleware` | statuses 101, 103, 204, 404, 503; limit 2, 4 bytes of a response; 3 bytes of a request, of which 2 may be read | the middleware's properties, also when a capture panics |
| `duck_capture` | an error in a request, a transaction; two providers of different options, one with a `beforeSend`, and one that registers late | the properties of captures |
| `duck_masking` | the same | **violated**: a field inside a breadcrumb is not masked |
| `log_bridge` | 2 callers and the worker, queue 1, every bridge, with and without the worker, thresholds below, at and above a printed line's level | the bridges' properties |
| `log_feedback` | the same with slog at Info and no failure handler | **violated**: a caller waits for the mutex it holds |
| `transaction` | 2 spans, 2 contents, two times, any order of calls and reads | the properties of transactions |
| `grpc_interceptor` | errors of the codes OK, NotFound, Unknown, Internal and those of a context; every option; hooks that panic | the interceptor's properties, also when captures panic, and where the reported code is not the caller's |

Bounds. A queue of one is full after one event, so that drops meet the worker,
the ticker and the flusher; a batch of two is the least that buffers; two
events of one type fill it, and one stays partial. The ticker takes what the
flusher would find, so one flusher meets what a second would do to it; that its
safety holds for any number of them is proved. One retry is enough for a first
attempt
to arrive after the second, and two calls share an event. Of the statuses, one
stands for each class the code distinguishes (final 1xx, informational, no
body, 4xx, 5xx); a limit of two bytes is met exactly, passed in one write and
passed in a later one. The codes of `grpc_interceptor` are one of each result
of `transactionStatusFromCode`, and one more. `MCShape` has a string, a map, a
list of lists (which the sanitizer reaches and `cloneMap` does not) and the
`[]map[string]any` of breadcrumbs (which neither does). `Edited` bounds which
sections a `beforeSend` changes to one of each way of being present: always,
copied, excluded, shared. Two captures and one trace besides none suffice for
half a trace and for what one event's hook could do to another's. Three bytes of
a request are one more than may be read, and a body of two can break off at its
beginning or in the middle. In `log_bridge` a queue of one is full after one
record, and two callers suffice for one to hold the mutex of the standard logger
while the other asks for it. In `transaction` two times are before, at and after
the start, two contents tell a map from its later self, and two spans have one
read while the other is being finished. The bounds are constants of the
instances; what they bound that the code leaves open is the length of a response
(`MaxSent`) and of a request (`MaxRequest`), the clock (`MaxTime`), the sections
a hook changes (`Edited`), and, in the guard `Transaction!Free`, that the
goroutine of a span begins at most one call during one capture: a second one
could only do again what the first has done.

Fairness (`Provider!Fairness`). Every goroutine that can run does (weak
fairness); a transport call ends, because the client has a timeout; the
worker's `select` picks at random among its ready cases and the ticker keeps
firing, so that neither case is passed over for ever (strong fairness); a
parked `Flush` is woken by the Done that reaches zero (strong fairness). Nobody
has to call `CaptureEvent` or `Flush`. In `HTTPTransport` only the senders are
fair; ingest owes nothing. In `LogBridge` every call goes on (weak fairness) and
a mutex of Go is not withheld for ever from one who waits for it while it keeps
becoming free (strong fairness: it hands itself over to a starving waiter); the
worker and its ticker owe nothing, since a full queue drops. `http_middleware`,
`grpc_interceptor`, `duck_capture` and `transaction` state no liveness.

`CHECK_DEADLOCK FALSE` stands where the system may stop: all calls have
returned, the request is over, or the process has panicked.

## Proofs

For each of the eight modelled programs there is an inductive invariant, in a
module of its own (`...Inv`), and a proof module with one lemma per action. The
runs leave the invariant to the proof, which covers every instance; to see TLC
check it, add it to the `INVARIANTS` of the run. The assumptions are the named `ASSUME`s on the
constants, nothing else.

`ProviderProofs`: `IndInv` is type correctness plus `Control` (which label goes
with what in hand), `Agenda` (what is still to be flushed), `PendingCounts`,
`BatchBound`, `FlushBarrier`, and three facts about places: `BeforeIsPast`,
`Located` (an accepted event is somewhere) and `StillToTake`. The last is what
makes `FlushHandsOver` inductive: an event a `Flush` answers for is in a buffer
only if that buffer is still on its list, since later appends are by other
events. `PendingCounts` gives `FlushBarrier`: at zero the queue is empty and the
worker has nothing. Theorems: `Invariance`, `TypeCorrect`, `WaitGroupCounts`,
`FlushWaits`, `FlushLeavesNothing`, `RequestsAreBounded`.

Its second half is about the places of an event: `PlaceInvariance` says that an
accepted event has exactly one place and any other event none, step by step
(`OneMoves`: what moves one event leaves the others where they are), from which
`EventsAreInOnePlace` follows. `ProviderImplementsLedger` maps every step to one
of the ledger or to a stutter: the events of one request are different, since
each has one place, so their number is the length of the request (`LedgerCounts`),
which `RequestsAreBounded` bounds; they are of one type, since a buffer is; and
they are past the channel (`RequestedIsPast`). A drop is one of the ledger's
because what a caller has at the select is accepted and in nobody else's hands
(`AtSelect`), so that whoever leaves the select takes just its own event off the
offer (`LeavesSelect`), and no other step touches the offer (`OfferStays`).

The same invariant carries the two action properties. `EventsDoNotGoBack` looks
at each action once (`AdvancesFrom`: a step advances the events when whatever it
takes from a place is in a later one after it). `OrderIsKept` adds that only the
step that moves the later of two events could put it in front: `WorkerReceives`
finds nobody else with an event in hand, `Buffers` finds in the buffer only what
the worker had before, `TakesBatch` takes all of it in its order, and
`NothingIsOvertaken`: an event that is not buffered finds none of its type in
the buffers, because a transaction has no buffer and at a batch size of one
`BatchBound` leaves them empty.

`PendingGroupProofs`: under `ShutdownSpec` the counter is the number of events
between Add and Done (`Counts`), and once it is at zero with a waiter to release
it stays there, because no capture begins any more (`Drained`). So neither panic
of `sync.WaitGroup` can come (`ShutdownNeverPanics`), and a Wait that comes back
has waited for all (`ShutdownWaitsForAll`). `Wakeups` adds that the goroutines
parked in Wait are those of the state word and of the semaphore, and that while
the state word has any, the counter is above zero or somebody is about to
release them; `Counts` then finds the goroutine that owes the Done
(`ShutdownLosesNoWakeup`). `ShutdownIsAtomic` is the
refinement of `WaitGroup`: the second half of a Done and a Wait that parks are
stutters, a wakeup is the return, at zero by `Drained`, and a Done has an Add
before it by `Counts`. This is what justifies the atomic wait group of
`Provider`.

`HTTPTransportProofs`: `TransportInv` adds `Honest` (an answer of 201 or 409
under way is of stored events) and `Reasons` (why a call is at its place in the
loop). Theorems: `StoredOnce` (`RetriesAreIdempotent`), `NoFalseSuccess`
(`SuccessIsHonest`), `GivesUpWithReason`, `RetriesAreDue`, types. With `Encoded`
(what cannot be encoded is never on the wire) each step is one of `Delivery` or a
stutter: an arriving request stores its events at once, a call that returns a
success is `Honest`, every other return is a failure
(`TransportImplementsDelivery`). `CallsComeToAnEnd` proves `CallsWindDown` for
any number of retries: four steps an attempt.

`HTTPMiddlewareProofs`: `MiddlewareInv` says what the observer knows
(`ObservedIsSent`, `SnippetIsPrefix`), what only the server adds
(`ServerCompletes`), and what has been reported at each stage (`Told`);
`RequestInv` is for the body of the request. `Told` gives the reports exactly as
long as no capture has panicked; for any request `Chronicle` says that they come
in the order of the code, one of each kind (`Ascending`), that nothing is
reported before its stage (`SoFar`), that a panic is among them past the
deferred function's capture of it (`PanicListed`), and that after a capture that
panicked the last is a transaction with the final status (`TransactionLast`);
`ChronicleHolds`. Every property of the run is a theorem. `WriteStringCapturesAlike` shows that the two
places that cut the response body agree for any limit and length.

`GRPCInterceptorProofs`: `InterceptorInv` is `AnswerStands` with what each stage
implies of the hooks (`Progress`) and what has been reported (`Told`): while no
capture has panicked, the incident of the call and then its transaction. `CodeIsTheAnswer`
rests on two lemmas: the interceptor's reading of the error it hands on is the
code of its reports (`HandedOnIsRead`), and the two readings of an error agree but
for those of a context (`ReadIsServed`). When a capture has panicked, `Chronicle` is what is left, with parts as in `HTTPMiddlewareInv`
(`ChronicleHolds`). Every property of the run is a theorem.

`DuckProofs`: `DuckInvariant` adds to the properties that the scope never holds
half a trace (`Pairs`), who has been offered an event and who is still to be
(`Offers`: the list of a capture has no provider twice and none that has had
the event), and that, where `cloneMap` reaches, no queue refers to a value of the
core's and the core's values stay as they were built (`Separate`). The last is
why the options and hooks of one provider cannot show in what another sends.
`Effect` says what one call of `CaptureEvent` may change, whichever way its
`beforeSend` goes, so that the four ways are looked at once. Every property of
`duck_capture` is a theorem, for any number of captures and providers, any
options and any shapes.

`LogBridgeProofs`: the invariant (`Held`, `CapturesLeave`, `PrintsPass`) says who
can hold the mutex of the standard logger at which label: a goroutine that has it is inside `Printf`, and with the
worker it does not get from there to a transport call; one whose reports leave
the provider does not get from there to the mutex again. Theorems:
`TypeCorrect`, `LoggersStayOffTheNetwork`, `ReportsDoNotComeBack`, and
`CallsComeToAnEnd`: with who can be where under the mutex, every step that
a call takes is one down in `StepsToGo`.

`TransactionProofs`: the invariant (`Position`, `ListIsStarted`, `Faithful`)
relates the report so far to the list of spans, entry by entry, and says of every entry whose span has not been in use
since the capture began that it is as the span was left. Every property of the
run is a theorem, for any number of spans and any times.

Only model-checked: liveness (`EventuallySettled`, `FlushComesBack`,
`SendReturns`, `WaitComesBack`, `CallsReturn`), since fairness and ENABLED are
out of the prover's reach. What they need besides fairness is proved where it
can be said without: the rankings `CallsWindDown` of the transport and of the
bridges, `NoLostWakeup`, and `PendingCounts`, without which a `Flush` would wait
for a Done that nobody owes. Every other property of a passing run is a theorem.
`TypeCorrect` and the barrier and bound of the provider (`FlushWaits`,
`RequestsAreBounded`), `SuccessIsHonest`, `ShutdownNeverPanics` and the two
`ChronicleHolds` are proved of definitions that no passing run lists.

## Disagreements met

The four violation runs above; `findings` in `PROJECT.json` quotes the lines.

`interceptor.go:29` says that `ShouldCapture` decides on "an RPC that finished
with the given code". A handler that returns `ctx.Err()` as it is, because its
caller went away, finishes with Canceled for the caller; the interceptor reads
Unknown, asks `ShouldCapture` about that, and by default reports a fault of the
server. `ReportedCodeIsAnswered` states the difference.

README.md:239 also lists a "periodic background flush" among what the provider
supports. Without the worker there is none: `EventuallySettled` leaves out an
event `Parked` in the buffer of a provider that is not async, which waits there
for another capture of its type or a `Flush`.

## Not modelled

- What of the headers, addresses and URLs goes into a request context; which
  requests and methods are ignored; the wrapped stream of `integrations/grpc`.
- Stack traces, the names the sanitizer masks, durations and the backoff, the
  counter of dropped events, log wording.
- Tags, user and single strings of the scope. `setTags` takes the lock once per
  tag, so that a snapshot in between has some of them; nothing promises more.
- Attributes, fields and groups of derived loggers. `clone` copies the lists of
  the handler or core it derives from, so that no two share an array. The slog
  handler nests all attributes in all groups, those given before a group too;
  log/slog asks otherwise, but no document of the repository does. Nor does one
  say that a record the wrapped logger's level refuses is kept from it, which
  `Handle` passes on when the bridge's own level lets it through.
- The length of the backoff. It doubles without a cap, where
  `http_transport.go:171` speaks of a "bounded backoff": at the default delay
  the fifteenth retry waits for 27 minutes. (An overflow would come after waits
  of decades.) What a long wait does to the queue is in `Provider`.
- The order and the number of breadcrumbs: their time is taken before the lock,
  and the list of the process grows until `ClearBreadcrumbs`.
- `StartChild` called by two goroutines at once, and the getters of
  transactions and spans that only read a field.
- Values that refer to themselves: `normalizeValue` does not come back from one.
- The components marked `not_modelled` in `PROJECT.json`.

## Plan

Done: the provider with its ledger and its wait group, the transport, both
request integrations, the captures of `Duck`, the logging bridges, transactions.
Left:

1. The rest of the scope: tags, and what a snapshot between the calls of
   `setTags` and `ClearTags` can hold.
2. What a record is captured with: the attributes of derived loggers, and of
   slog those that are groups themselves, and how they merge.
