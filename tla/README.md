# typesafe-sdk-go in TLA+

typesafe-sdk-go is a Go client for the Typesafe "System One" API, with an
optional Adapter that answers the same calls from a language-model provider
inside the process. This directory models the parts of it that keep state, run
concurrently, wait, retry or parse, checks the models with TLC on small
instances, and proves the central results with TLAPS for every value of the
constants. Every action and helper is translated from the Go source;
`PROJECT.json` ("map") names the lines.

    tlc -workers 2 -config Gate.cfg MCGate        # one run
    tlapm GateProofs.tla                          # one set of proofs

## 1. The system

| Component | Source | State it keeps | Operations |
|---|---|---|---|
| cold-start gate | `internal/h2gate/transport.go` | cold / dialing / warm, the current generation (outcome, done channel, waiter count), a handover generation, counters | `RoundTrip`, `lead`, `leave`, `release`, `abandonLocked` |
| header-write token, FirstHold | `internal/h2gate/transport.go` | a channel of capacity one, per call: given, seen bits, hold timer; the list of unsettled connections | `send`, `waitToken`, the httptrace hooks, `giveBack`, `expireHold` |
| wait bound | `internal/h2gate/transport.go` | `stalled`, per call a timer and the waiting flag | `send`, `getConn`, `gotConn`, `expire` |
| dial bound, transport construction | `config.go`, `transport.go`, `internal/h2gate/config.go`, `errors.go` | per dial: two channels and a grace timer; per client the ALPN scope | `resolve`, `build`, `boundedDial`, `NewTransport`, `Wrap`, `alpnCheck`, `classify`, `transportError` |
| engine | `internal/engine/*` | per request a shield for hook panics; a cache of 16 proxy credentials | `RoundTrip`, `recover`, `done`, `Record`, `ReadBody`, redaction |
| pooled request body | `internal/codec/scratch.go` | one atomic word (generation, released, references), the buffer, the pool | `NewBody`, `Open`, `Read`, `Close`, `Release` |
| client call | `client.go`, `retry.go`, `transport.go`, `errors.go` | attempts so far, the budget's start, the context | `send`, `attempt`, `attemptError`, `retryable`, `delay`, `wait` |
| response decoder | `internal/codec/decode.go`, `visitor.go`, `commit.go`, `lazy.go`, `control.go` | a pooled visitor: stack, slot, current answer, answer set and its index | sonic's callbacks, `finish`, the second pass |
| adapter evaluation | `adapter/seam.go`, `evaluate.go`, `retry.go` | the Report, the conversation, the attempt log, the retry state | `serve`, `evaluate`, `runWithRetries`, `waitRetry`, `failureReply` |
| answer schema and conversion | `adapter/internal/schema/*`, `jsonx/tokens.go`, `state.go`, `prob/*`, `adapter/evaluate.go` | per call: the parsed questions and their schema, the reader's open levels | `ParseQuestions`, `Build`, `Validate`, `convert`, `Normalize`, `Rescale`, `Discrete`, confidences |
| adapter report and reply bodies | `adapter/report.go`, `seam.go`, `evaluate.go`, `llm/trace.go`, `jsonx/nodevalue.go` | per call: the provider's trace, the attempts, the usage | `RecordRequest`, `RecordResponse`, `run.request`, `run.finish`, `successBody`, `errorBody`, `MarshalJSON`, `UnmarshalJSON`, `ReportOf`, `ReportFromError` |
| adapter lifecycle | `adapter/adapter.go`, `client.go` | closed, running count, the closing cleanup, the provider cache and its order | `RoundTrip`, `provider`, `Close`, `closeOwned` |
| question sets and request bodies | `questions.go`, `content.go`, `body.go`, `internal/wire/json.go`, `prepared.go`, `internal/engine/body.go`, `falsy.go`, `internal/codec/encode.go` | per set: one buffer with spans into it, arenas of labels and levels, a key stack; the pooled scratch | `Noul`, `Choice`, `Score`, `Raw`, `Prepare`, `AppendJSON`, `EncodeBody` |
| typed decoding | `typed.go`, `decodeas.go`, `decodeas_store.go` | a process-wide map from types to plans | `planFor`, `buildPlan`, `Ask`, `DecodeAs` |
| body reading, responses as JSON | `internal/engine/read.go`, `internal/wire/payload.go`, `response.go` | one growing buffer; the response a caller holds | `ReadBody`, `grow`, `MarshalJSON`, `UnmarshalJSON` |
| options, accessors and text | `config.go`, `answers.go`, `errors.go`, `internal/engine/text.go`, ... | none shared | validation, formatting |

How they meet. `Client.send` builds one pooled body per call and runs attempts.
Each attempt opens a reader on that body and goes through the engine into
`h2gate.Transport.RoundTrip`, which gates it while the transport is cold, then
through `send`, which takes the token, into net/http's transport. That
transport calls back (GetConn, GotConn, WroteHeaders) from its own goroutines,
replays requests whose connection went away, and may still use the body's
reader after `RoundTrip` has returned. The response goes through the decoder.
Under an Adapter the attempt goes into `Adapter.RoundTrip` instead, which runs
the evaluation with retries of its own. `Close` of the client and of the Adapter
may come at any time. Before the call, `Prepare` turns a set of questions into
bytes that the set keeps, and `EncodeBody` joins them with the caller's extra
members in the pooled body; after it, `DecodeAs` stores the answers into a
caller's struct along the plan of its type.

What is hard: callbacks on foreign goroutines after a call returned, timers
whose callback runs late, a leader that fails or panics while others depend on
it, two nested retry loops under one deadline, a lock-free reference count with
plain stores in it, a one-pass decoder that must agree with a tree reading,
spans and tables cut from buffers that still grow, algorithms that change with
the number of names, plans built outside any lock, and a `Close` that races
calls and other `Close`s. The list is `hazards` in `PROJECT.json`, each with its
line and the properties that cover it.

## 2. Modules

| Module | Models | Checked by | Proved in |
|---|---|---|---|
| `SingleFlight` | what the gate promises: one dial in flight, waiters settled with it | (abstract) | |
| `Gate` | the cold-start gate | `MCGate` | `GateProofs` |
| `Token` | the header-write token and FirstHold | `MCToken` | `TokenProofs` |
| `WaitBound` | the bounded wait for a connection | `MCWaitBound` | `WaitBoundProofs` |
| `Connect` | configuration, transport construction, the dial, its hops and errors, hook panics, proxy credentials | `MCConnect` | `ConnectProofs` |
| `LeasedBody` | what a pooled body promises: one call and its readers at a time, operations that take effect at once | (abstract) | |
| `ScratchBody` | the pooled request body | `MCBodies` | `ScratchBodyProofs` |
| `RetryLoop` | one client call | `MCRetryLoop` | `ClientProofs` |
| `JSONText`, `Decoder` | token streams; the decoder | `MCBodies` | |
| `DecodeReference` | what a response means, read from the parsed tree | `MCBodies` | |
| `Payload` | a response written as JSON and read back; composes the payload writer with `Decoder` | `MCBodies` | |
| `ReadBody` | the growing buffer of a body read | `MCBodies` | `ClientProofs` |
| `JSONScan` | JSON text as the SDK checks, compacts and writes it: strings, numbers, values, Python's falsiness | `MCRequest` | |
| `Request` | question sets, `Prepare`, raw questions, request bodies with extra members | `MCRequest` | |
| `RequestReference` | what a set and a call's members mean, read from the values the caller gave | `MCRequest` | |
| `PlanCache` | the process-wide cache of plans and the goroutines that share it | `MCRequest` | `ClientProofs` |
| `Typed` | struct tags, plans of types, decoding into a struct; goes on where `PlanCache` has a plan | `MCRequest` | |
| `TypedReference` | what a tag, a type and a decode mean | `MCRequest` | |
| `Shutdown` | what closing an Adapter promises its callers | (abstract) | |
| `Lifecycle` | Adapter and client lifecycle | `MCLifecycle` | `LifecycleProofs` |
| `Evaluate` | one call answered by the Adapter | `MCEvaluate` | `EvaluateProofs` |
| `AnswerSchema` | the Adapter's questions, schema, output validation and conversion | `MCAnswerSchema` | |
| `AnswerReference` | what an output means, read from the parsed tree and the schema | `MCAnswerSchema` | |
| `AdapterReport` | the Report, the bodies of the Adapter's replies and the reader of the Report; composes `AnswerSchema` with `DecodeReference` | `MCAnswerSchema` | |

### Gate
One step is one critical section of `Transport.mu`, one `select`, or one event
of the environment. `pc` says where a request is in `RoundTrip`, `lead` or
`leave`; `lg` is the local variable `gen`. A waiter decides to leave in its
select (`SelectCtx`, `SelectBound`) and counts itself out later (`Leave`), as in
the code, and `abandonLocked` chooses between a handover and the cold state by
the count in between. `send` is an environment that may run the GotConn hook,
return or panic.

### Token and WaitBound
Both model `send` with net/http's transport as an external environment (marked
external in the map): it keeps at most one live HTTP/2 connection, hands
connections out, answers, fails, and replays. A request whose HTTP/2 connection
still takes streams is replayed on HTTP/2, because net/http asks its HTTP/2 pool
before it takes an idle HTTP/1.1 connection. `Token` keeps every goroutine that
may give a call's token back as a step of its own: `finish`, the GotConn hook, a
WroteHeaders hook that may run after `send` returned, and the hold timer, whose
firing (`HoldFires`) and callback (`HoldExpired`) are separate steps. `WaitBound`
reduces the token to who holds it and models the dial permit, a dial whose hook
blocks, and the bound's timer with firing, mark and cancel as separate steps.

### Connect
One client, chosen from `Clients`, is built and makes one call on a cold pool.
`BuildRefusal` is the order in which `resolve`, `build`, `resolveTarget`, `Wrap`
and `proxyMayApply` refuse. The call then runs over up to four hops (TCP, TLS
with an https proxy, CONNECT, TLS with the API host), which belong to net/http
and are external; what the SDK puts into them is not: the ALPN check and its
scope, the thin check of a caller's TLS dialer, the wrapped CONNECT refusal, the
response check, and `boundedDial`, whose goroutine, deadline, cancellation and
grace timer are steps of their own. A failed attempt leaves a set of marks
(proxyconnect, timeout, alert 120, ErrNotNegotiated) that `Classify` and
`TransportError` read; `culprit` remembers what really failed. A hook on the
dial's or the writer's goroutine may panic at any time, also after the call
returned; so may one that a WithRoundTripper runs, on any goroutine, before it
returns or panics itself (`BareReturns`, `Unwind`) or after. Other calls record
proxy userinfos meanwhile.

### ScratchBody
One scratch, its word a record of generation, released flag and count. Every
change through a handle is a load and a compare-and-swap, two steps. Handles of
all earlier generations stay in use. A buffer is named after the generation
that allocated it and `mem` says whose bytes it holds, so that
a read of another call's bytes shows. `LeasedBody` is the same without a word to load
and swap: an Open or a Release takes effect in one step, and `home` says who has the
memory.

### RetryLoop
Time is a counter that passes only where the code waits. The context's timer may run
before or after any other step of its instant. The error kinds are those of
`errors.go`, with the timeout and the connection failure that wrap a cancellation
apart; `AttemptError` is the decision order of `attemptError`.

### Decoder
A body is a tree and a tail (how the text ends); `JSONText` turns it into the
tokens sonic reports. `Decoder` has one action per callback, the cut traversal
and its fall-back, `finish` and the second pass, run by one pooled decoder over
body after body. `DecodeReference` says what the tree means without any
traversal state: last member wins, first position kept, the Python SDK's order
of failures.

### Payload and ReadBody
`Payload` keeps the response a call returned (`resp`), writes it member by member
as `payload.go` does, in the decoder's own alphabet of values, and hands it to the
same pooled decoder (`UnmarshalJSON`). `ReadBody` is the loop of `read.go`: `held`
and `room` are the buffer's length and capacity, the reader may hand over any
number of bytes that fit (none included) and ends or fails with its last ones.
A read, a decode and the request's scratch share no state, so a behaviour of
`MCBodies` follows one of the three.

### Request and Typed
Text is a sequence of symbols (a quote, a digit, a letter, a space, ...), so that
`JSONScan`'s scanner walks it as the code walks bytes. `Request` has one action per
call of the caller: the questions of a scene are added, `Prepare` checks them and
lays out the prepared set in one buffer (spans are pairs of positions, an arena's
table is a position and a length), the caller may then overwrite the memory it
passed in (`Scribble`), and `EncodeBody` writes a request from what the set kept.
`RequestReference` reads the scene's values themselves. `Typed` scans a struct tag
as `hiddenKey` and reflect do, builds the plan of a type and decodes a response
through it. The cache in between is `PlanCache`, which says nothing of what a plan
holds: Load, a build outside any lock, `sync.Map.LoadOrStore`, with several
goroutines that may each have built one. reflect's view of a type is a record of fields;
memory is a sequence of cells, so that a store past its field would show.

### Lifecycle
`mu`'s critical sections are steps; `cacheMu` is a variable because it is held
across a factory's work and across the sweep. A provider's Close may
succeed, fail or panic. `Shutdown` keeps who is inside, what is owned and what each
Close answered, and drops the locks, the count, the order and the cleanup that
closers share.

### Evaluate
`serve`'s checks, the corrective rounds and the retries nested in them, the
Report's counters, the log, and the reply. The provider's answer is one of
`Outcomes`.

### AnswerSchema
A call's questions, a JSON tree as the SDK wrote it, are parsed (`Ask`, with the
faults in `ParseQuestions`' order), a model answers (`Return`, one of the
outputs the instance lists), `extractJSON` finds the document in it, and the
token reader goes through it one token per step (`ReadToken`), with one frame
for each open object that a field is read from and a depth alone for everything
else, until the checker lists its faults or `convert` makes the answers. Numbers
are integers in units of 1/`Unit`, so sums, shares and means are exact and the
tolerance is a number of units. `AnswerReference` says what an output means
without any traversal state: `Meant` reads the tree, `Conforms` is an evaluator
of the JSON Schema subset that `RootNode` emits, `Shaped` is the SDK's own shape
of a question.

### AdapterReport
Goes on where `AnswerSchema` has a result. The requests made to the provider
(retried failures and the one that decides the call, each with the bodies it
recorded) become the Report's attempts, reasons and usage; `Replies`, `Fails` and
`RefusesQuestions` write the reply, `ReadsReport` is a caller that asks for the
Report of the response or of the error. A body of a provider is its text,
whether it is one JSON text, and its value: it is embedded as JSON only when
`embeddable` allows, so the writer and the reader must agree about `null`, about
text that is not UTF-8 and about depth. `ReplyDecodes` hands the written body to
`DecodeReference`, the meaning of a response to the SDK.

## 3. Runs

Where CHECK_DEADLOCK is FALSE, the system may stop: every call has returned.

| Run | Instance | Shows |
|---|---|---|
| `gate` | 3 requests | every interleaving of leaders, waiters, contexts, timers, errors and panics; includes the refinement of `SingleFlight` and that a parked request leaves, by its timer or by its leader's end |
| `token` | 2 requests, 2 HTTP/2 and 1 HTTP/1.1 connections, 2 replays (1 once HTTP/1.1 is used); 2 more requests that join after a replay; MaxUnsettled 1 | the token comes back once, no hold timer outlives its call, an unsettled connection has one token holder |
| `wait` | a hooked and an unhooked request, 1 replay each | bounded waits end, replayed ones included |
| `wait_blocked` | the same | expected violation (finding 1) |
| `connect` | every set of options, about 400 transports, 3 userinfos of which 2 are remembered, 2 hook panics | HTTP/2 is required of the API hop alone, no connection is lost, hook panics and credentials are accounted for, also where RoundTrip panics itself, a dial settles |
| `call` | 4 policies, 4 deadlines, 2 timeouts, 3 Retry-After values | no retry out of time, right blame, every call returns |
| `lifecycle` | 2 callers, 2 closers (one of the client), 2 providers, 2 attempts | no use after close, nothing closed twice or lost, the refinement of `Shutdown`, closes return |
| `bodies` | about 7,400 response bodies in 5 families; bodies of 0 to 20 bytes read in any pieces under 5 limits, with 10 declared lengths or none; one scratch with 2 readers, 1 releasing goroutine, 2 generations, counts to 2 | decode = meaning, also after an earlier body of the same pooled decoder; a response that decodes is read back from its own JSON; a read returns the whole body, its reader's error, or that it is too large; of the scratch no foreign bytes, the refinement of `LeasedBody` (operations take effect at once, the memory is reused only when nobody has a body in it), eventually recycled |
| `answers` | about 160 question sets, 2,500 outputs, both modes, 220 exchanges with the provider, Unit 1000, Tolerance 1 | the reader reports what the tree means, schema and validator agree, the reply follows from the output, no question outside its shape is asked; the SDK decodes every reply, and a caller reads back the Report of the call |
| `evaluate` | up to 2 defects, 3 policies, 2 deadlines, 0 or 1 corrections | Report, reply, termination |
| `request` | about 10,900 first states: scenes of questions, raw values, bodies and extra members; types with every tag and shape, decodes into them; races for a plan of 3 goroutines with 2 calls each for one type, and of 2 goroutines for two types | the prepared set and the sent body are what the caller's values mean, also after the caller reuses its memory; a refused plan or decode is refused for the first documented reason, an accepted one stores exactly its answers; all goroutines go on with one plan |
| `hidden` | the same | expected violation (finding 2) |

Why the bounds are enough. `gate`: three requests give a leader, a waiter that
leaves and one that stays, and a second generation; the theorems remove the bound
for safety. `token`: the token relates two requests at a time (the one that gives
back and the next holder); two replays reach a call that is marked twice; a
connection that is not settled needs a replayed call, the holder and two that queue,
so two late requests join once a replay has opened one (`StaysExplored`), and only
while no hold ended by its timer, of which `OneHolderUnsettled` says nothing; proved
without these bounds. `wait`: one request blocks the permit, one waits behind it.
`connect`: the options are enumerated completely, settings up to two at a time
(which of two is reported); the hops' outcomes are all the classification tells
apart; two panics are one kept and one not; three userinfos over a memory of two
overflow it; the safety properties are proved for every client, panic and limit.
`call`: two retries, budget and deadline each below, at and past the end of a wait;
proved for all policies. `lifecycle`: two closers are a sweep and one that joins or
follows it; two providers are one already swept and one that fails; proved for any
number. `bodies`: a generation of the scratch that is reused once shows every
confusion between two handles (proved for all); for the decoder `MaxNesting` 6
stands for 4096, `LinearSet` 1 for 8, `MaxSkipped` 1 for 8, so that every limit is
met; each family varies one part of the document over all it may hold, repeated
members up to three times. A read meets every edge when buffers of 8 and 4 (for 256
KiB and 4 KiB) and a growth of 2 (for 512) are compared with limits and sizes at,
just below and just above them. `request`: `RepeatScanLimit` 2 stands for 32 and
`LinearLimit` 2 for 8, so both algorithms on either side run; `MaxValueDepth` 2
stands for 1000, the depth of raw values, and `MaxDeref` 3 for 8 pointers; a scene
varies one argument over everything it may be (unset, empty, falsy, repeated,
malformed) beside valid ones; a struct tag has every text of up to four symbols, or
three with the tab, before or after a good pair. Three goroutines are one that
stores the plan, one that loses to it and one that finds it. `evaluate`: two retries
and one corrective round nest once in every way; proved for any policy and number of
rounds. `answers`: `MaxEnclosing` 4 and `MaxValueDepth` 3 stand for the limits on
unread containers; questions vary one member at a time over every kind of value;
outputs vary one answer over numbers at, just inside and just outside each bound,
names that repeat, that are missing, or that are the generated name of a field; a
thousandth is the tolerance, as a unit. `MaxEmbedDepth` 3 stands for 1000 and
`MaxNesting` 8 for 4096, in the same order to `MaxValueDepth` (the assumption
`ReportLimits`); exchanges vary one recorded body, one count or one failure at a
time, with one retried failure before any other.

Fairness. `Gate`: weak fairness of each request's own steps; nothing is assumed
of `send`: `LeavesEitherWay` assumes, where a bound is armed, only that its timer
fires, and otherwise only that a leader's send ends. `WaitBound`: a timer fires, its
callback runs, a request's own steps happen; a blocked hook need never return.
`Connect`: the connect timeout and the grace timer fire and the two selects of
`boundedDial` are taken; a dialer, a hook or a peer may block for good.
`ScratchBody`: a started operation goes on. `RetryLoop`, `Evaluate`: time
passes, an attempt ends, an expired context's timer runs, the goroutine goes on.
`Lifecycle`: strong fairness of a goroutine's steps, because steps wait for
`mu` and `cacheMu`, which sync.Mutex hands over without starvation; a factory
and a provider's Close return.

## 4. Proofs

`GateProofs` (any set of requests, finite for the waiter count). An orphan-free gate
is not inductive: that a parked request's generation has a leader needs that the
pending generation is the transport's newest, that exactly one request leads it,
that a handover generation is fresh and led by nobody, and that `done` is closed
exactly when the outcome is set. That conjunction is the invariant; `GateNoOrphan`,
`GateCloseOnce`, `GateOneLeader`, `GateStatsBalance` (the counters as `Stats`
documents them whenever no call runs, only proved) and `GateImplementsSingleFlight`
follow. `GateWaitersExact` adds that the counter is the cardinality of the parked or
leaving requests of the generation.

`ScratchBodyProofs` (any number of readers, releasing goroutines, generations).
The invariant says that the scratch has one owner at any time: the pool, NewBody,
the counted references, or the goroutine that took the count to zero; a loaded
word is only a guess, the compare-and-swap confirms it. `ReadsOwnBody`,
`ReadersKeepBody`, `PooledAlone`, `StoreLosesNothing` follow. For
`ScratchImplementsLease` that is not enough: an Open is refused, or a Release does
nothing, because of a word loaded earlier, where the abstract one looks at the body
as it is now. `PastLoads` adds that a loaded word is never ahead of the scratch's
own: its generation is no newer, and within one generation a word that was released
stays released and one without references stays so. A load maps to a stutter, a
compare-and-swap that succeeds to the abstract step.

`ClientProofs` has three parts. The call (any policies, deadlines, timeouts,
server waits, latencies). The invariant ties the phase of the call to what has
been decided: a call about to sleep has a retryable error, a wait within the
budget, and an end of the wait before the deadline. `RetryInTime`,
`BlamesContext`, `RetriesOnlyWhatMay` follow. `TimeInv` adds where the time
goes, for `WithinBudget`: a call with a budget takes at most one attempt more
than it.

The read (any limits, declared lengths, sizes and buffer constants from 1
on). `ReadsWhole` is not inductive: that a full buffer past the limit means a body
past the limit needs that the buffer holds only bytes of the body, and that no
Read goes without room (`RoomToRead`, only proved) needs that a growth always adds
some. The invariant `Buffered` adds that the capacity never equals a declared
length the body keeps to, so that such a body never costs a second buffer.

The plan cache (any goroutines, types and number of calls). That every call goes on
with one plan of its type needs that a goroutine which loaded or stored a plan has
the cached one, and that a plan it built is of the type it asked for. An entry is
never replaced, whoever lost the race (`PlansOnlyGrow`).

`WaitBoundProofs` (any requests, connections and replays) has the safety that the
bound's liveness rests on. `BoundArmed`: a bounded request that looks for a
connection always has its timer, the timer's callback or the end of its context
under way, also when the callback of an earlier wait runs late. `OneUnbounded`: at
most one request is in a first wait that nothing bounds, because it has the token.
`NothingLeft`: a returned request leaves no timer, wait or token.

`TokenProofs` (any requests, connections, replays and marks). That a call gives
the token back once is not enough for `TokenConserved`: a call that left the stock
transport must have given it, or never had it and have no hook and no timer that
could (`Calls`). `NoTimerLeft` needs that an armed timer of a returned call is one
its hook still looks at (`Timers`). For `OneHolderUnsettled`, as long as nothing is
loose, the live HTTP/2 connection that no response came over yet is `Guarded`: a
holder keeps the token for it, or a mark waits for the next holder and nobody
held it there. The attempt showed that the model had let a request whose HTTP/2
connection is alive be replayed on an idle HTTP/1.1 one, which gives its token
back early; with three requests and an HTTP/1.1 connection that breaks the
property, and the bounds of `token` do not reach it. `Handed` now excludes it, as
net/http does. It also showed that taking a mark removed every mark of the
connection, where `takeUnsettled` removes the first.

`LifecycleProofs` (any finite set of callers, any closers, providers and attempts).
The invariant says who may touch the cache: the calls that `running` counts
(`RunningAre`, a cardinality), one of which may hold `cacheMu`; or, once `closed` is
set and `running` has drained, the one closer that `closing` names. While it sweeps,
`owned` is what it kept and what it has not reached (`SweepAt`), which is what makes
`order` list the owned providers again when it unlocks. `UsesOwned`, `OwnedOnce` and
`CloseIsFinal` (no call runs once a Close returned, and nil means that nothing is
owned) follow. `LifecycleImplementsShutdown` maps each step to one of `Shutdown` or
to a stutter: a lookup that finds a provider and one that builds it both start a use,
a step of the sweep disposes of one provider or keeps it, a closer that joined an
earlier one answers with its result.

`EvaluateProofs` (any requests, policies, deadlines, corrections, latencies).
`ReportAccounts` is about a call that returned; the invariant says at each point of
the two nested loops how far the log, the reasons, the counters and the token total
lag behind the attempts: the log by the pending record, the reasons by the attempt
that nothing followed, the retries by those of the round, the total by an output not
looked at yet. `ReplyNamesCause` needs in addition what the last answer made of the
call (`Caused`) and that a defective request is answered first (`Served`). A call
whose provider panicked has no Report and is exempt. `Spent` bounds what a call may
cost. Retries and rounds multiply: at most `(corrections + 1) * (max + 1)` provider
requests (`BoundedRequests`). Each round starts the budget afresh, so a call with one
takes at most `corrections + 1` times the budget and a provider request
(`RoundsWithinBudget`).

`ConnectProofs` (any clients, userinfos, limits, number of panics) has one invariant
per question, each inductive. `Shield`: a panic is kept only until the call returns
and only where there are hooks; when RoundTrip itself panics, whether a caller's
proxy func or round tripper did, a kept one is logged. `Dialing`: `boundedDial`
waits exactly while the transport is in its dial, and its goroutine has the
connection only between the dialer's return and the offer. `Routed`, on top of
`Dialing`: a connection without h2 gets through the HTTP2Only checks only where a
proxy may apply and its hop has no name of its own. `Remembered`: behind the call's
userinfo stand only ones recorded since, so it goes only when a full memory of
others came.

Assumptions are the named ASSUMEs of the modules, evaluated in every run. Only
proved, since the runs spend their time on the other properties: type
correctness (`GateTypeOK`, `CallTypes`, `ScratchTypes`, `TokenTyped`,
`LifecycleTyped`, `EvaluateTyped`, `PlanCacheTyped`), `CloseOnce`,
`WaitersExact`, `StatsBalance`, `ReadersKeepBody`, `PooledAlone`, `RefsExact`,
`StoreLosesNothing`, `RoomToRead`, `CloseIsFinal`, `RetriesOnlyWhatMay`,
`WithinBudget`, `BoundedRequests`, `RoundsWithinBudget`, `PlansOnlyGrow`,
`BoundArmed`, `OneUnbounded` and `NothingLeft`.

Only model-checked: all liveness, which is out of the prover's reach; and the
decoder, its payloads, the answers, the Report, requests and the making of typed
plans, whose properties compare a traversal with a reference that is recursive over
trees. They would take an induction over data and recursive operators, and the
provers can do neither.

## 5. Findings

1. `wait_blocked`: whether waits are bounded is decided once, before the stock
   transport; a request sent before the stall and replayed behind a blocked hook
   waits without a bound, though the docs say every such call fails.

2. `hidden`: `PreparedFor` documents that it refuses every tag that names a decision
   key reflect would not see. `hiddenKey` looks for such a key at the start of what
   reflect did not read and after a space, so it misses one behind a tab, or behind
   the quote of a malformed pair: `decision:"kind=noul"`, a tab and `decision:...`
   asks by the first key. `PlansAsDocumented` counts the keys `hiddenKey` looks for,
   which is what holds; `HiddenKeysRefused` states the sentence as it stands.

Notes that are no findings. A bound's callback that was delayed until a replay's
next GetConn ends that later wait (`ExpiresOwnWait` in `WaitBound` states
otherwise); it needs a callback that is delayed past a whole attempt. A token
holder that is replayed from one marked connection onto another counts two
SettleHolds and one FirstHold, though `Stats` documents a SettleHold as a
FirstHold. Under HTTPAuto an API host that refuses every offered protocol with
TLS alert 120 is reported with ErrHTTP2NotNegotiated and the text of HTTP2Only,
which `classify` does not know of. `send`'s comment on the response check names
an IP literal or a ServerName behind a proxy; it is also reached on a plain http
URL through a caller's transport whose Protocols allow HTTP/1.1.
`OneHolderUnsettled` relies on net/http for hosts that speak both protocols:
were a request replayed on HTTP/1.1 while its HTTP/2 connection is alive, its
token would come back early. A retry whose wait is zero does not look at the
context again after its first check. The Adapter's attempt log keeps its retry
reason when the context ends during the wait, which `runWithRetries` documents.
A provider's response that is the JSON text `null` reads back from a Report as
no response; only a request has a case of its own.

## 6. What the models leave out

`AnswerSchema`: the rounding of floating-point numbers (sums are exact), the order
of the schema's keywords and its descriptions' wording, integers written as floats;
the corrective rounds are `Evaluate`'s. `AdapterReport`: how a float is spelled (a
fraction, equal when equal), the paths in the reader's errors, the depth check of
the body that was just written, a context that ends before the reply (`Evaluate` has
it). `Decoder`: incomplete `\u` escapes in keys, interning (equal strings), the byte
conditions of the cut, the folds' scratch maps, statistics. `Evaluate`: a predicate
accepts everything or is absent; the conversion of probabilities, the JSON bodies
and the SDK's retry count (`AnswerSchema` and `AdapterReport` have them). `Connect`:
a plain http API behind a proxy; why a setting is unusable; hooks of the stock
transport on the caller's own goroutine (they panic like the writer's before the
call returns); the scrub's string work. `Gate`: a counter that the code adds to
after the unlock is added to in the locked step, which nothing can tell apart: no
step reads a counter, and `StatsBalance` is about moments when no call runs.
`ReadBody`: that a Read without room would go on for ever is left to the theorem
`RoomToRead`. `RetryLoop`: log records and the text of errors. `Payload`: the
spelling of a float beyond its fraction, the buffer's size hints, a payload the
decoder refuses (the caller's response is then unchanged). `Request`: the wording of
errors, size hints other than the arenas', sonic's encoding of Go values (the text
it wrote is an input), integers' ranges. `Typed`: reflect (a type is a record),
backslashes outside a tag's quotes, the rendering of a path. Not modelled: the
components with status `not_modelled` in `PROJECT.json`, with the reason.

## 7. What could follow

1. The composition of `Gate` and `Token`, which meet only in `send`.
2. The classification of provider errors into retry reasons beside `Evaluate`,
   and the message of an error body (`internal/codec/errorbody.go`).
3. Lemmas about the operators of `Decoder` and `Request` that need no induction.
