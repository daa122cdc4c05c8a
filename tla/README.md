# A verification project for gax-nodejs

gax-nodejs is the runtime of Google's generated API clients for Node.js.  A
generated client gives it an RPC; it returns a function that merges call
options, retries, bundles, paginates, streams, polls long-running operations,
and can be cancelled.  All of it runs on one thread, so what makes it hard is
not parallelism but turns: promises, timers, `setImmediate`, stream events and
network answers come in any order between two steps of one call, and several
calls share objects.

This directory models that behaviour in TLA+, checks it with TLC on small
instances, and proves the safety properties of bundling, promises, unary calls,
settings, lists, streams, REST requests, resource names and long-running operations with
TLAPS, for every value of the constants.

## 1. The system

Paths are relative to `src/src/`.

| Component | State it keeps | Operations | Interacts with |
|---|---|---|---|
| Unary call: `createApiCall.ts`, `call.ts`, `normalCalls/normalApiCaller.ts` | `OngoingCall`: `completed`, `cancelFunc`, the callback or promise | make, start when the stub is ready, `fail`, `cancel`, deliver by `setImmediate` | the retry loop below it, every other caller beside it |
| Retries: `normalCalls/retries.ts`, `timeout.ts` | `delay`, `timeout`, `deadline`, `retries`, a timer, the current canceller | `repeat`, the answer's callback, the timer, `cancel` | reads the backoff settings; calls a stub |
| Call settings: `gax.ts` | the defaults of each method, with one backoff object that its calls share | `constructSettings`, `merge` | `createApiCall` merges, and writes; `retryable` reads |
| Headers: `grpc.ts`, `fallback.ts`, `timeout.ts` | the client's base metadata | the metadata builder, once per attempt | every attempt of every call |
| Mixin clients: `operationsClient.ts`, `iamService.ts`, `locationService.ts` | a stub that may not exist, `_terminated` | `close`, the generated methods | made of unary and paginated calls |
| Bundling: `bundlingCalls/` | `_tasks`, `_timers`, `_invocations`; the data of each task | `schedule` with `computeBundleId`, the timer, `_runNow`, `_cancel`; the answer of a bundle | called by `OngoingCall.call`; calls the API once per bundle |
| Pagination: `paginationCalls/` | resources so far; next request; `started`; the iterator's cache | collect, stream, iterate | one unary call per page |
| Streaming: `streamingCalls/` | `StreamProxy`: `stream`, `_isCancelCalled`, `_responseHasSent` | `setStream`, `forwardEvents`, `cancel`, `fail` | retry-request and duplexify (external) |
| REST: `fallbackServiceStub.ts`, `streamArrayParser.ts`, `transcoding.ts`, `util.ts`, `fallbackRest.ts` | an `AbortController`; the parser's level, flags and carried-over block | encode and transcode, fetch, decode, parse chunks | a stub for unary calls and for `StreamProxy` |
| Long-running operations: `longRunningCalls/` | `latestResponse`, `completeListeners`, `hasActiveListeners`, `currentCallPromise_`; polling loops | `on`/`removeListener`, `promise`, `getOperation`, `cancel`, the loop | an operations client, itself made of unary calls |
| Resource names: `pathTemplate.ts` | a parsed template | `match`, `render` | users render names into requests, and read those they get |
| Message classes: `../protos/*.js` | the own properties of a message | `encode`, `decode`, `verify`, `fromObject`, `toObject`, the oneof getters | operations, IAM, locations, HTTP rules; the fallback's binary bodies |

Left outside, with the reasons in section 8: error decoding, proto loading,
helpers, and the proto compilation tools.

### What is hard, and what must hold

* **Bundling.** Four things take a call out of a bundle (a limit, a threshold,
  the timer, a cancel), and bundle ids are reused at once for the next task.
  Every call must have one owner and one outcome, get its own slice of the
  answer, not be overtaken, not be sent over a limit, and not wait without a
  timer.
* **Unary calls.** A cancel, an answer, a backoff timer, a deadline and a failing
  stub race.  The user must hear of the call, once, when it is over; retries must
  stay within the total timeout, and by how much a call may overrun it must be
  bounded.
* **Settings.** Three levels of configuration, any of which may be null, and the
  strongest must win; calls of one method must not see each other's options, and
  their headers must not travel with other calls.
* **Pagination.** Pauses, failures, empty pages, nulls, and limits within a page:
  resources in order, none twice, none missing, no stalled stream.
* **Streaming.** Early cancels, cancels between attempts, attempts without
  metadata, and bodies cut into chunks anywhere: data in order and complete, one
  response per attempt, an end.
* **Transcoding.** Each field of a request in exactly one of path, query string and
  body, and the path in the shape of its rule.
* **Names.** What a template renders it must read back, and no other values.
* **Messages.** The same class is generated up to five times, with other options each
  time; oneofs depend on the order of assignments; unknown enum numbers, packed
  fields, messages in two parts.  Copies must agree, and plain objects keep what a
  message says.
* **Operations.** Listeners come and go while loops sleep or poll, and users poll too:
  events in order and true, and heard by whoever listens.

`PROJECT.json` lists the hazards line by line, with the properties for each.

## 2. The modules

| Module | Models | Uses |
|---|---|---|
| `BundledCalls` | what bundling promises: a call waits, travels in one batch, is answered once | |
| `BundleExecutor` | `bundleExecutor.ts` and `task.ts` | refines `BundledCalls` |
| `BundleIds` | `bundlingUtils.ts`, and what a bundle's base request says for its calls | extends `BundleExecutor` |
| `Bundling_proofs` | theorems about `BundleExecutor` with its refinement of `BundledCalls`, about `BundleIds` and `BundledCall` | extends them, and `SequenceLemmas` |
| `ApiCall_proofs`, `CallSettings_proofs`, `Operation_proofs`, `Pagination_proofs` | theorems about the module of that name | each extends it |
| `Encoding_proofs` | theorems about the operators of `Transcoding` and `PathTemplates` | extends both, and `SequenceLemmas` |
| `StreamProxy_proofs` | theorems about `StreamProxy` and the parser, and what `Encoding_proofs` says of its requests | extends `StreamProxy` and `Encoding_proofs` |
| `SequenceLemmas` | induction and recursion, and what the folds of the community modules compute | extended by the proofs that speak of sums, slices or concatenations |
| `BundledCall` | the promises of bundled calls | extends `BundleExecutor` |
| `ApiCall` | one unary call, or the calls of a collected list, with the retry loop over either stub, from any client | |
| `CallSettings` | the configuration, and the settings and headers of concurrent calls | |
| `Operation` | one long-running operation, its listeners, loops and users | |
| `Pagination` | the three readers of a list | |
| `StreamArrayParser` | the REST stream parser, as pure operators | |
| `Transcoding` | `transcode` and what it calls, as pure operators | |
| `PathTemplates` | `match` and `render`, as pure operators | |
| `StreamProxy` | one streaming call of any kind | extends the three above |
| `ProtoSchema` | how the schemas are written down | |
| `HttpProtos`, `LocationsProtos`, `OperationsProtos`, `IamServiceProtos`, `ComputeOperationsProtos` | the classes and enums of one file each of `src/protos` | extend `ProtoSchema` |
| `ProtoMessages` | the methods of a message class, for any schema | extends `ProtoSchema` |
| `MessageWire` | a message between two peers with their own copies of its class | instantiates the five, extends `ProtoMessages` |
| `MC...` | the small instances | extends the module it names |

The variables have the names of the fields or locals they model.  An action is
a handler: everything that runs in one turn of the event loop.  Helpers named
in the code (`Extend`, `Without`, `NextTimeout`, `Scan`, `Matches`) are
operators of their own.  Variables marked "history" in the declarations are not
in the code; they record what a property needs to speak of.

### How state and actions correspond to the code

* **BundleExecutor.** `tasks`, `timers` and `invocations` are the three maps of the
  executor; `inflight` is the set of tasks whose `run()` has been called and whose
  answer is due.  `Schedule(c)` is one call of `schedule()`, split by its
  early returns: `ScheduleImmediately` (no bundle id), `ScheduleRejected` (over a
  limit: it leaves an empty task and an entry behind), `ScheduleBundled` (flush
  at a limit, extend, flush at a threshold, or arm the timer).  `Timeout(b)` is the
  timer's callback with `_runNow`, `Cancel(c)` is `_cancel`, `ApiResponds` and
  `ApiFails` are the callback in `Task.run`.  A call's elements are pairs of the
  call and an index, so whose elements a caller gets can be told.
* **BundleIds.** A request is a function from paths of fields to values; a field that
  the request lacks is not in its domain.  `MCBundleExecutor` computes `BundleOf` with it.
* **BundledCall.** `StartCall` is `BundleApiCaller.call` within `OngoingCall.call`;
  `StartThrows` is the same where the stub cannot encode the bundle that is flushed, so that
  `fail()` rejects the one promise whose call was being scheduled; `TimeoutThrows` is that
  throw in the bundle's timer, and `BundleLost` a fetch-based stub that never calls back
  (bundled methods belong to generated clients, which may use that stub).
  `CancelPromise` is `OngoingCall.cancel`, which for a scheduled call finds
  `completed` set by the executor or calls itself in vain; `Settle` is the deferred
  callback.
* **ApiCall.** `phase` says where the retry loop is, `rpc` how far the transport is
  with the current attempt.  `Start`, `Cancel`, `Wake` and `Deliver` are the turns
  of `createApiCall`, `OngoingCall` and `retryable`; `Received` is the attempt's
  callback, whichever stub calls it.  The random fraction of the backoff delay
  is any of the units up to `delay`.  `settings` says over which transport, by which
  client, for how many pages and with a request that can be encoded or not the call is made: `NextPage` is the collector's
  `setImmediate`, which invokes the same retryable function again; `SendClosed`
  is what the mixin clients' functions do after `close()`, and `Throws` what they do without a
  stub and the fetch-based stub with a request that its encoder refuses.  A multiplier or maximum
  of the timeouts that is null is 0, as in the products and minima of `retries.ts:120-124`.
* **CallSettings.** `ConstructSettings(m)` is computed from `ClientConfig` and
  `ConfigOverrides`.  `shared[m]` is the one backoff object of a method.
  `Merge(c)`, `Wrap(c)`, `Invoke(c)` and `Retry(c)` are the turns in which a call
  writes it, defaults its initial RPC timeout, reads it, and builds the headers of an attempt;
  `headers` is the client's metadata, and `KeptHeaders` what building leaves of it.
* **Operation.** Each `startPolling_` is an entry of `loops`; `requests` are the
  `getOperation` RPCs of loops and users, with their answers on the way, which may be
  rejected or never settled (`RpcLost`);
  `immediates` is the queue of `setImmediate(emit, ...)`.
* **Pagination.** `calls` says which page each caller waits for.  `mode` picks the
  reader, and each reader has its own actions.  A page's token is its number.  An answer may
  never come (`lost`): over fetch, or from a closed client, whose rejected promise is ignored.
* **StreamProxy.** `stream` is the API stream of the current attempt.  For gRPC,
  `Metadata`, `Message`, `Complete` and `Error` are the stream's events with all their
  listeners, `forwardEvents`' and retry-request's.  `retryRequestOptions` holds what `setStream`
  passes on to it: how many retries there are in all (`retries`, counted from
  `currentRetryAttempt`) and for attempts that have no response (`noResponseRetries`), and
  what `shouldRetryFn` may answer when it is shown a response.  For REST, `Chunk(n)` gives
  the parser the next `n` characters of the body, and `BodyEnds` is a body that stops
  before its array does.  `SetStream` transcodes a REST
  request, or fails as the encoder does.
* **Transcoding.** A field's name is a sequence of words, each with how it is joined to
  the one before, which is what `camelToSnakeCase` and `snakeToCamelCase` change; a request
  is a function from paths of such names.  `Override` is one rule of the client over one
  option (`overrideHttpRules`), and `Bindings` the rules in the order they are tried.
* **PathTemplates.** A name and a value are sequences of segments, a template a
  sequence of literal texts and variables, which `{name}` (`BareVar`) or `{name=*}` stand for.
  `IsTemplate` says which templates `parsePathTemplate` reads as they are written (section 4).  `Match` folds `MatchSegment` over the
  template as the loop does, with what is left of the name and the bindings so far.
* **ProtoMessages.** The generated classes write the same methods out for each field.
  Here a class is its list of fields (`One`, `Repeated`, `Packed`, `MapOf`, `Choice`,
  ...) and the methods are operators over it.  A message is the sequence of its own
  properties in the order of assignment, which `Which`, the oneof getter, depends on.
  The five files register separate roots (`$protobuf.roots`; that of `http.js` is
  "default"), so there is no class that two of them share.
* **MessageWire.** `SetField` assigns, `Send` encodes, `Join` and `Omit` are what a peer or
  the wire may do, `Receive(g)` decodes with the copy of file `g`.

### External behaviour that is modelled from its use

A gRPC stub answers every attempt once, by its deadline.  retry-request holds
messages back until a response; it retries what fails before a response, up to
`noResponseRetries` times, and a response of which `shouldRetryFn` is true, while there are
`retries` left.  A response that is retried has its API stream cancelled.  A retry comes from a
timer, and so does the first request if `currentRetryAttempt` is above 0; ten minutes after
the first request no timer is set any more, and nothing is told to the user (stage "late").
Only what the library calls back into `StreamProxy` matters here.
A paused Node stream emits 'resume' in a later turn.  The operations service
answers with the operation as it is when it is asked, and its answers may
overtake each other.

## 3. What the runs check

Twelve runs, nine of which pass.

| Run | Question | Properties |
|---|---|---|
| `bundle` | Does the executor keep its promises to each caller, and does the base request speak for all? | `OnePlace`, `OwnResponse`, `WithinLimits`, `TimerWhileWaiting`, `InvocationsLead`, `RequestSpeaksForAll`, `NoOvertaking`, `ImplementsBundledCalls` |
| `bundled_call` | Does every promise on top of it settle, with its own outcome? | `PromisesFollowBundle`, `EveryPromiseSettles` |
| `api_call` | Is a unary call or a list reported once, in time, and when is a cancel final? | `ReportedOnce`, `RetriesFitTotalTimeout`, `CancelIsFinal`, `CallsFinish` |
| `call_settings` | Which settings win, and from what are concurrent calls isolated? | `StrongestSettingsWin`, `UndisturbedCallHasItsSettings`, `HeadersStayWithTheirCall` |
| `operation` | Are events ordered and true, and are they heard? | `LoopEventsInOrder`, `EndingsAreTrue`, `ListenersHear` |
| `operation_relisten` | Does polling go on exactly for those who listen? | `LatestLoopServesListeners`, `NoPollWithoutListeners` |
| `pagination` | Does each reader see the list, and does it end? | `PrefixOfList`, `AsksForNextPage`, `ReadersFinish` |
| `streaming` | Are streams complete, REST requests transcoded without loss, and names read back? | `DataInOrder`, `RespondsOncePerAttempt`, `CancelReachesFirstAttempt`, `HttpDeterminesRequest`, `NamesReadBack`, `GrpcStreamsEnd` |
| `wire` | Do copies of a class agree, and do objects keep messages? | `CopiesAgree`, `LastPartWins`, `ObjectsKeepMessages` |

The modules with a typed state also have their `TypeOK` checked.

Three runs show where the code does not do what its documentation says:

| Run | Property | What it shows |
|---|---|---|
| `bundled_cancel_lost` | `CancelledCallIsNotSent` | The canceller of a bundled call is dropped: `bundleApiCaller.ts:58-61` returns the `OngoingCall`, whose `cancel` finds itself completed.  A cancelled call that waits is sent. |
| `settings_leak` | `OptionsStayWithTheirCall` | `merge` writes into the shared backoff settings (`gax.ts:218-220, 231-233, 263-264`). |
| `stream_cancel_lost` | `CancelReachesEveryAttempt` | A cancel before a REST stream is opened, or between two gRPC attempts, is lost (`streaming.ts:108-114, 172-175`). |

Each property of a passing run is paired with a mutant, an operator beside the
one it replaces that changes the code's behaviour as a plausible mistake would
and makes the property fail: a drop of a guard, an off-by-one, a missing reset.

### Bounds, and why they are enough

* `bundle`: seven calls.  In one bundle id, requests of one and twice two elements
  that may wait together, one of five that reaches the count threshold 5 alone, and
  one over both limits, which are 6 elements and 5 bytes; one call in another id, one
  without any.  Three small calls flush by bytes without filling the next task; the
  call of five flushes the pending task and fills its own, so one call sends two.
  The two equal requests are interchangeable (symmetry).
* `bundled_call`: two small calls that fill a bundle, one that fits with neither and so flushes
  the bundle of either, and one over the limit.  One of the two small ones cannot be encoded: that
  fails its own schedule, the other's, the flush by the third, and the timer.
* `api_call`: delays 1, 2, 3, timeouts 2, 3, a total of 5 units, or of 1, less than an
  attempt: two retries with total timeout, so that the last is cut to what is left.
  Among the codes to retry are those of a server and of a deadline, or only `CANCELLED`,
  or none; `maxRetries` is unset, 0, 2, or given beside a total timeout, which is an error; or there
  is neither of the two, and the run looks at `MaxAttempts` = 3 attempts of a page, enough for delay
  and timeout to reach their maximum.  Under a total timeout, the multiplier or the maximum of
  the timeouts may be null.  Every transport and style, for one request or a list of two pages, the
  fewest that share a delay; clients that may be closed or have no stub, and requests that the
  REST encoder refuses, with the smaller limits (`MCFewLimits`).  The clock stops when nothing is pending; a fetch,
  which has no deadline, may be `Lateness` = 1 unit late, after which time has
  nothing more to tell apart.
* `call_settings`: ten calls of five methods: without options, with a timeout, with
  `maxRetries`, with its own backoff settings, with its own codes, with headers; of a method
  that is retried, one with codes but no parameters, one the user overrides, one whose
  retries the user disables, and one that is retried only where a call's own codes say so.
  `MaxCalls` = 3 of them are made, in every interleaving: two to disturb each other, and
  one more to come between.  Each is retried once.
* `operation`: one loop, two listeners, one polling user, metadata 0 to 2, a total
  timeout of 2 with delays 1 and 2.  `MaxLoops` bounds how often listening starts
  a loop: 1, or 2 in `operation_relisten`, where two loops run at once.
* `pagination`: six pages with a null, a page of two, and two consecutive empty pages
  where the iterator puts up with one; limits 0, 1 and 3, of which 3 is reached
  in the middle of what there is and at the end of a page; two consumers.
* `streaming`: two messages; retry-request with its defaults (no response is retried), with no
  retries at all, with responses retried always or at the user's choice, with one or two retries of attempts
  without a response, and with a first request that waits; two JSON objects with nested and
  quoted braces and brackets, escaped quotes and backslashes, cut in every way;
  a method whose two rules, with no body and the whole body, the client's HTTP rules
  override, and to which they add two with a field as body, one of them with a field of that
  message in its path, and one with no body; 96 requests, of six names (one with an empty segment,
  and none), four ids (one with a slash, one unset, and none), and two more fields that are there or
  not.  Fields are at most two messages deep, and their names have one word or two, one of
  them (`line_1`) not restored by the case conversions.  Five path templates, with a
  plain variable, a named and an unnamed `**` at the end and at the start, and segments of
  two variables, in one of them the second name beginning with the first; seven values, with slashes,
  separators or nothing; and the names of the requests.
* `wire`: all classes of all files.  `MaxFields` = 2 fields are set, the fewest that make
  an order; the first takes all its values, among them both elements of a packed or
  repeated field and an enum number that nobody knows.  A peer joins messages of up to
  two fields each, so that a member of a oneof is set again behind another, and a map has two keys.
  A message that lacks a field has one, which reaches every pair of fields.

### Fairness, and why the code justifies it

Weak fairness is assumed of what the environment or the event loop does by
itself: the promise of a stub is settled, `setImmediate` and timers run, gRPC answers
every attempt by its deadline, time passes, an operation ends on the
server.  Of an RPC whose transport is not in the model (a bundle, a poll, a page) it is assumed
that sooner or later it is answered or lost for good.  None is assumed of users: calls,
cancels, pauses, closes and listeners come or do not come.  Of the fetch-based stub only that it
goes on is assumed, since it has no timeout and loses some failures.  So every liveness property
names its exceptions, the states from which nothing more can come:

| Property | Exceptions |
|---|---|
| `CallsFinish` | an attempt whose failure the fetch-based stub has lost (`fallbackServiceStub.ts:109-132`); a page of a closed client, whose rejected promise nobody looks at; a list whose client has no stub or whose request cannot be encoded, which throws in `setImmediate`; a call with codes to retry but neither total timeout nor `maxRetries` |
| `EveryPromiseSettles` | without a delay, a call waits for a threshold; a bundle lost by the fetch-based stub; one that cannot be encoded, unless the call is the one being scheduled; the process ended by that throw in a timer |
| `ListenersHear` | a listener that comes when no loop runs; a poll that is rejected, or never settled |
| `ReadersFinish` | a page whose answer is lost |
| `GrpcStreamsEnd` | an attempt without 'metadata' after a response that was retried, whose end is swallowed; a retry due after ten minutes; a cancel before the timer of a first request, which ends the process |

`ReadersFinish` assumes of the user only that a stream is started and in the end
left unpaused.  Of a REST stream nothing is assumed.

Runs without liveness properties check `Spec` without fairness,
and runs whose system may really stop (a call that has been answered) do not check
deadlock.

## 4. What is proved

Every theorem holds for all values of the constants that satisfy the assumptions of
its module: any sets of calls, listeners or users, any sizes, limits, backoff
settings, configurations, options and messages, null backoff settings and any
`retryRequestOptions` included.

| Theorem | Statement |
|---|---|
| `Bundling_proofs!TypeCorrect`, `CallsHaveOnePlace`, `CancelFindsItsTask`, `TimersMatchWaitingCalls` | `Spec => []TypeOK`, `[]OnePlace`, `[]InvocationsLead`, `[]TimerWhileWaiting` |
| `Bundling_proofs!BundlesFitLimits`, `CallersGetTheirOwn` | `Spec => []WithinLimits`, `[]OwnResponse` |
| `Bundling_proofs!ExecutorImplementsBundledCalls`, `CallsLeaveInOrder` | `Spec => ImplementsBundledCalls` (the refinement), `Spec => NoOvertaking` |
| `Bundling_proofs!BaseSpeaksForItsCalls` | `Spec => []RequestSpeaksForAll` |
| `Bundling_proofs!PromisesAreTrue`, `PromisesKeepOnePlace` | `PSpec => []PromisesFollowBundle`, `[]OnePlace` |
| `Bundling_proofs!PromisesRunTheExecutor` | with `FlushesAreTimed`: `PSpec => Spec`, the executor's own |
| `Bundling_proofs!PromisesImplementBundledCalls`, `PromisesGetTheirOwn` | with `FlushesAreTimed`: `PSpec => ImplementsBundledCalls /\ NoOvertaking`, `[](OwnResponse /\ WithinLimits)` |
| `ApiCall_proofs!TypeCorrect`, `ReportsComeOnce`, `CancelsAreFinal`, `AttemptsFitTotalTimeout` | `Spec => []TypeOK`, `[]ReportedOnce`, `[]CancelIsFinal`, `[]RetriesFitTotalTimeout` |
| `CallSettings_proofs!TypeCorrect`, `StrongestWins`, `AttemptsCarryTheirHeaders`, `UndisturbedCalls` | `Spec => []TypeOK`, `[]StrongestSettingsWin`, `[]HeadersStayWithTheirCall`, `[]UndisturbedCallHasItsSettings` |
| `Operation_proofs!TypeCorrect`, `ListenersAreServed`, `PollsAreListenedTo`, `EventsTellTheTruth`, `LoopsReportInOrder` | `Spec => []TypeOK`, `[]LatestLoopServesListeners`, `NoPollWithoutListeners`, `[]EndingsAreTrue`, `[]LoopEventsInOrder` |
| `Pagination_proofs!TypeCorrect`, `ReadersKeepTheOrder`, `PagesAskedInTurn` | `Spec => []TypeOK`, `[]PrefixOfList`, `[]AsksForNextPage` |
| `StreamProxy_proofs!TypeCorrect`, `CancelsReachTheStream`, `AttemptsRespondOnce` | `Spec => []TypeOK`, `[]CancelReachesFirstAttempt`, `[]RespondsOncePerAttempt` |
| `StreamProxy_proofs!DataComesInOrder`, of `MessagesComeInOrder` and `ObjectsComeInOrder` | `Spec => []DataInOrder`, of its halves `GrpcDataInOrder` and `RestDataInOrder` |
| `Encoding_proofs!RenderedNamesRead`, `ReadNamesRender` | of the operators: what a template renders it reads back as the same values, and what it reads it renders as the same name |
| `StreamProxy_proofs!NamesAlwaysReadBack`, `HttpAlwaysDeterminesRequest` | `Spec => []NamesReadBack`, `[]HttpDeterminesRequest` |

### Induction over data

Sums, slices and concatenations are folds of the community modules, and what a fold computes for
every input needs an induction.  The induction theorems of the library are about a predicate,
which the provers cannot instantiate.  `SequenceLemmas` states induction for a set of numbers
(`Induction`, from the well-foundedness of the order on numbers), which a proof can supply as
`{n \in Nat : ...}`, and from it that recursive definitions have a solution (`Recursion`,
`RecursionBetween`).  With these it shows what the folds do when a sequence grows:
`FlattenAppend`, `FlattenUpto` and `FlattenAt` for `FlattenSeq`; `TotalAppend`, `TotalConcat`
and `TotalRemoveAt` for the sums over a task, whatever the order in which the fold takes the
elements (`SumsTakeAny`); `FlatMapSlice` for the offsets by which an answer is cut.

### Bundling

The assumptions are those of the module: `NoBundle` is no bundle id and `NoTask`
no task, `BundleOf` maps calls to bundle ids or to `NoBundle`, sizes and options are
natural numbers.

`OnePlace` is not inductive.  It does not say that a call sits only in the task of its
own bundle id, nor that tasks in flight are disjoint from those that wait, so a flush
could be imagined to put one call into two requests.  The inductive invariant
`Ownership` adds the missing facts:

* `WaitingOwned`: a waiting call is in the task of its own bundle id, was scheduled,
  has no outcome, and its entry in `_invocations` is that id;
* `SentOwned`: a sent call was scheduled, has no outcome, and has no such entry;
* `BatchesDisjoint`: no call is in two requests, or in a request and a task;
* `IdleUntouched`: a call that was not scheduled is nowhere and has no outcome;
* `NoneLost`: a scheduled call that is nowhere has exactly one outcome;
* `StaleOnlyRejected`: an entry without a waiting call belongs to a call over the
  limits.

`OwnershipStep` shows it step by step.  All actions but the rejection move a set
of calls from one place to another; `MoveKeepsOwnership` treats that once, and each
action supplies what it moves.  The lemmas `ExtendMembers` and `WithoutMembers` say what
`Task.extend` and `Task.cancel` do to the members of a task; `WithoutMembers` is
where "the first entry with this id" is shown to be the only one.
`TimersMatchWaitingCalls` is inductive with the type invariant.

**Limits and slices.** `WithinLimits` needs `LimitsKept`, that what waits is within the hard
limits too.  A call is added only if it fits, after a flush if need be (`TotalAppend`), and a
cancel takes away no less than nothing (`TotalRemoveAt`).  `OwnResponse` needs no sums: the answer
is the concatenation of the elements of the calls in the task, and the slice from the sum of the
lengths before a call, as long as its own, is the call's own elements (`FlatMapSlice`).

**Refinement.** `ExecutorImplementsBundledCalls` shows that each turn of the executor is a
step of `BundledCalls` or a stutter.  It needs `Ownership`, for a batch answered must be
one whose calls have no outcome yet, and `NoneEmpty`, that no empty request is sent: the
empty task that a rejected call leaves behind is never flushed by itself.
`CallsLeaveInOrder` follows from how a turn moves calls: a call is sent with all that
waited in its task, or alone when the task is empty.

**Bundle ids.** `BaseSpeaksForItsCalls` rests on the fact that the base request of a task has the
id under which the task is stored (`TasksKeepTheirId`), rejected and cancelled calls
included, and on `EqualIdsAgree`: two requests with one id agree in every field.

**Promises.** `PromisesFollowBundle` is not inductive: `NotScheduledAfter` adds that a cancelled
call is completed, and so never scheduled, and that one whose stub failed is past its start;
`AnswersOnce`, that an outcome in the executor never changes.  A promise's cancel is no step of
the executor, so `Ownership` is kept as it was.  `PromisesRunTheExecutor` says the rest: a run
with promises is a run of the executor, `PSpec => Spec`, so the refinement, the order of calls,
the limits and the slices proved of `BundleExecutor` hold below promises as well.  It needs
`FlushesAreTimed`: a delay, or requests that can all be encoded.  A flush that throws leaves the
executor with a task gone and nothing added, which is what its timer would have done
(`FlushIsTimeout`); without a timer no step of the executor does that.

### Unary calls

The assumptions: settings of the declared shape, an initial timeout that is positive, and natural
numbers, 0 or null included, for all other backoff settings.  `Sound` is `TypeOK` with `Shape`, which ties the
phase of the loop to the attempt, the page and the canceller.

* `ReportedOnce` needs `Reported`: until the loop has ended, the only report is a cancel
  without a canceller, and after it there are two only if that cancel came first.
* `CancelIsFinal` needs `CancelKept`, which remembers for each phase in which a cancel may
  come what the loop can still do.
* `RetriesFitTotalTimeout` needs `Timed`.  That an attempt has time left is said of the first, and
  of the others if the timeouts have a multiplier and a maximum: without, a retry has none
  (section 6).  `Backoff` bounds delay and timeout by the larger of
  initial and maximal value, as retries multiply them up to the maximum; `Counted` and
  `RetryFits` relate attempts to the deadline; and `OverInTime` bounds how late the clock may
  be in each phase: an attempt ends at most at `Over`, the total deadline or, if
  that is later, one longest timeout after the start, and a sleep at most one delay after that.

### Settings

The assumptions: the two configurations and the options of calls have the declared shape,
null is no settings, and every method of the configuration is one of the client's.

* `StrongestSettingsWin` follows from the type invariant, of which `Kept` says which
  objects exist (that never changes), and `Ordered` how far a call can get with its settings,
  so that whatever is read exists.
* `HeadersStayWithTheirCall` needs `HeadersKept`: no attempt changes a header of the client that
  is no list, and over gRPC none at all.
* `UndisturbedCallHasItsSettings` needs `SettingsInv`: a call's own object is written by its own
  merge and wrapping only (`OwnKept`); every `maxRetries` in a method's object comes from the
  configuration or from a merged call (`Origin`); and while a call is undisturbed the method's
  object holds the timeouts that it asked for (`SharedKept`).

### Lists

The assumptions: the collector's own calls are not those of a consumer; a list has a page,
and limits are natural numbers.

* `Reading` says of each mode which part of the list the user has.  A collected list or a stream
  that has a call under way, or a stream that will send one when it is resumed, has all before the
  page of that call and is not at its limit (`HasBefore`); of an iterator, what `next()` has
  returned and the cache together are the pages read.
* The limit makes the last page a part: `Wanted` is a prefix of the list, and so is what is
  had after each resource (`UptoPrefix`, `PrefixPart`).
* That an iterator which ends early has met too many empty pages is `EmptyBefore`, which counts
  them along with `attempts`.

### Streams

The assumptions beside those on kinds and retries: the messages are a sequence, and each object of
a REST body is the text of a JSON object (`IsObject`): it starts with a brace, its braces outside
of strings match for the first time at its end, and backslashes are in its strings only.

`GrpcInv` says which API stream, events and messages go with each stage of a gRPC stream:

* `GrpcStages`: no API stream before the stub is ready, and then `isCancelCalled` is exactly
  whether the user has cancelled; an open one while it runs; only an attempt without a
  response is retried;
* `GrpcEvents`: for each ended attempt one status; a response for each 'metadata', and for each
  'status' before any of these, and no end before the stream is over.  Unless a response may be
  retried, that is one response per attempt: a retried attempt counts afresh although
  `_responseHasSent` is never reset, which is where `GrpcStages` is needed;
* `GrpcMessages`: what has come of the current attempt is with the user, or held back if there
  has been no response, and then the user has nothing yet.

`RestInv` says of a REST stream that the user has what the part of the body sent so far completes,
and that the parser of an open stream is on its track (`Parses`).  The track is told without
reference to chunks.  `BodyShape` says which character of the body is a bracket, a comma or a
character of which object.  `OnTrack(p, b, m, i)` says that after `m` characters, with `i` objects
complete, the parser has pushed these, and with `b`, what it has seen of the next:

* between objects it is at level 1 outside of strings, and `b` is empty (`Between`);
* inside an object its level is one more than the nesting of the object's text so far, its flags
  are those of that text, and `b` is that text (`Within`).

The argument has three layers.  `CharacterMoves`: a turn of the loop in `_transform` does to
level, flags and `b` what its character does, wherever the chunk began, since `b` (`_prevBlock` and
the slice of the chunk from `objectStart`) grows by that character.  `TrackGoesOn`: such a move
keeps the track, by the nesting of the object or by what stands between two.  `ChunkIsRead` and
`TransformKeeps`: so does a loop over a chunk of any length, and what is carried over to the next
chunk.  `GivenWithChunk` then counts: what is pushed anew is what the chunk completes.

### REST requests and resource names

`NamesReadBack` and `HttpDeterminesRequest` are about what pure operators compute, and need no
inductive invariant but that `http` is what `Transcode` made of `request`, one of `Requests`
(`EncodingInv`).  The work is in the operators, `Encoding_proofs`.

**Names.** `Match` is a loop over the segments of a template.  `MatchingRuns` and `MatchIs` say by
induction what its state is after the `k`-th: as each segment takes one of the name and `**` two,
what is left begins at a place that the template alone determines, and the bindings are those
of the segments before, whose variables have names of their own (`NamesApart`).  `SegmentReadsBack`
and `SegmentRendersBack` are the round trip for one segment, with several variables in it too:
values and separators alternate (`MadeParts`), and a segment is known by its parts (`JoinedIs`).

**The URL's shape.** `Ends` is the regular expression of `applyPattern`, and `FitTogether` what it needs:
where a value fits a pattern and another another, the two joined fit the joined patterns.
`UrlHasShape` is this along the template.

**No other request.** Fields are matched by their names in snake case and deleted by those in camel
case.  `Spelled`, there and back, is idempotent and keeps what is within what (`SpelledPath`,
`SpelledPrefix`), so that both change the same fields if no two look alike when spelled
(`Spellings`).  `WholeBodyData`, `FieldBodyData` and `LeftIsUnused` say which fields end in
the body and in the query string, and `SetGoesSomewhere` that those that are set end in one of
the three.  For the way back, two requests that become the same HTTP request were transcoded by
the same rule (`RulesApart`), and the URL tells the values of its variables (`UrlTellsValues`:
all parts but one have a fixed width, which leaves one for the last).  Body and query string tell
those of other fields, by their own names.  So each field of one that is set is in the other, with
its value (`FieldsCarryOver`), and the other way round (`NoOtherRequest`).

These hold under assumptions about rules, names and requests, without which they fail, as
section 6 says of some.  Each is an `ASSUME` of its module, which TLC evaluates in `streaming`:

* `CompoundsAssumption`: a segment is known by its values and separators;
* `NamesAssumption`: templates are those that `parsePathTemplate` reads as they are written
  (`IsTemplate`), without two variables of one name.  A bare variable is rewritten from `{key}` to
  `{key=*}` at the first place in its segment where the key occurs (`pathTemplate.ts:209`), so no
  variable before it may have the key within its name, as in `{project_id}~{project}`;
  variables have names of letters, digits and `_`; and between two of them there is one of `-`, `_`,
  `.` and `~`, at which `match()` splits (`pathTemplate.ts:96`).  Values and names are of plain
  text (`Plain`), for `String.replace` reads `$` in what it puts in (`pathTemplate.ts:154, 159`);
* `RulesAssumption`: rules are annotations, in snake case, with at most one `**` variable in each
  template;
* `OptionalFieldsAssumption`: protobuf.js knows optional fields in camel case;
* `RequestsAssumption`: a field that has a value has no fields; two fields do not have one
  parameter name or one spelling; only fields that survive the conversions are left unset;
* `RulesApart`: no two rules make the same URL for the same method, as a server has only these
  to tell by which rule a request was made.

### Operations

The assumptions: loops and users are different callers, delays and multipliers are positive,
the bounds are natural numbers.

* `Counted`: `completeListeners` is the number of those who listen, and
  `hasActiveListeners` says whether there are any.  It is what makes a loop's look at the
  flag one at the listeners.
* `Started`: loops are started in order and an RPC belongs to a started loop; with it,
  `LatestLoopServesListeners` is inductive.
* `Informed`: `latestResponse` and every answer on the way were true of the operation on the
  server, and a done one still is, since an operation changes no more after its end.  With it,
  `EventsTrue` is inductive, of which `EndingsAreTrue` is a part.
* `Ordered`, for `LoopEventsInOrder`: the queue is in order and behind what the user has seen,
  loop by loop (`InOrder`); no event in it is of later metadata than its loop has seen, while
  the loop goes on (`EventsBehind`); and nothing is seen before the server has it (`SeenIsPast`),
  so that the event a loop adds ranks above all of its own.

### Only model-checked

* `CopiesAgree`, `LastPartWins` and `ObjectsKeepMessages`, the properties of `MessageWire`: the types
  of messages refer to one another and to themselves, so that its operators are `RECURSIVE`.
* `CallsFinish`, `EveryPromiseSettles`, `ListenersHear`, `ReadersFinish` and `GrpcStreamsEnd`:
  liveness under fairness stays with TLC.

## 5. Reading a finding

The three findings were met while modelling and are recorded in `PROJECT.json`
with the documentation they disagree with.  Each has its run, and a property
beside it that passes says what does hold: `PromisesFollowBundle`,
`UndisturbedCallHasItsSettings` and `CancelReachesFirstAttempt`.

## 6. Behaviour to know of

Some behaviour is in the models but contradicts nothing that the repository states:

* with `maxRetries` and no total timeout every retry gets a timeout of 0
  (`retries.ts:120-124`), and so it does with a total timeout but no multiplier or
  maximum of the timeouts, as when a call gives the timeout and the settings are those of
  `createDefaultBackoffSettings` (`gax.ts:218-220, 357-359`);
* a call with codes to retry but neither a total timeout nor `maxRetries`, as those settings
  give it, is retried for as long as its errors are retryable (`retries.ts:81-101`);
* a request that fits no HTTP rule makes the encoder throw (`fallbackServiceStub.ts:95`): a
  unary call fails with that, but a collected list ends the process, as its pages are asked for in
  `setImmediate`;
* in a bundle that cannot be encoded, only the promise of the call being scheduled is
  rejected, be its own elements the cause or not; those of the others are never settled, and if
  the bundle's timer sends it the process ends (`bundleExecutor.ts:188-224, 273-286`, `task.ts:163-187`);
* a cancel during an attempt that is already answered with a retryable error is
  forgotten, and with `CANCELLED` among the retry codes the cancelled attempt is itself
  retried (`retries.ts:110-127`; `CancelIsFinal` says that these are the only cases);
* a call that only its own codes make a retried one runs with the timeouts that other
  calls left in its method's backoff settings (`gax.ts:216-238`);
* cancelling a collected list leaves its pages running (`pagedApiCaller.ts:142-163`);
* a list collected by a mixin client without a stub ends the process
  (`resourceCollector.ts:71-88`), and one of a closed client never settles unless
  it is retried;
* a header list given for one call stays in the client's own list over the
  fallback (`fallback.ts:218-226`);
* a poll that is rejected, or never settled, ends its loop without an event (`longrunning.ts:192-196`), and a
  listener that comes after the end was emitted, beside one still registered,
  starts no polling and hears nothing (`longrunning.ts:107-116`);
* the fetch-based stub loses a failure of the headers or of `fetch`, and swallows the abort of a
  cancelled call (`fallbackServiceStub.ts:109-132`): the unary call, bundle, poll or page has no answer;
* retry-request may be told to retry a response (`retries`, `shouldRetryFn`); the response has
  been passed on to the user by then, `_responseHasSent` stays true, and if the next
  attempt has no 'metadata' no second 'response' connects it: its 'end', which the comment at
  `streaming.ts:124-126` wants to save, is swallowed (`streaming.ts:129-155, 194-199`);
* with `currentRetryAttempt` above 0, a cancel before the timer of the first request makes
  `request()` return nothing, which retry-request does not expect: it throws in a timer
  (`streaming.ts:180-184`);
* ten minutes after its first request retry-request retries nothing more and tells nobody;
* a field whose name the case conversions do not restore, as `line_1`, is sent twice, in the
  URL or the body and in the query string (`util.ts:43`, `transcoding.ts:372-381`);
* a field of the message that is the body, if it is also in the path, is sent in both: only the body
  as a whole is taken out of the query string, and nothing out of the body
  (`transcoding.ts:371-381`);
* a variable of the path that is empty makes an empty segment, and a variable of `**` with
  an empty segment in it fits if there is more (`transcoding.ts:147-172`);
* two fields whose names differ only in how a digit is joined (`line1`, `line_1`), or in the
  outermost of three messages, cannot be told apart in an HTTP request;
* a query parameter three messages deep loses the outermost name (`transcoding.ts:115`);
* `match()` of a name in which `**` stands for one segment binds "x/undefined", or
  stops before the template does (`pathTemplate.ts:62-88`);
* path templates outside the assumptions of section 4 fail: `{project_id}~{project}` is parsed as
  `{project=*_id=*}~{project}`; variables with another text between them than `-`, `_`, `.` or `~` do not match what they
  render, as `match()` throws; and `$&` or `$$` in a value is not rendered as itself;
* the comment at `bundlingUtils.ts:31` ("undefined if any discriminator fields do not exist") is
  older than the code and `test/unit/bundling.ts`, for which such a request has an id;
* a REST body that is cut off before its closing bracket ends the stream without an
  error (`streamArrayParser.ts:156`);
* an enum number that a class does not know survives `decode` but not `fromObject`.

## 7. The plan

Done: bundling (the richest shared state), unary calls and their settings, operations,
pagination, streaming with REST; then the configuration, bundle ids, lists in
`ApiCall`, mixin clients, headers, path templates, and the message classes.

What could follow, in the model: error details over the message classes; the proto cache of
`grpc.ts`; the routing headers of the mixin clients.

What could follow, in the proofs: the message classes over recursive functions, whose domain would
have to be the messages of a bounded depth.

## 8. What is not modelled, and why

* `googleError.ts`, `status.ts`: stateless decoding; codes are members of small sets.
* `grpc.ts`, `fallback.ts`, `fallbackProto.ts`, `featureDetection.ts`, but for the headers:
  set-up of @grpc/grpc-js, protobufjs and authentication.
* `operationsClient.ts`, `iamService.ts`, `locationService.ts`, but for a missing stub and
  `close`: generated methods that add a routing header and make a unary or paginated call.
* The service classes of `src/protos` (they wrap an `rpcImpl` that gax-nodejs does not
  use), and there the delimited variants, 64-bit numbers and bytes.
* `routingHeader.ts`, `warnings.ts`: formatting; `apitypes.ts`,
  `descriptor.ts`, `clientInterface.ts`, `index.ts`: types and exports.
* `tools/`: offline compilation of protos.
* `longRunningApiCaller.ts`: without state.  Its call is a unary call, as in `ApiCall`, and the
  `Operation` it makes of the answer is `Init` of `Operation`.
* The writable side of streams, warnings, logging.
* In the REST parser, elements of the array that are arrays themselves (objects alone are sent);
  in `Transcoding`, characters outside the basic plane, fields more than two messages deep, and
  lists: those of a query become several parameters of one name, and that of a body an object of
  its indexes (`transcoding.ts:391-396`).
