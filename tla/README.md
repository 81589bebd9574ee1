# A TLA+ model of commandcode-go-cliproxyapi

This directory models, model-checks and proves parts of the Go plugin in `src/`:
a provider plugin that a host process (CLIProxyAPI) loads as a shared library.
The plugin answers the host's calls through one dispatcher, sends model requests
to an upstream through callbacks into the host, converts three upstream dialects
into three client dialects while streaming, keeps a catalog of models, and samples
account usage in the background to predict when it runs out.

Line numbers below are those of the source tree; `PROJECT.json` gives the lines of
every definition.

## The system

### Components

| component (source) | state | operations |
|---|---|---|
| **Dispatcher and lifecycle** (`internal/plugin/plugin.go`, `predictor.go`) | installed config, catalog manager, refresh loop's stop channel, predictor engine under `mu`; `lifeMu` around whole lifecycle calls | `HandleCall`: register, reconfigure, shutdown, model and management calls; `refreshLoop`, `refreshOnce`; `swapPredictor` |
| **Stream pump and controller** (`executor.go`, `stream_controller.go`) | one request: timers with generations, claimed cause, WaitGroup; bytes read, converter progress, the streams' fate | `executeStream`, `pumpStream`, `armPhase`, `armTotal`, `fire`, `stop`, `streamCauseError` |
| **Host bridge** (`hostbridge.go`) | `inFlight` and, per call, `exited`/`drained`/`letGo` and a result channel | `callWithTimeoutResult`, `DoStream`, `StreamRead`, `StreamEmit`, `StreamClose`, `Log`, `WaitForInFlight` |
| **Stream converters** (`internal/adapter/{chatcompletions,messages,responses}/stream.go`) | one stream: what was seen (finish, terminal, open blocks and tool calls), buffered bytes | `Feed`, `FinalizeStream`, `FlushWithError`, `Progress` |
| **Model catalog** (`internal/catalog/catalog.go`) | raw entries and the snapshot built from them (models, index, unsupported) | `Refresh`, `fail`, `SeedFrom`, `swap`, `Lookup`, `Models` |
| **Configuration** (`internal/config`) | none after loading | parse, default, validate |
| **Predictor** (`internal/predictor`) | per account: series, hours, last observation; dirty buffer; history file; token channel; backoffs | `Start`, `Stop`, key loops, refill loop, flush loop, `Apply`, `Restore`, compaction, views and forecasts |
| **Auth records** (`plugin.go`, `account_email.go`, `auth.go`) | the host's auth store and the auth files | list and save records, learn an account's mail address |
| **Quota service** (`quota*.go`, `resources/quota_page.html`) | none in Go; the page keeps a queue of refreshes | one read-through request per key, which writes the account's email into the key's auth file |
| **Non-stream converters** (`internal/adapter/*/convert.go`) | none | one upstream body into one client body |
| **Request builders, thinking, error classes** | none | pure functions on JSON bodies and status codes |
| **Entry point** (`main.go`) | the C interface | memory and one `HandleCall` per export |

### How they interact

- The host calls the dispatcher from many threads. A streaming request is
  `executeStream` (synchronous, until upstream has answered) and then `pumpStream` on
  a goroutine of its own, which outlives the export.
- Everything the plugin does outside itself is a **host callback** through the
  bridge. A callback cannot be interrupted: with a deadline the caller gives up and the
  call's goroutine stays inside the host. `inFlight` counts these goroutines and the
  pumps, and `shutdown` waits for zero before the host unloads the library.
- Timers of a stream never write to the client: they claim a cause and **close the
  upstream stream**, which makes the pump's blocked read return.
- A lifecycle call builds a new catalog manager (seeded from the old one in an
  outage), starts a refresh loop and swaps the predictor engine. A request reads
  config and manager once, without `lifeMu`, and looks its model up later.
- The auth files belong to the host and its operator. A lifecycle call adds missing ones
  through the host; a quota request edits one **past** the host, by renaming a copy over
  it, which the host's watcher then notices.
- Two predictor engines, old and new, use the same history file one after the other.

### What is hard, and what makes each part correct

| part | hard behaviour | what must hold |
|---|---|---|
| pump and controller | timers racing progress, the end of the stream, `stop()`, and a read that only a close can release | a timeout is reported as itself; success only with evidence and everything delivered; one outcome; no timer callback after `stop()`; always returns |
| host bridge | an answer after the deadline, after the grace window, or never; the last of two goroutines releases the count | counts balance; no stream without an owner; deadlines hold; a drained bridge is quiet |
| lifecycle | concurrent lifecycle calls and shutdown; ticks stuck in the host; reconfigure in an outage | one loop; requests see one config; fail-closed on both paths; nothing is left after shutdown; calls return |
| catalog | public and upstream ids in one index; skipped and excluded entries; failed refreshes | ids lead to their own model; first come, first served; nothing is dropped silently |
| predictor store and file | torn lines, failed writes, crashes, samples taken during a flush or a compaction, the clock stepping back | durable history stays; the series is ascending; a clean stop saves everything |
| predictor sampling | one budget for all keys, refresh requests that coalesce, backoff | the budget bounds the calls, an accepted refresh is served |
| auth records | a save that times out and is performed later; a file edited by two parties; crashes | a retry converges; an edit is lost only to an overwrite already under way |
| stream converters | interleaved blocks and tool calls of one answer; arguments repeated or split; a stream that ends anywhere | every block is opened before it is fed and closed once, and only tool blocks of Messages clients are fed after that; every argument fragment is told once; only progress renews the idle timer |
| non-stream converters | the same decisions taken again, on the whole body | a client gets the same items and the same reason in both modes |

`PROJECT.json` lists the hazards one by one, each at the line where it bites, with
the properties that cover it or the reason why none does.

## The modules

```
StreamSession  <--refines--  StreamPump        <- StreamPumpProofs
                                 | extends
                             StreamPolicy  <--extends, describes--  StreamConverters --extends--> BodyConverters
                                                                       | instances
                                           ChatConverter, MessagesConverter, ResponsesConverter --extend--> StreamEvents
                             StreamConverters  <- StreamConvertersProofs <--extends-- StreamEndProofs
                             HostCalls         <- HostCallsProofs
CatalogBuild   <--extends--  Catalog           <- CatalogProofs
      ^--------extends-----  Lifecycle         <- LifecycleProofs
                             PredictorHistory  <- PredictorHistoryProofs
                             AuthRecords       <- AuthRecordsProofs
```

`MC*` modules give the constants their values. No module has a recursive operator: what
the code does in a loop over data is a recursive function (`Snapshot` in `CatalogBuild`,
`Trim` and `Loaded` in `PredictorHistory`, `CloseTools` in `ChatConverter`).
A definition introduced as "Mutation of X" is a plausible bug in the code X
models. `PROJECT.json` pairs it with the property that catches it; no specification
uses it.

**StreamPump** is `pumpStream` with its `streamController`, step by step: `pc` is the
position in the function, one action per statement that another goroutine can
interleave with. Timer goroutines are `phase`/`totalArmed` (armed), then members of
`running`, first before `fire`'s lock and then inside `StreamClose`. `standing` is a
history variable: the timers that were armed and neither superseded by a later
`armPhase` nor ended by `stop`. `ClaimIsCurrent` is stated with it and not with
causes, since the timer that supersedes an idle timer is mostly an idle timer too. Time is not modelled: an armed timer may expire at any moment. The
converters are reduced to what the pump can tell apart of them: which frames make
progress, when finish, `[DONE]` and a terminal event have been seen, whether tool
arguments are open, and the three ways the end of a stream is finalized (`policy`). The
frames an upstream can send obey the order of Chat Completions events, which is not
this repository's code (`MayArrive`, marked external). This reduction is **StreamPolicy**.

**StreamSession** is what a session promises: upstream released before the client hears
an outcome, one outcome, a success only with evidence, one log record that agrees with
the outcome. `StreamPump!SessionSpec` is the refinement, with the evidence mapped to
what the route at hand accepts as evidence.

**StreamEvents** has what the stream converters share: the events a client is told
(`sc.said`: starts, deltas and stops of numbered blocks, and the events that end the
stream) and the progress counter that the timers go by. A Claude content block and a
Responses output item are both a block. How far a tool's arguments are JSON, and how far
its name is known, are small enumerations: `none`, `half`, `whole`; `none`, `part` of a
declared custom tool's name, `custom`, `function`. Each of **ChatConverter**,
**MessagesConverter** and **ResponsesConverter** is one adapter's `stream.go`, for its
three client formats: `HandleLine` is one complete line, event or frame through `Feed`,
`FlushWithError` and `FinalizeStream` are the two ways the pump ends a stream. `MayFollow`
and `Heard` describe what an upstream may send next (not this repository's code): no
content after a finish reason, a Messages block opened before its deltas and closed after
them, a Responses item's arguments in deltas, or whole, or whole again once done.

**BodyConverters** is what of `convert.go` decides which items the client gets, in which
order, with which reason, or that the body is refused, for each pair of dialects.

**StreamConverters** runs one stream through one of the three converters and states the
properties once for all of them. `PumpPicture` ties them to `StreamPolicy`: each line
does what up to three of the pump's frames do, and each way of ending fails exactly when
the policy says so. So all three policies, with which `StreamPump` is checked, are
checked against the code they abstract. `ModeParity` ties them to `BodyConverters`: for
what an upstream has said in a stream that ends as a success, the body that says the same
would have been converted into the same items with the same reason. Where the adapter keeps
the upstream's order in both modes (Messages upstreams, and Responses upstreams for Messages
clients, whose text may be split) the order is compared too. One case is exempted from the
reason by name, `CallsByDeltasAlone`; see below.

**HostCalls** models `callWithTimeoutResult` with both of its goroutines and the
abandon goroutine, for four kinds of calls: `do_stream` (with grace window and abandon),
calls with a deadline, some of which are the predictor engine's, and `stream_read` and
`stream_close`, which have none. Around them are `executeStream`'s synchronous part, the
spawned pump as one unit (its reads are in StreamPump), and `handleShutdown`: it tells the
engine to stop, waits for it up to a bound, and drains. The engine goes on making calls until
it has exited, whether or not that wait has run out, and `overran` remembers that it had.
`ExportsReturn` says whether the host waits for its exports before it calls shutdown:
that is the host's business, and the two values are two different runs.

**CatalogBuild** is one iteration of `swap`'s loop as the operator `Place`, with the whole
loop as a recursive function (`Snapshot`). A model id is the sequence of its segments, so that
prefixing and equality are those of the strings. **Catalog** is one manager: a swap runs
entry by entry and installs its result at once; lookups may come between any two steps.

**Lifecycle** is the dispatcher: threads that run register, reconfigure or shutdown
under `lifeMu`, refresh loops with the watcher goroutine that turns a closed stop
channel into a cancelled context, predictor engines as life cycles, and readers that
capture config and manager under `mu` and resolve their model later. Managers are built with
`CatalogBuild`, so that seeding, overrides and kill switches mean what they mean in the code.

**PredictorHistory** is the store and the history file of one account. The buffer
(`dirty`), the drained batch and the file are sequences of records. `open` says that the
file's last line may lack its newline: what is appended next becomes part of that line
(`Written`). Any append may stop after whole lines, within a line or just before its
newline (`WritesPart`), loads and rewrites may fail, and the process may crash in any
state. A rewrite is atomic (temporary file and rename). Timestamps have the resolution
of the file, seconds. Engines follow one another, as `OneEngine` of Lifecycle has it;
two on one file after a wait that ran out are not modelled here.

**AuthRecords** is the auth directory with the four parties that write it: lifecycle
calls (list, then save what is missing one by one, each save answered, refused or timed
out with the host still about to perform it), quota requests (list, read, write a copy,
rename), the operator (whose edit of a file takes two steps, between which it holds no
JSON) and the host, whose list is updated by a save at once and by its watcher later. A
crash ends everything but the files. `intent` and `exposed` are history variables: the
last edit of a file, and whether it was made while an overwrite that could not know of
it was under way.

## The runs

All pass except where "violation" is said; sizes are distinct states.

| run | question | bounds |
|---|---|---|
| `pump_safety` (675 k) | Are timers counted, timeouts told from ends, successes whole? Does the pump implement the session? Does it return although the upstream never answers again? | byte cap 2, chunks of 0, 1 and 2 frames, at most 1 event a frame, three policies |
| `grace` (violation) | Does the finish grace bound the wait after a finish, as README.md:148 says? | strict policy |
| `synthetic` (violation) | Is a success never made up, as README.md:204-207 says? | synthetic policy |
| `converters` (640 k) | Are blocks (but for tool blocks of Messages clients once stopped), ends and arguments right for the three adapters and three formats, is only progress progress, do both modes agree, and is `StreamPolicy` a picture of the converters? | Chat Completions: 5 chunks out of 31 (text, thinking, calls 0 and 1, split names and arguments, finish, trailer, error, `[DONE]`); Messages: 7 events, three blocks of any kind; Responses: 6 events, two calls, one with an item id |
| `chat_lifecycle` (violation) | Is a content block never fed once stopped, as stream_test.go:243 says? | Chat Completions, 4 lines |
| `calls` (39 k) | Has every count one release, is a drained bridge quiet if exports return before shutdown (but for an engine that overran its stop), do deadlines hold with a dead host, is every late stream closed with a live one? | one stream, one bounded call, one call of the engine |
| `unload` (violation) | Is a drained bridge quiet if an export may still be running, as hostbridge.go:271-273 says? | one stream |
| `catalog` (401 k) | Is the index sound and first-come, and is every entry accounted for? | lists up to 3 over `foo`, `p/foo`, `p/p/foo` and a missing id; 15 configurations |
| `lifecycle` (79 k) | One loop, one config per request, fail-closed, one engine, nothing after shutdown, calls return? | two calls and a shutdown, one reader, two configurations, two models |
| `history` (293 k) | Does durable history stay, is the series ascending, does a clean stop save everything? | 3 observations at times 1, 2, 3, 5, retention 2, compaction over 1 line |
| `history_loss` (violation) | Is every sample at most one flush away from the file while saving works, as predictor.go:42-43 says? | as above |
| `auth` (252 k) | Does a call that succeeds leave every record, whatever failed before? Is an edit lost only to an overwrite already under way? | two calls with any list of two keys, two quota requests, one mailbox, one edit, one crash |

Why the bounds are enough:

- *pump*: a cap of two with chunks of zero to two gives reads under, at and over the cap
  and reads without data. The number of frames is bounded by the cap alone, and two
  frames are enough for every order of start, progress, finish, done and error. The
  number of timer generations is bounded by the progress steps, so a fired timer can be
  overtaken by a later arm and by `stop`. One event per frame separates "all emitted"
  from "some".
- *converters*: two tool calls, two halves of arguments and of a name give every
  interleaving of fragments that the converters distinguish; text and thinking can come
  before, between and after them. Five chunks are enough for a call in two fragments, two
  interruptions of it (text, thinking or the other call) and the finish, or for a
  custom tool's name in halves with its input; the end of the stream costs no line.
  Seven Messages events, start, delta and stop being one each, are a block that a second one
  interrupts, each with a delta, and an ending. Six Responses events are
  two calls announced, fed and completed in any order, or one of them and the end. A longer
  run (eight Messages and seven Responses events, 1.24 million states) found nothing more.
- *calls*: calls share nothing but the counter and the shutdown. A bounded call, an
  engine's call and a stream with its pump, its read and its close are six counted goroutines,
  and the release of each meets every state of the others, of the engine and of the drain. That no number of streams and
  calls differs in safety is proved; the liveness properties speak of one call each.
- *catalog*: a clash needs two ids, one the other's public id. Three ids in a chain give a
  clash with a record on each side, and a record whose rival was excluded. Duplicates
  and missing ids come with the lists.
- *lifecycle*: an orphaned loop, a stale seed or two engines need two calls; shutdown
  is a third actor. The two configurations differ in prefix, kill switch, stale policy and
  predictor; one of them switches off the protocol of one of the two models, so a seed
  from the other in an outage has a model to drop and public ids to make anew.
- *history*: with retention 2 and the instants 1, 2, 3 and 5, samples expire one at a time
  (1 at 5 and not at 3) and several at once. With more than one line
  compacted, each append can be followed by a compaction. Three observations fill
  the series, the batch and the buffer at once. Crashes and restarts are not bounded.
- *auth*: an overwrite needs the call that timed out, one that retried, and an edit in
  between: one edit, made at any point of them; records of different keys meet only in one
  call's list, so two keys suffice.
  What mailbox it is decides nothing but whether the file has it already. The theorems
  cover all other sizes.

`CHECK_DEADLOCK` is left on wherever something must go on: where everything may have come
to rest there is an explicit stuttering step (`Ended`, `Rest`), and any other stop is an
error. It is off in `auth`, whose bounds on calls, edits and crashes make it stop.

### What the violations show

1. **grace.** README.md:148 calls `stream-finish-grace` the maximum wait after finish.
   `progress()` (executor.go:541) arms the idle timer for every chunk that makes progress,
   also after the finish, and the grace is armed only once. After finish, one usage
   record and a stall, the longer idle timeout decides, and the outcome is an idle error.
2. **synthetic.** README.md:204-207 says no success is invented for an upstream that
   disconnects without finish. The Chat Completions to Responses route makes up the finish
   `stop` (chatcompletions/stream.go:858).
3. **unload.** hostbridge.go:271-273 says the export does not return while goroutines may
   call into host memory. An export is counted only while it is in a host call: `DoStream`
   gives its count back before `executeStream` logs a failed start (executor.go:413) or
   counts the pump (executor.go:435); a shutdown in between drains to zero, and the export
   or its pump then enters the host. The
   same property holds when the host lets exports return first (`calls`).
4. **history_loss.** predictor.go:42-43 says a crash loses at most 5 minutes of samples.
   The buffer is emptied before the append (predictor.go:293); what a failed append drops
   is written again only by a compaction, while the next successful append sets the
   status back to "ok". Also, an append after an unterminated line loses its first record.

5. **chat_lifecycle.** stream.go:386 says one block is open at a time, stream_test.go:243
   that no delta follows a block's stop. When a second call, or text, arrives between two
   argument fragments of a call, `claudeLine` stops the call's block and later sends the
   remaining fragments as deltas of the stopped block (stream.go:485-488).

### What else the models say of the code

Not findings, since no text of the repository says otherwise or the text is about
something narrower, but a reader should know these before relying on the properties:

- *Auth records.* "Never overwritten" (plugin.go:385) and "survive byte for byte"
  (account_email.go:25) hold outside three windows: between a call's list and its save of a
  record it did not find; until the host has performed a save that timed out (a retry
  succeeds, the operator disables the record, and the late save enables it again); and
  between the read and the rename of a quota request. `RecordsKept` states just this.
- *The engine and the drain.* "Every goroutine must have exited (with a final flush) before
  the drain window starts" (plugin.go:482-484), but `stopPredictor` waits for the engine only
  up to a bound and goes on with a warning (plugin/predictor.go:118-127). An engine that is
  late, in a call of the host or in the writes of its last flush, may log or fetch after
  `WaitForInFlight` has reported zero. `DrainedIsQuiet` exempts the calls of an engine that was
  alive when that wait ran out, and nothing else; without the exemption `calls` is violated.
- *Messages upstreams without `event:` lines.* Dispatch reads the type from the data as
  well (messages/stream.go:173), progress does not (messages/stream.go:93): such a stream
  is converted but never makes progress, so only its timers end it. `PumpPicture` and
  `IdleMeansIdle` leave it out. Thinking deltas never renew the idle timer either
  (messages/stream.go:116); the properties ask it of text and arguments only.
- *Empty deltas of a Responses upstream are progress.* `observeFrame` looks for the key
  `"delta"`, not for what it holds (responses/stream.go:285-288), so a delta without content
  renews the idle timer, which README.md:146 leaves to "meaningful parsed progress". The
  model's text and argument lines always carry content: `IdleMeansIdle` says nothing of this
  case.
- *Arguments are validated* by the Chat Completions converter and by the Messages
  converter for Responses clients, not on the other routes. RELEASE_NOTES.md:71 speaks
  of malformed tools in general.
- *Repetitions.* A repeated `message_delta` gives a repeated finish chunk, and the last
  one decides the reason; a repeated `content_block_start` announces another item; a
  repeated Chat Completions finish flushes a held one, hence "at most twice" in
  `IdleMeansIdle`.
- *A half-way load.* A sample that waits in the buffer while retention drops it from the
  store can be appended behind newer ones, after a compaction. The next restart sorts this
  out, since `TrimRetention` drops it again; but when reading the file fails half-way,
  `restorePersisted` returns before `TrimRetention` (predictor.go:204-210), and the series
  that is then shown may have the old sample out of place. store.go:16 promises "ascending
  by Ts". It takes an observation as old as the retained span in a buffer of five minutes,
  so it is no more than an edge; `Ascending` allows it for expired samples after a failed
  load, and only there. It came up as the step of the proof that did not go through.
- *Mode parity has a direction.* The non-stream converters refuse content blocks and
  output items of unknown kinds (messages/convert.go:114, responses/convert.go:141, 217),
  the stream converters skip them; the stream refuses broken function arguments on a
  route where `chatToResponses` passes them on. `ModeParity` compares a successful stream
  of the kinds both know with its body; and a Messages tool call is told to an OpenAI
  client with its first delta, so that it assumes one comes.
- *Calls known by deltas alone.* "Shared precedence: tool calls outrank the status-derived
  reason" (responses/stream.go:545-547), and a call may be opened by its argument deltas,
  without an item. `argsFragment` sets `toolCallsSeen` for Chat Completions clients only
  (responses/stream.go:517-518): a Messages client is told the tool block and then
  `end_turn` or `max_tokens`. `ModeParity` takes such a stream in and demands the reason of
  the status there (`CallsByDeltasAlone`), and that of the body, `tool_use`, everywhere else.

## Fairness

Safety runs assume none. For the liveness runs:

- *StreamPump* (`pump_safety` checks `Terminates` with the rest): weak fairness of the pump's steps and of timer callbacks (the Go
  scheduler runs ready goroutines); of the expiry of an armed **phase** timer; of the
  return of a read of an upstream stream that is **closed**. Nothing is assumed of a read of an
  open stream, nor of the total timer. That the host answers `stream_close` is an
  assumption the code makes too: it has no deadline there, and `stop()` waits for a callback
  that is in that call. A pump that hangs so is outside `Terminates`.
- *HostCalls*: weak fairness of the plugin's goroutines and of deadlines. That the host
  answers is assumed only inside `NoStreamLeaks`, as its premise: of an export that waits for
  ever in the close of a late stream (hostbridge.go:350) no property speaks.
- *Lifecycle*: weak fairness of the steps of calls, of the watcher and of a tick whose context
  is cancelled (`callWithTimeout` selects on it). Strong fairness of a told loop's exit, because
  `select` picks among ready cases at random and so cannot prefer the ticker for ever. A tick
  that is not cancelled may take for ever.

## What is proved

Every theorem holds for all values of the constants under the modules' assumptions,
which say no more than that the constants have the right kind.

Under these assumptions each safety property that a run checks on `StreamPump`, `HostCalls`,
`Lifecycle`, `Catalog`, `PredictorHistory` and `AuthRecords` is a theorem, and so are the
action properties among them and the refinement of `StreamSession`. Of `StreamConverters`,
`TypeOK`, `BlocksWellFormed` and `EndIsWhole` are. `DrainedIsQuiet` has one
more hypothesis, stated in its theorem: the host lets its exports return before it calls
shutdown. The run `unload` shows that it cannot be dropped. Its conclusion has an exemption,
for a predictor engine that outlived the bounded wait for its stop; the calls show that it
is needed.

**StreamPumpProofs** has two inductive invariants. `Counted` gives `TypeCorrect`,
`WaitGroupAlwaysBalanced` and `StopIsQuiet`. `WaitGroupBalanced` says that the counter equals
the number of armed timers and live callbacks; that an expiry *adds* a member to `running`
needs that no callback of that generation is there already. `TimersInv` supplies this: a
generation names at most one timer, 0 the total one, the current one the armed phase timer,
and nothing is armed before the controller exists and after `stop`. The `Wait` step, enabled
when the counter is zero, then leaves `running` empty.

`IInv` gives `ClaimsAreCurrent`, `TimeoutsKeepTheirCause`, `SuccessesAreWhole` and
`PumpImplementsSession`. A timeout can be taken for something else only between the close
that released a read and the pump's look at the cause: `ReleaseInv` says that a cause is
claimed before the stream is closed, and at which places a released read can still be in
hand; `ClaimInv` says whose cause a timer carries, and that until `stop` the total timer and
the timer of the current generation are those that stand. That a success has no tool arguments open
is not a matter of the last step alone: `ConvInv` says what the converter has seen once it
has sent its end, for each of the three policies, and that nothing fed to it later could
open a call again. `OutcomeInv` and `WholeInv` follow the outcome through the calls that
announce it. Refinement then has one lemma per action: it is a step of the session or leaves
the mapped variables alone.

**HostCallsProofs**: `TypeCorrect`, `CountsBalanced`, `DrainStaysQuiet`, for any set of streams
and calls. `CallInv` is the protocol between a caller and its goroutine: the count is
released exactly when the callback has left the host *and* the caller's side is settled.
`StartInv` and `StreamInv` add who holds a late stream. `Balanced` equates the counter with
the cardinality of the unfinished calls and running pumps; each action's lemma says which
of the two sets it adds one to or takes one from. `QuietInv`, for the third theorem, says that
no export runs once shutdown has begun, that the drain begins with the engine exited or
`overran` set, and that after it only calls of the engine are counted, none if it had exited.

**LifecycleProofs**: `TypeCorrect`, `LoopsNeverOrphaned`, `EnginesNeverShare`, `ShutdownIsFinal`,
`RequestsKeepTheirConfig`, `FailClosedHolds`, `OutagesKeepServing`, for any number of calls and
requests. Whoever is inside a call holds `lifeMu` (`LockInv`), so one thread at a time hands
the loop and the engine from the old owner to the new one; `LoopInv` and `EngineInv` say, for
each place of the call, which of the two is at work. `StoreInv`: a catalog is what the
configuration of its own call makes of its raw entries, since a seed rebuilds; `ReaderInv` ties a
request's record to the configuration it captured. What a rebuild makes of a list is
shown by induction on the list, in lemmas at the head of the module.

**CatalogProofs**: `TypeCorrect`, `LookupNeverMisroutes`, `ClashesAlwaysCrossRoles`,
`EntriesAlwaysAccounted`, `FirstComeFirstServed`. The inductive invariant `IInv` adds to
`TypeOK` what the loop in progress has achieved (`WorkInv`: the index agrees with the models,
every record has the public id of its upstream id and a seen id, and the entries reached are
accounted for) and the same for the installed snapshot (`SnapshotInv`). That two records
never clash in the same role, the claim of the comment at catalog.go:311-318, follows from the
injectivity of `PublicID` (`PublicIDInjective`) and the deduplication of ids. `FirstWins` says
of the list alone what the loop arrives at by its index and its `seen` set; `ChoiceInv` is that
statement for each prefix of the list.

**PredictorHistoryProofs**: `TypeCorrect`, `SeriesAscend`,
`NothingIsForgotten`, `StopSavesAll`, `DurableIsKept`, for any instants, retained span and
threshold. Its first half says what restoring does: of `Loaded` (a line can only be placed, and
what is later wins), `Trim` (it drops what is expired and keeps the order), `Written` and
`SnapshotRecords`. None of the five properties is inductive. Whether a restart shows an
ascending series depends on the order of the lines in the file, that order on the order of
the batches and snapshots written, and whether a snapshot may replace the file on the store
showing, or having dropped, all that is in it. So `FileInv` says that every line is in place
and that the file, the batch and the buffer hold nothing the store does not know;
`WaitInv`, `AppendInv` and `RewriteInv` say where what waits, is appended or is about to
replace the file will go. The delicate part is an open last line, which swallows the next
record: only then, and while an append runs, must the buffer be later than the whole file.

**AuthRecordsProofs**: `TypeCorrect`, `EditsAreKept`, `AlwaysMaterialized`, for any keys,
requests, calls, edits and crashes. `RecordsKept` is not inductive: that a save or a rename does no
harm needs what its author knew. `ListedIfThere` says a record that is there is listed (so
a call skips it), `SavesAreFresh` that whoever is about to save a record saves one that
nobody has edited, `CopiesAreFresh` that whoever is about to rename holds the last edit;
each for keys that are not exposed. `TornIsBeingWritten` and `Covered` (what the call has
found or saved is there) carry `Materialized`. `IInv` is their conjunction; one lemma per action
shows that it is kept.

**StreamConvertersProofs**: `StreamInvariant`, `TypeCorrect`, `BlocksAreWellFormed`, for every
set of lines and every number of them. As the property, the theorem lets the tool blocks of a
Messages client be fed after their stop, which the run `chat_lifecycle` shows to happen; it
excludes that for every other block. `Lawful` is what `BlocksWellFormed` asks for, said of
any sequence of events and without counting; `MayTell` says which event may follow, in terms
of the blocks opened, opened for tools and closed so far. `BlocksWellFormed` is not
inductive: whether the next event may follow depends on what the converter believes to be
open. So each converter has an invariant that ties its fields to what was said:

- `ChatInv`: the blocks kept as open for thinking and text are open to the client, a tool is
  marked stopped exactly if its stop was said; for a Messages client nothing else is open
  (`ClaudeTold`), so that `stopBlocks` closes all there is; for a Responses client an item is
  marked announced exactly if it was opened and has been sent all its fragments
  (`RespondTold`), so that closing it owes it nothing;
- `MessagesInv`: the entry of a tool is marked emitted exactly if it was opened
  (`ToolEntries`), and the items of its blocks and its message item were (`MessageItems`);
- `ResponsesInv`: the blocks that the tracker's identifiers lead to are tools', and
  `openBlocks` lists what is open.

A handler breaks these relations half-way, so they have a parameter, the call at hand, that
may be excepted (`ChatHalf`, `MessagesHalf`, `ResponsesHalf`). There is a lemma for each operator
of the three converters. The loops over a chunk's calls and over the tools are runs of one
`Round` (`LoopOf`), about which the induction is done once. Only the Messages converter needs
something of its upstream: text deltas follow the start of a text block, without which the
message item would be fed before it is open (`StreamInv`, last conjunct). TLC has checked
`StreamInv` as an invariant of a larger instance before it was proved.

**StreamEndProofs**: `WholeInvariant`, `StreamsEndWhole`, on top of the former. `EndIsWhole`
speaks of the last event and of what must have gone before it. `WholeInv` adds to `StreamInv`
what makes it inductive. While a stream is open (`StreamOpen`), its converter has
said nothing that ends the answer, or only what its upstream has also said and can no longer
take back:

- `ChatOpen`: to a Chat client nothing. For a Messages client (`ClaudeOpen`) the finish closes
  every block, and `message_delta` is held back until it can carry the usage: it was told
  exactly if `terminalSent`, and as long as it was not, the reason is still held. A Responses
  client (`RespondOpen`) has been told either nothing of the end, with the reason held back
  since the finish, or all of it: then every block is closed, the last event lists what was
  announced, and nothing more is said;
- `MessagesOpen`: `message_stop` has not come (`Awaits`), and a Chat client was told its finish
  chunk exactly if the upstream gave its stop reason (`FinishTold`); for a Responses client the
  items announced are those of `blocks`, in the order of their indexes (`ItemsOpen`);
- `ResponsesOpen`: the terminal event has not come, and nothing of the end was said.

When the input is over, the converter closes what it believes to be open, and by `StreamInv`
that is all that is open; it then says its last event, and `WholeEnd` holds of what was said.
Whatever keeps it from that (no terminal event, a call without a name or with arguments that
are no object) makes the outcome an error. The proof needs of the upstream what `MayFollow`
says, a guard of `Next`: no content comes after the finish or stop reason. Otherwise a Chat
client could be told content after its finish chunk. That the list in the last event ascends
is a lemma about `Listed`. TLC has checked `WholeInv`, too, as an invariant of the instance of
the run `converters`.

Induction over numbers is stated where it is needed. A step about the next number cannot be
handed to the library's induction theorems as an operator, but a *set* of numbers can be
shown to hold them all (`SetInduction`, `BoundedInduction`), from the well-foundedness of `<`.
`RunOfLoop` gets from it that a recursive function has the values its definition says.

Only model-checked:

- liveness (`Terminates`, `DeadlinesHold`, `NoStreamLeaks`, `CallsReturn`), which TLAPS does
  not prove under fairness;
- of the converters, `NoFragmentLost`, `IdleMeansIdle`, `ModeParity` and `PumpPicture`. They are
  built on `SetToSortSeq`, `SelectSeq` and `FoldSet`, which take an
  operator as a parameter and which the provers cannot expand, or compare a line's effect
  with that of the same line repeated.

## What is not modelled

- Durations. No model has a clock: "expires at any moment" covers every choice of
  timeouts, and statements about lengths are not made.
- Pure conversions: request builders, thinking, error classes,
  configuration parsing, decoding of envelopes, forecasts in floating point. They
  keep no state, and the repository's tests exercise them.
- Of the converters, text, ids, signatures, usage numbers, and lines that arrive in
  pieces (the framer carries a partial line over to the next read).
- Sampling by the predictor (token channel, refresh requests, backoff): planned.
- Of the quota service, the three account calls of one request, their rendering, and the
  page's queue.
- The entry point's C memory handling and the debug trace.
- The host. Where its behaviour matters, the models allow any that the code admits, and
  the runs say what they assume.

## Plan

Done first, since a mistake there costs requests or a crash of the host: pump and
controller, host calls, catalog, lifecycle; then the history file, the converters in both
modes, and the auth records; then the proofs of all of these. Next, in this order:

1. **PredictorSampling**: key loops, token channel, refresh requests, backoff, `Stop`.
   Properties: the budget bounds the calls in a window, an accepted refresh leads to a sample,
   loops join while waiting for a token.
2. The framer's partial lines; the quota page's refresh queue.
3. `NoFragmentLost`, which needs a sum over events that the provers can expand.
