# Verification of embodied-ai-proxy

TLA+ models of the Go programs of this repository (the backend, the LLM proxy and
the terminal UI), the TLC configurations that check them, and TLAPS proofs of the
safety of the backend with its evaluation runner, of the LLM proxy and of the terminal UI. The source is the reference: where a document
and the code differ, the model follows the code, and section 8 tells the difference.

Run a check with `tlc -config MCHub.cfg MCHub.tla`, a proof with `tlapm HubProofs.tla`.
`PROJECT.json` lists the runs, the source lines that each definition translates, the
hazards, a mutant for each property and the theorems.

## 1. The system

A user types a command in the terminal UI. It goes over a WebSocket to the backend,
which reads the scene of the robot from the ROS 2 middleware over rosbridge, asks a
language model for a recipe through the LLM proxy, replaces the names in it by
registered ones, has the middleware execute it, and sends the outcome back.

    TUI ── WebSocket /ws/client ── backend ── rosbridge WebSocket ── middleware
     │                                │
     └──── HTTP /api/* ───────────────┤
                                      └── HTTP /generate ── LLM proxy ── provider

| Component (source) | State | Operations | Correct when |
|---|---|---|---|
| rosbridge client, calls (`backend/internal/rosbridge/client.go`) | socket, `connected`, `reqSeq`, `pending`, one channel per call | `run`/`connectAndServe`, read loop, teardown, `CallService` | a call gets its own answer or a release, the reader never blocks, nothing leaks |
| rosbridge client, cached environment (same file) | four lists behind one lock | setters, `RefreshEnvironmentParams`, getters, teardown, observer | a command plans with one scene; what is shown is what is cached |
| hub, slot and bridge (`backend/internal/websocket/hub.go`) | `client`, `bridgeConnected` | `ServeClient`, `OnBridgeConnectionChange` | one terminal UI at a time; a dead one gives the slot up |
| hub, command loop (same file) and `pipeline/ws_handler.go` | `isBusy` and a context per connection | read loop, prompt goroutine, `HandlePrompt` | one outcome per command; commands end |
| pipeline (`backend/internal/pipeline`) | none between commands | `Run`, retry, name resolution, `HandlePrompt` | only registered names reach the robot, none is guessed |
| prompt and answer (`pipeline/prompt.go`, `validator`) | the texts of one command | `buildPrompt`, `extractJSON`, `Validate` | the prompt is complete, the document in the answer is found, what is sent is what was decided on |
| evaluation runner (`backend/internal/eval`, `runEval` of `cmd/server`) | suites, cases, failures | `Run`, `check`, `match` | the exit code tells of every failure; a mismatch is reported where it is |
| matcher (`backend/internal/matcher`) | none | `Resolve`, edit distance | the distance is right; a meaning does not change silently |
| API (`backend/internal/api`) | none | `/api/scan`, `/api/reset`, `/api/info` | a scan reports what changed |
| LLM proxy (`llm-proxy/internal`) | one deadline per request | handler, router, provider adapters | only transient failures are retried; every request is answered |
| TUI client (`tui/internal/client/ws.go`) | `conn`, `closed`, bounded channel, delay | `connectLoop`, `SendPrompt`, `Close` | it keeps trying; prompts go to the connection that is served |
| TUI model (`tui/internal/app/model.go`) | `connMsg`, `inFlight`, timer, input line, history | `Update` and what it calls | the header is right, the input unlocks, a line left for the history comes back |
| view, message decoding, HTTP client, server wiring, shared packages, `run.sh` | none, or only at startup | — | not modelled, see section 7 |

How they interact. The connection goroutine of the rosbridge client shares a map,
a flag and a socket with all callers of `CallService`, and calls the hub's callbacks
outside its locks. The hub runs one `ServeClient` goroutine for each WebSocket and one
goroutine for each command, for which nobody waits; `SendToClient` reads the client
pointer and writes after it has let the lock go. The handler calls the rosbridge client
and the LLM proxy and reports to whichever client is registered at that moment. In the
terminal UI a client goroutine fills a bounded channel that the Bubble Tea loop drains
one message at a time.

What is hard here: a teardown that races with calls that are being registered, late
answers after timeouts, two checks of the slot around a handshake, a greeting that races
with a push, commands that outlive their connection, a robot that does not stop when
the backend stops waiting, several goroutines that store the scene list by list, a deadline that
falls at different places of an HTTP exchange, a full channel that blocks the reader
of the socket, and a history of lines that is edited while it is walked through.
`PROJECT.json` lists 40 such hazards, each at its line, with the properties aimed at it.

## 2. The modules

| Module | Models | Checked by | Proofs |
|---|---|---|---|
| `CallContract` | abstract: what a caller of `CallService` may rely on | refined by `RosbridgeClient` | |
| `RosbridgeClient` | connection goroutine and `CallService` | `bridge_calls` | `RosbridgeClientProofs` |
| `EnvironmentCache` | the cached lists and their writers | composed into `Environment` | |
| `Environment` | `EnvironmentCache` with its users: a command, `ScanHandler`, `ResetHandler`, the warm start | `environment` | `EnvironmentProofs` |
| `Hub` | the slot and the bridge state | `one_client`, `hub_bridge_shown` | `HubProofs` |
| `CommandService` | abstract: what the backend promises of commands | refined by `CommandSession` | |
| `CommandSession` | composition of the TUI's input lock, the hub's command loop, `HandlePrompt` and the middleware | `command_session`, `one_recipe_runs` | `CommandSessionProofs` |
| `RecipePipeline` | `Run`, the retry, name resolution, the decision of `HandlePrompt` | refined by `PromptAndAnswer` | `PromptAndAnswerProofs` |
| `PromptAndAnswer` | `RecipePipeline` with its texts: the prompt, the answer, the document in it, the message | `recipe_pipeline`, `refusal_told` | `PromptAndAnswerProofs` |
| `Matcher` | `Resolve`, normalization, `levenshtein` | `matcher` | `PromptAndAnswerProofs` |
| `LLMProxy` | handler, router, what adapters make of failures | `llm_proxy` | `LLMProxyProofs` |
| `WSClient` | the reconnecting WebSocket client | composed into `TerminalUI` | |
| `TerminalUI` | `WSClient` with the Bubble Tea model over the bounded channel | `terminal_ui` | `TerminalUIProofs` |
| `Evaluation` | `OutcomeMatch` with the evaluation runner and its exit code | `evaluation` | `EvaluationProofs` |
| `OutcomeMatch` | how a result is compared with an expectation (`check`, `match`) | composed into `Evaluation` | |

`MC*.tla` give the constants small values.

How state and actions correspond to the code:

* A variable is a field or a local that outlives a step (the comment beside it names
  the field), or the place where a goroutine stands (`link`, `pc`, `serve`, `stage`,
  `loop`, `phase`). An action runs from one point at which other goroutines can
  interfere to the next: a lock section, a send or receive, an atomic, a network write,
  an HTTP call. So `Register` in `Hub` is the section under `h.mu` with the
  second check, while `LoadBridge` and `Greet` are two actions, because
  `h.bridgeConnected.Load()` and the write of the greeting are not under one lock.
* What is called inside a section is part of the action: `SweepPending` closes every
  channel and deletes every entry, `Finish` is the deferred reset of `isBusy`.
* A few variables only remember what happened, for properties to refer to: `overlap`
  and `disturbed` (writers and copies that overlapped), `snapshot` (the scene a scan's
  snapshot made), `cut` (attempts that the deadline ended), `begun` and `unfinished`
  (where the user began the line, and the line that has still to come back), `said` (messages of a command), `hasty` (a command submitted
  before the last message of an earlier one).
* A definition whose comment starts with *Mutant:* is no part of the system. It is the
  named definition with a plausible bug; put in its place, TLC finds the property broken.

Three compositions: `TerminalUI` adds the consumer to `WSClient`, `Environment` adds the
users to `EnvironmentCache`, and `CommandSession` puts the three programs and the
middleware together. What `CommandSession` treats as atomic has a module of its own:
admission to the slot (`Hub`), `Run` (`RecipePipeline`), `CallService` (`RosbridgeClient`).

**Refinement.** Three modules implement an abstract one.

* `CallContract` knows which calls have begun, which verdict the middleware gave on each
  and what each returned. A call returns once: with its own verdict, with the news that it failed,
  after which no verdict on it is taken in any more, or with a timeout, which says
  nothing. `RosbridgeClient` implements it (`KeepsContract`); the verdict on a call is read off
  the places where an answer can be: the reader's hand, the channel, the result.
* `CommandService` knows only which commands each connection has in hand and how each
  command ended. `CommandSession` implements it (`ServiceSpec`) under `inHand <- InHand`,
  `outcome <- Outcome`: a command is in hand from the read of its prompt to the deferred
  reset, and its outcome is read off all the messages it sent, as `Ending` lists them. A
  message too many or too few, or a recipe that was not executed, is an outcome
  that the service does not have. No command is taken up twice, a connection has at
  most one in hand, and each ends once.
* `PromptAndAnswer` adds the texts to `RecipePipeline`: each of its actions is one of the
  pipeline with what it does to the texts. That every step is one of the pipeline is
  proved, so the theorems about `RecipePipeline` hold with the texts as well.

## 3. What is abstracted

* `RosbridgeClient`: payloads; the telemetry subscription; the wait before a new dial.
  Middleware and rosbridge_server are external: **they answer an id at most once**, in any
  order, or never. A second answer to an id that is still pending would block the reader.
* `EnvironmentCache`: a list is the number of the scene it was read from. **The terminal UI
  is connected throughout** (its comings and goings are in `Hub`); of the lists, it
  shows the objects. The lists after the objects are a parameter, in the code's order.
* `RecipePipeline`: a document is what the schema lets through; similarity of names is any
  relation (the proofs hold for each), the real one is in `Matcher`. The lists are sets, so
  a name the middleware lists twice counts once, where `Resolve` finds it ambiguous with
  itself. For a list without repetitions the two are proved to agree (`VerdictsAgree`).
* `PromptAndAnswer`: a prompt is a sequence of strings, an answer a sequence of tokens: a
  document of the schema, another JSON object, or a mark (a space, a word, a fence, a brace). Which
  documents the schema lets through is a constant, as the schema library is not modelled; what
  `Validate` reads of the candidate is. A placeholder is one token, so no two texts can form one
  together.
* `OutcomeMatch`: a JSON value is a record with a kind and its parts; keys are numbers in
  their sorted order, and a path is the sequence of keys and positions. `match` is a function on the
  set `Docs` of values, which has all parts of its members and, in `depth`, how deep they are nested. A
  number has a value and a way it is written; one too large for a float is left out.
* `Evaluation`: what the pipeline returns for a case is any of `Results`. Of the
  report, the verdicts, the mismatches and the counts; the renderings are left out.
* `Matcher`: names are sequences of one-character strings; the threshold 0.7 is
  compared in integers.
* `CommandSession`: status messages are left out, as they do not touch the lock. The TUI
  makes a connection only when the slot is free; the refused attempts are in `Hub`.
* `LLMProxy`: of a failure only what the router tells apart: a timeout, a status
  that is retried or not, a failed connection, an unreadable answer. A timeout is the
  request's deadline or a limit of the transport's own, as for a dial.
* `TerminalUI`: the input line is one of a few texts; the log, the detail level and the
  commands that only print are left out.

## 4. The runs

| Run | Instance and bounds | What it shows |
|---|---|---|
| `bridge_calls` | 2 calls, any number of losses and reconnections (58k states) | `ReaderNeverStuck`, `NoStrandedCall`, `PendingAreInCall`, `KeepsContract`; under fairness `LossReleasesCalls` |
| `one_client` | 3 connection attempts, any number of bridge changes (89k) | `SlotIsServed`, `OnlyGreetingMisleads`; `DeadClientReleasesSlot` |
| `hub_bridge_shown` | the same | violated: `ShownIsBridge` |
| `command_session` | 2 commands, 2 connections, restarts and losses at any time (265k) | `OneLiveCommand`, `CopiedAnswerIsOwn`, `RecipeMeansExecuted`, `ServiceSpec`; `CommandsFinish`, `InputUnlocks` |
| `one_recipe_runs` | the same | violated: `OneRecipeRuns` |
| `recipe_pipeline` | 5 names, 2 scenes, bare answers of up to 2 steps and 2 names a step, wrapped answers of up to 2 documents with a token before and after (114k) | `NoGuessing`, `PromptIsFilled`, `DocumentIsFound`, `RecipeTextIsRecipe` |
| `refusal_told` | the same | violated: `RefusalIsTold` |
| `matcher` | written names of up to 4 characters over 3 letters and some of 5, up to 3 of 4 registered names (5k) | `DistanceIsRight` against the least cost of all alignments; `MeaningIsStable` |
| `environment` | 1 command, 1 scan, 1 warm start, the teardown; 3 scenes (3.6M) | `SidebarFollowsCache`, `CommandPlansWithOneScene`, `ScanBracketsSnapshot` |
| `llm_proxy` | 2 requests, every failure at each attempt (20k) | `NoRetryAfterDeadline`; `EveryRequestAnswered` |
| `terminal_ui` | 2 connections, channel of 1, 1 prompt, 1 command, 2 lines of history (208k) | `SendsToLiveSocket`, `DraftKept`, `HeaderTellsStory`; `KeepsTrying` |
| `evaluation` | 17 expectations, each alone and before one of 4 others, against 11 results; two suites of up to 3 cases, or one that does not load (35k) | `FirstDifference` against a definition by paths; `ExitTellsAll`, `SummaryIsRight` |

Each passing run but `matcher` also checks its module's `TypeOK`.

Why the bounds are enough. Every conflict in `RosbridgeClient` is between two calls, or
between a call and the connection goroutine, so two calls show it; connections are
not bounded. In `Hub` the slot must be held by one connection while two others are
past the first check: three attempts. `CommandSession` needs a command that outlives
its connection and one that follows it over the next. In `PromptAndAnswer` one
name has two candidates, one has a single one in one scene and none in the other, and each placeholder of
the template can also occur in what the user types; a document can be preceded
and followed by another one. A channel of one message is full as soon
as the TUI does not drain it; the code's capacity only delays the same behaviour. A
history of two lines has a first, a last and a way between them. A scan needs a scene before, one
after and one between or beyond; three scenes. In `Matcher` names of four characters meet both sides of
the threshold. An expectation with two outcomes meets a result
that fits the first, the second or neither, and a suite that does not load stands before and
after one that does. Where a module has proofs, they need none of these bounds.

`CHECK_DEADLOCK FALSE` is set for the terminal UI, which ends when the user quits, and for
`Matcher`, whose list of names stops growing at the bound. Where a command, a request or the
program is over, the other modules have an explicit idle step, so that every other
deadlock is reported.

## 5. Fairness

Weak fairness only, and only for what the code's scheduling ensures.

* `RosbridgeClient`: goroutines are scheduled; a teardown goes on, a send or a
  select that can proceed does. No answer, no failed read and no timeout is assumed.
* `Hub`: goroutines are scheduled, and a broken socket makes the read fail. The hub
  sets no deadline and no ping; this rests on the peer's close or on the TCP keep-alive that
  Go's listener switches on, so the release of a slot may take minutes.
* `CommandSession`: every wait of a command has a limit (60 s for the HTTP call to the
  LLM proxy, the configured execution timeout for the robot), so its goroutine makes its next
  step; the TUI's timer fires. No message, robot answer or reconnection is assumed.
* `LLMProxy`: the deadline comes, and a done context interrupts the attempt; the
  provider need not answer.
* `TerminalUI`: the client's goroutine and the Bubble Tea loop are scheduled, a dial
  ends, a sleep is over, and a read on a broken connection fails.

## 6. What is proved

TLAPS checks these for every value of the constants: any number of calls, connections,
commands, requests, writers and scenes, any names, recipes and texts. The bounds of section
4 do not apply.

**`RosbridgeClientProofs`** proves `TypeOK`, `OwnAnswerOnly`, `ReaderNeverStuck`,
`NoStrandedCall`, `PendingAreInCall` and `ConnectedHasSocket`. None is inductive by
itself: each relies on the stage of the connection or on where an answer can be. `IInv` adds: the stage of the
connection goroutine determines socket, flag and hand (`LinkInv`); ids are unique
and every entry, request and carried answer bears the id of its owner (`IdInv`);
each call's request is in exactly one place, the middleware, the reader's hand, the channel
or gone (`TokenInv`), which is why the reader always finds an empty channel; and a
channel is open as long as its entry has not been swept (`OpenInv`). With these
`NoStrandedCall` is inductive: a call registers before it sends, so
a sweep either finds its entry or is over before the call sends, which then fails or goes
over the next connection.

The same module proves that `RosbridgeClient` implements `CallContract`. The result of a
call bounds what may still be in flight for it (`ResultInv`): after a verdict or a
failed send there is nothing, and after a close the channel does not take anything
in. The contract's verdict on a call is then the one that `OwnVerdict` looks for
only where it can be, and each step moves it as the contract allows.

**`HubProofs`** proves `TypeOK`, `SlotIsServed`, `OneServed` and `OnlyGreetingMisleads`.
`SlotIsServed` is inductive, as a connection takes the slot only when it is free and is the
only one to give it up; `OneServed` follows. `OnlyGreetingMisleads` needs two
more facts: a connection that registered after `SendToClient` had picked another target
has read, or will read, the state that is being pushed (`LateComers`); and without a push
that is still to come a client shows its greeting or the bridge's state (`Shown`).
`ConnectionsServedOnce`: a `ServeClient` goroutine only goes on, gives up the slot at its end only, and a
socket that was lost stays lost.

**`CommandSessionProofs`** proves `TypeOK`, `OneLiveCommand`, `RecipeMeansExecuted`,
`CopiedAnswerIsOwn` and `ServiceSpec`. A prompt on its way is in one place of one queue
(`QueueInv`); a connection that is served, or has not given the slot up, holds it
(`SlotInv`); a command in hand keeps its connection busy and alone, and
outlives it only when it is cancelled (`HomeInv`), which gives `OneLiveCommand`; the
messages sent and the robot's verdict fit the command's stage (`SaidInv`); and unless the
user was hasty, all that the TUI has not heard yet is about its current command (`HeardInv`). For the
refinement, `ReadPrompt` of an idle connection maps to `Accept`, the deferred reset to `Conclude` with
the outcome that `SaidInv` leaves, and every other step to a stutter. Behind the liveness of the session
are three more: the input is locked only while the timer that unlocks it is set (`LockIsTimed`), a
connection is busy only while a goroutine that will reset it exists (`BusyInHand`), and
no step takes a command back, while each step of its own brings it nearer to its end (`CommandsGetOn`).

**`PromptAndAnswerProofs`** has four parts.

*The pipeline.* `TypeOK`, `OnlyRegisteredNames`, `NoGuessing`,
`RetryIsJustified` and `RetryNeverHidesRefusal` of `RecipePipeline`. First, about the operators: without a
fault, `Rewritten` replaces every name by its only candidate (`RewrittenResolves`); when
there is a fault, a first one exists (`FirstExists`, from the well-foundedness of the
naturals), so a refusal is well-formed (`ResolveType`). The inductive invariant ties the
stage to the number of requests and the refusal (`StageInv`, `RetryInv`) and says that a
successful result resolves the last answer in the scene of the command (`ResultInv`). Each step with
texts is one of the pipeline (`TextStep`), so these theorems hold with the texts as well.

*The answer.* `RecipeTextIsRecipe`: the text that the robot and the terminal UI are given is the
resolved recipe, and not the text of the answer. `DocumentIsFound`: every cut of `extractJSON`,
of spaces (`TrimSpaceCuts`), of a fence (`TrimFenceCuts`) and at the first and the last brace
(`BracedIs`), leaves a window of the text that still holds its only document, so that nothing but the
document is left (`ExtractIs`), and the stages after it lose nothing (`AnswerInv`).

*The prompt.* `PromptIsFilled`, for any template, command and lists. It says
that the seven replacements of `buildPrompt`, one after the other, do what one replacement of all
placeholders does, which needs an induction over the template.
The library's induction takes a predicate; `SequencesBySteps` takes the set of the sequences that
have the property instead, and rests on the least element of a set of naturals. With it,
flattening is piece by piece (`FlatMapIs`), so `Fill` treats the parts of a text separately
(`FillConcat`); the values of the scene hold no placeholder, as no registered name is one, and the command
goes in last, so that what the user typed is not filled in again (`BuiltIsFilled`). `PromptInv` says what
has been sent at each stage.

*The matcher.* Also with `SequencesBySteps`: the candidates of a list are those of its parts
(`CandidatesAre`), so one more name, at any place, adds at most itself (`CandidatesInsert`). Hence
`MeaningIsStable`: what a written name means does not change silently to another
name, for any distance and any threshold. `VerdictsAgree` ties `Matcher` to
`RecipePipeline`: on a list without repetitions, `Resolve` gives what `Candidates` and
`Unique` say. `DistanceIsRight` holds for words of any length: the rows that `levenshtein` reuses are one
table (`RowIs`, `TableIs`), whose entry at i and j is what the best alignment of the first i characters of
one word with the first j of the other costs (`EntriesAreLeast`). For an alignment
either leaves out one of the last two characters, or aligns them with each other (`Shorter`), and each of these
three is one of the entries of which `levenshtein` takes the least (`Wider`, `Longer`, `LeastStep`).
`Matcher` is extended together with the pipeline here, hence the names of its specification.

**`TerminalUIProofs`** proves `TypeOK`, `SendsToLiveSocket`, `DraftKept` and `HeaderTellsStory`
of `TerminalUI` with its `WSClient`. `LoopInv` says where the client has a connection and where an
envelope. For `DraftKept`, outside the history no line has still to come back, and inside it the line
that is shown was not begun outside, so that the draft stored on the way in stays the one to
come back (`DraftInv`). For the header,
the story is what Update has handled last, what it holds, what is in the channel and
what the client is about to put there. Each envelope in it comes from the connection of which the
story spoke last, and at its end the story speaks of the connection that the client is
reading (`StoryInv`); so no message of a lost connection follows the news of the next
one, for any capacity.

**`LLMProxyProofs`** proves `TypeOK` and `NoRetryAfterDeadline`. A request waits only for its second
attempt, and its first one was then not ended by the deadline (`StageInv`), as a
failure is followed by a wait only with a context that is not done. `AnswerIsOfLast`: the caller hears of
the last failure, each one before it was worth another attempt, and the error the router returns is never
missing. `RequestsGetOn`: a request takes at most five steps to its answer.

**`EnvironmentProofs`** proves `TypeOK`, `SidebarFollowsCache`, `CommandPlansWithOneScene`
and `ScanBracketsSnapshot`, for any number of lists after the objects (the run has one). The place
of a writer determines its call and what it carries (`StepInv`). As long as no two
writers have overlapped, the one at work has replaced exactly the lists it has passed
and shown the objects, and between writers all lists are of one scene (`CacheInv`). A copy
that no store has disturbed is the beginning of the cache (`CopyInv`). The readings of a
scan and its snapshot are ordered by the phase (`ScanInv`), and that
the count of unchanged objects adds up is a fact about cardinalities.

**`EvaluationProofs`** proves `TypeOK`, `ExitTellsAll`, `SummaryIsRight` and `FirstDifference`, for any
suites, any results and values of any depth. The exit code and the summary are of a run that has ended, so the invariant says
how far a run is: its place is in a suite that has loaded (`PlaceInv`); the report has
each case before the place, once, and no other (`ReportInv`); there are as many failures as
failed cases and suites that did not load before the place (`CountInv`); and a run ends
with a summary of everything, at its start, or before a case (`EndInv`).

`FirstDifference` compares the walk of `match` with a definition without one: all places of the expected
value, what each asks of the whole result, and which path comes first. The report has
the verdicts of `check` (`CheckedInv`), so what is left is about data. `match` and `Places` are
recursive functions, which TLA+ takes to be some function that satisfies the equation, if there is one.
`RankRecursion` constructs one for every equation that goes down a rank, by the least counterexample
in place of induction over an operator, and `MatchIs` and `PlacesIs` follow. `DocInduction` goes from the parts of a
value to the whole: below a part, the whole misses exactly what the part misses itself
(`MissedAbsent`, `MissedThere`, `MissedGone`), a part that comes first has the first of these paths
(`PartPrecedes`), and so each loop of `match` returns the first mismatch (`LoopIsRight`).

`OwnAnswerOnly`, `ConnectedHasSocket`, `OneServed`, `OnlyRegisteredNames`,
`RetryIsJustified` and `RetryNeverHidesRefusal` are in no run: the proofs need them on the way, and a
stronger property that is checked covers each. `ConnectionsServedOnce`, `LockIsTimed`, `BusyInHand`,
`CommandsGetOn`, `AnswerIsOfLast` and `RequestsGetOn` are defined beside their proofs and are in no run: they
are the part of the liveness properties that can be proved, that what has to be left can be left only forwards,
and leave to fairness that the next step is taken.

Assumptions, each evaluated by TLC in the runs of its module: `None` differs from the values it
stands beside (`NoneAssumption`, `NoneIsNoHand`, `NoneIsNoConn`, `NoneIsNoDocument`); the bounds of
`CommandSession` are positive (`BoundsAssumption`); the teardown is no caller, scenes are
numbered from 1 and have finite sets of objects, and the lists after the objects have names of their
own (`BridgeIsNoCaller`, `ScenesAreMany`, `ScenesHaveObjects`, `PresetsAreLists`);
commands and scans are different callers (`CommandsAndScansAreCallers`); similarity
relates names (`SimilarAssumption`); recipes and scenes are of their types
(`RecipesAssumption`, `ScenesAssumption`); no registered name is a placeholder
(`NoPlaceholderIsAName`: a placeholder stands in braces, which names do not have); the template and the commands are
sequences, lists of names are finite, and answers consist of tokens (`TextsAreSequences`, `ListsAreFinite`,
`TextsAssumption`); connections and
capacity are at least one and kinds of envelopes are finitely many
(`BoundsArePositive`), and none of them is the client's own `Connected` or `Disconnected`
(`KindsAreOfEnvelopes`); prompts, slash commands and the empty line differ (`TextsDiffer`); suites
are lists of cases (`SuitesAssumption`), cases accept values and results without an error have one
(`CasesAssumption`, `ResultsAssumption`), and a value is of one of the kinds of JSON, its parts being
values that are less deep (`DocsAssumption`); names are words and their number is bounded by a number
(`NamesAreWords`, `MaxNamesIsNat`).

Only model-checked: liveness (`LossReleasesCalls`, `DeadClientReleasesSlot`, `CommandsFinish`, `InputUnlocks`,
`EveryRequestAnswered`, `KeepsTrying`). Fairness is stated with `ENABLED`, about which
the prover does not reason. The measures above say that there are finitely many steps to take; that they
are taken is what TLC checks.

## 7. What is not modelled

* The schema library: which documents pass is a constant. The wording of the prompt is data.
* Provider adapters: only what they make of failures; the bodies are data.
* View, message decoding, and the TUI's three HTTP calls, whose effect is in `Environment`:
  formatting and layout.
* In the TUI, the log, the detail level, the hardware lines and the commands that only print.
* `InfoHandler`, which only reads the configuration and the hub's counters.
* Server wiring, shared configuration and logging, `run.sh`: startup without shared state. Of
  `cmd/server`, the evaluation and its exit code are in `Evaluation`.
* Writes that block: `Hub` and `RosbridgeClient` take a write to a socket to end. The read
  loop of the rosbridge client writes telemetry to the terminal UI itself (client.go:296,
  hub.go:273), so a terminal UI that hangs would delay the robot's answers until TCP gives up.

## 8. Where documents and code differ

Each of these is a run with a counterexample:

* `hub_bridge_shown`: running.md:98 says that the header shows `bridge: disconnected` while the
  bridge is down. `ServeClient` registers, loads the state and writes it
  (hub.go:166); a change in between is pushed first, and the older greeting stays.
* `one_recipe_runs`: terminal-ui.md:62 says that one command runs at a time. `isBusy` belongs to
  the connection and to the wait, not to the robot: after a loss or a timeout the next
  recipe is sent while the first one still runs.
* `refusal_told`: interfaces.md:79 says that a refusal is followed by a `log_event`
  message. `Validate` decodes the first JSON value of the candidate (validator.go:41), but `Run`
  and the retry send the whole candidate (pipeline.go:158, retry.go:102). With text and a closing
  brace after the refusal the message cannot be encoded, and nothing is sent.

Seen on the way, without a run:

* terminal-ui.md:89 says "The unfinished line is kept". The draft is stored only when `historyIndex`
  is -1 (model.go:526). A line that is typed inside the history is not: recall an entry, erase
  it, type another line and press an arrow key; change a recalled entry and press one; or submit a "/" line
  inside the history, which leaves `historyIndex` there, type the next line and press one. That line is gone.
  `DraftKept` states what is left of the promise: a line begun outside the history comes back.
* terminal-ui.md:80 says that `/copy` takes the last command and its answer. A command
  submitted between the `action_recipe` and the `log_event` of the one before takes that
  `log_event` for its answer (model.go:348). `CopiedAnswerIsOwn` has this exception.
* interfaces.md:100 gives 504 for a provider that timed out. A deadline that falls while
  the body is read is a plain error (provider.go:112), and is answered with 502.
* A suite that does not load counts as a failure but not as a case, so the number of passed
  cases in the report is too small and may be negative (eval.go:147). `SummaryIsRight` states
  the counts as they are.
* model.go:577 says that a hardware line is recorded when the status changes, capped
  to a number of lines. A status that ends the last line is dropped, and no cap exists.
* After a lost connection the TUI dials at once, where terminal-ui.md says that it waits 1 s; a
  `Close` during a dial leaves the new connection open (ws.go:169), just before the program exits.

## 9. Plan

Order of the work, the most important behaviour first:

1. Done: the calls over rosbridge with their contract, the hub, the command session with its abstract
   specification, the pipeline and its texts, the LLM proxy, the terminal UI, the cache, the matcher,
   the evaluation runner; the proofs of section 6, which state every safety property of the passing runs.
2. Next compositions: `Hub` and `CommandSession` joined, with the slot's two checks, the
   commands and the telemetry in one model; `RosbridgeClient` and `Hub` joined, with writes that block.
   `CommandSession` over `CallContract`, in place of its own call of the middleware.
3. Next proofs: the bridge state of `Hub` and the commands of
   `CommandSession`, once they are in one model.
