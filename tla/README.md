# unified_local_llm_server in TLA+

`unified_local_llm_server` is a Python library that talks to local LLM servers
(Ollama, llama.cpp, LM Studio, Unsloth) through one interface. This directory
holds models of it, the TLC runs that check them and proofs about them.
All line numbers are of `src/unified_local_llm_server/pool.py` unless a file is
named.

## The system

| Component | State it keeps | Operations | Works with |
|---|---|---|---|
| `LLMProviderPool` (handle), 385-442, 1069-1090 | provider config, `_active_server_config`, `_server_defaults`, remembered model | `get_provider`, `configure`, `load_model`, `_call` | makes `LocalLLM`s; one handle per `get_provider` call |
| `LocalLLM`, 60-379 | model name, load and server parameters, defaults | `call`, `batch` | `_call` of its handle |
| Inference call, `_call` step 5, 1456-1636 | messages of the attempt, tool round, two retry counters | request, tool round, loop retry, JSON retry | tool pipeline, loop guard, JSON repair, transport, logger |
| Tool pipeline, `pipelines/tool.py` | none | normalise, execute, build messages | the caller's handlers |
| Loop guard, JSON repair, `pipelines/` | none | judge a text, build a correction | called by `_call` |
| Server parameters, `_call` step 3 and `restart`, 935-1061, 1402-1429 | `_active_server_config`; on disk a systemd drop-in | compare, write drop-in, restart, poll, remove, commit | a worker thread per call; systemd |
| Model loading, `_call` step 4, 753-910 | none; the server's loaded models | check, load | a worker thread per call; the server |
| Stream assembly, `_stream_chat_sync`, 622-751 | content, reasoning, tool calls so far | one chunk | transport, logger |
| Request building, 208-379, 444-558, 1294-1342, 1503-1543 | the handle's fields, defaults and options | merge, build a payload or Ollama's body | from `configure`, `load_model`, `batch`, `call` to `_call` |
| Provider registry, `provider_registry.py`, `providers.py`, 498-523, 1063-1090 | the entries of the configuration file | look up an entry, make a pool or a handle for it | pools and handles |
| Model management, 912-933, 1096-1272 | none | list, unload, check | every provider in turn, one request after another |
| Logger, `llm_logger.py` | counters and flags of the call being logged, the file | `log_request`, chunks, `log_end` | shared by all calls of a pool; a lock |
| Setup script, `scripts/setup_service_restart.sh` | on disk unit files and a polkit rule | one run | systemd; makes `restart` possible |
| Transport, client, types | configuration only | HTTP, parsing | everything |

Calls are coroutines of one event loop; whatever blocks (restart, loading,
requests) runs in a thread of the default executor. Coroutines interleave at
every `await`, threads anywhere. What makes it hard:

- state compared before an `await` and updated after it (1426-1429);
- one file on disk shared by all restart threads (993-1020);
- a check and a load that are two requests to a server others use too (850-910);
- one logger, with the state of one call, under all calls (`llm_logger.py`, 72-80);
- a coroutine that is cancelled while its thread runs on (1428, 1526);
- a service that is restarted under calls it is serving;
- three nested retry budgets over one conversation (1472-1621);
- tool handlers whose effects cannot be taken back (1558);
- servers that fail between the requests of one operation (1178, 1207);
- four layers of arguments with one precedence for each kind (208-379);
- text that is only almost JSON, and text that only almost repeats itself;
- a semaphore and `gather` whose tasks outlive the call that made them (327-334).

What each component has to keep is stated by the properties below; the hazards
in `PROJECT.json` say which line each of them is about.

## Modules

| Module | Models | Checked by | Proved in |
|---|---|---|---|
| `BoundedCall` | the promise of one call, abstractly | as `Contract` of `GenLoop` | |
| `GenLoop` | `_call` step 5, tool pipeline, verdicts of the two judges | `MCGenLoop` | `GenLoopProofs` |
| `ServerRestart` | `_call` step 3 and `restart`, several calls and handles, one service | `MCServerRestart` | `ServerRestartProofs` |
| `BoundedMap` | the promise of a batch, abstractly | as `Promise` of `Batch` | `BatchProofs` |
| `Batch` | `LocalLLM.batch` | `MCBatch` | `BatchProofs` |
| `ModelLoad` | `_call` step 4, `_ensure_*_loaded`, several calls and one server | `MCModelLoad` | `ModelLoadProofs` |
| `StreamLog` | `_stream_chat_sync`, the logger, and what `_call` logs around a stream | `MCStreamLog` | `StreamLogProofs` |
| `Requests` | what `configure`, `load_model`, `batch` and `call` give, merged, and the request made of it | `MCRequests` | `RequestsProofs` |
| `Providers` | registry, pools and handles; checking, listing, unloading over servers that fail | `MCProviders` | `ProvidersProofs` |
| `JsonRepair`, `Schema`, `LoopGuard` | how a reply is read, validated and searched for loops: operators | `MCReplyText` | |
| `JsonReply` | a structured reply while the model writes it | `MCReplyText` | `RequestsProofs` |
| `LoopText` | a looping text while the model writes it | `MCReplyText` | `GenLoopProofs` |
| `ReplyText` | the two and answers to a schema, each judged by the three | `MCReplyText` | |
| `Setup` | the setup script, its failures and repetitions | `MCSetup` | `SetupProofs` |

`GenLoop` is one call from its start to its end; the steps before the loop are
its action `Setup`, what they do to the server is `ServerRestart`. `Batch` uses
of a call only that it ends, which is part of `Contract` of `GenLoop`. `ModelLoad` is the
step between `ServerRestart` and `GenLoop`; `StreamLog` opens up `GenLoop`'s `Send`
to `FinalReply` and reduces what follows to accept, reject or tool round. `ReplyText`
opens up the verdicts `GenLoop` takes for granted, `Requests` the arguments `ServerRestart`
and `ModelLoad` start from, `Providers` the server they talk to, and `Setup` the kinds
of host `ServerRestart` may find.

### GenLoop

`pc` is the stage the coroutine is in, the other variables are `_call`'s locals
(`toolRound`, `loopUsed`, `jsonUsed`, `msgs` for `attempt_messages`, `toolCalls`,
`execs` for `executions`). `asked` and `ran` are histories: requests sent, and
handlers invoked. A reply is what control looks at: its tool calls, and whether
its text loops and parses. One action per await or branch: `Send`,
`TransportFails`, `FinalReply`, `RoundsExhausted`, `ToolReply`, `RunTool` (a
handler from its call to its result), `FinishTools`, `LoopRetry`/`LoopFails`,
`JsonRetry`/`JsonFails`, `Return`, `Cancel`. `NoRequest` is the inner loop
without an iteration, for a negative `max_tool_rounds`.

### ServerRestart

`pc[c]` follows call `c` through compare (`Check`), the thread (`write`,
`restart`, `poll`, `remove`), `commit` and the request. `active` is each handle's
`_active_server_config`, `dropin` the override file in the user's and in the
system's directory, `env` what the running service was started with, `host` the
kind of unit and the directories this process can write to (fixed). A file
operation and its `daemon-reload` are one step. Systemd and the service are
external: a restart takes over the drop-in of the unit's own scope and cuts off
requests, and on every host it may fail (`RestartFails`), before it touched the service or
after. `refused` is a history: the call whose restart failed, if the last one did; the
code forgets it (1428 drops what `restart` returns). A machine without `systemctl`, and drop-in directories that fail with
anything but `PermissionError`, are left out.

### Batch

`task` is each item's call, `permits` the semaphore, `ended` the order in which
calls ended. `asyncio` is external: a fair semaphore, and a `gather` that hands on
the first exception, and cancels its tasks only if it is cancelled before that.

### ModelLoad

`memory` is what the server has loaded and under which parameters, `asked` what
each call wants (fixed). A call looks and decides in one step: `Skip`, or `Post` a
load of the form `how[c]` records; `PostUnlisted` is LM Studio's failed listing,
which reads as an empty one. The load then waits in `pending` for the server, which
may carry it out (`Loads`), keep what it has (`KeepsLoaded`) or refuse, also after
the call gave up (`Abandon`). Then `Chat` and `Answered`. `Sufficient` holds the early
returns of the three `_ensure_*` methods. The servers are external, and do whatever the
code does not exclude; `Unload` is an unload by others. `disturbed` is a history: the
calls that were between their look and their request when the server changed.
Parameters are reduced to the context size, which each method treats apart, and
the rest together. Ollama takes its parameters with each request: nothing is asked, and the
preload before each request (1517-1518) carries the options of the request itself, so it is
part of `GenLoop`'s `Send`.
`Model(c)` is the model as the server knows it: for Unsloth a file, which `Located` gives
for each name, a path or `repo@quant` (596-620; that none is found is `CheckFails`).
`ViaCLI` is LM Studio's `lms` command, which loads without asking what is loaded.

### StreamLog

`log` is the object all calls share: the call number, three flags, and the file
as a sequence of entries. `reply` is what a stream's thread has assembled, `thread`
whether it still runs, which it may when its coroutine is gone (`Cancel`). A delta
is one step, a wire line with several deltas several. Tool calls come in fragments:
OpenAI's carry an index, Ollama's list is counted within its line (`IndexOf`).
`meant` (what the model put into its tool calls) and `mixed` (the records in which a call
wrote that does not own them) are histories. When a stream ends without reasoning of its
own, `Normalized` takes that from a `<think>` block at the start of the content, which the
log has under `[MESSAGE]` by then. An `|INFO|` entry stands for all lines of one `log_info`.
`Record` and `Tells` say, for the property, which entries belong to a request and that
they are a given text. Left out: decoding, usage, context labels, message references.

### Requests

A setting is a place and a key: a keyword argument, or a key of `options=` or
`load_params=`. What a layer passes is a set of settings (`given`); a dictionary maps its
keys to the layer that gave the value, and `update`, `setdefault` and `{**a, **b}`
are all `Over`. `Configure`, `LoadModel`, `Call` and `Send` are the four places where
dictionaries meet, `Done` frees the handle for its next call. `CallWith` refuses an
argument `_call` does not know, as Python does. Messages, effort and schema prompts, which
no layer overrides, are left out.

### Providers

`registry` is the configuration file, `pool` and `handle` what the program holds, `condition`
and `loaded` the servers, `op` the operation under way: the providers still `todo`,
the `target` whose models are being unloaded and those `pending`, and the results.
`Fetch` is the request that begins a provider's turn, `Unload` one unload request;
between any two of them a server may fail, recover or be loaded (`Turn`, `OthersLoad`).
An address stands for host, port and key. The listing of a provider is one request,
also where the code makes two; reading YAML and environment variables is left out.

### ReplyText, JsonReply, LoopText and the operators they judge by

Pure functions, as operators over sequences of characters. What has no meaning
to the scanners is one character; `<think>`, a code fence, `true` and `True` are one
each, and a run of digits is one to the detectors. `JsonRepair` is the cleanup of
`json_fix.py`, step by step, with `json.loads` and `ast.literal_eval` as one automaton
(`After`), which knows strings between apostrophes as Python does; `Schema` is `pydantic_helper.py` and the validation, with Pydantic's conversions
as a table; `LoopGuard` is the five detectors with their thresholds as constants.
`JsonReply` and `LoopText` write the inputs: each action adds what a model could write
next, and `doc`, or the unit and how often it was repeated, keeps what was meant, so that
the properties compare what is read with what was written. Prose may hold brackets, quotes,
comment marks and fences, and a string any mark the cleanup looks for; that a document is
recovered from all of it is not so, and two definitions say where it is:

- `Harmless` prose lets the document be found: no bracket stands before it, and no string or
  comment is begun and not ended there, as a quotation mark or a URL does. Where the reply
  has two fences this is asked of what is between the first and the document.
- A `Fragile` document has in its strings what is taken for something else. Four rewrites do
  not stop at strings (thought blocks, fences, commas before a closer, `true` made `True` for
  Python's parser), and the scanners take strings between apostrophes for code: a quote, slash
  or bracket in one is taken for what it looks like.

`ReplyText` puts them
together and adds answers to a schema. `Schema` has RECURSIVE operators, so `ReplyText` has
no proofs; the parts without `Schema` are proved about where their verdict is used:
`LoopText` in `GenLoopProofs`, `JsonReply` in `RequestsProofs`.

### Setup

One action for each command of the script that changes something: a file is opened
before it is written, and `CutShort` (a failing command under `set -e`, or a signal)
may come between. `file`, `known` and `rule` are what is on disk and what systemd has
read of it. Between runs the user installs providers and edits `providers.yaml`.

## Runs

| Run | Shows |
|---|---|
| `gen_loop` (318,665 states) | all properties of `GenLoop`, and that it implements `BoundedCall` |
| `restart` (293,640) | three calls, two handles, four kinds of host, restarts that fail, cancellation, one outside restart: drop-ins always go, the service never runs a mixture, calls end |
| `restart_in_turn` (1,961) | one handle, four kinds of host on which an override is written where the service reads it or no restart is possible, calls in turn that set every parameter: a request is served under what its call wanted or, restarts failing, what the last failed restart was for; no restart is tried without need |
| `batch` (6,284) | slots, results, that everything ends, and that it implements `BoundedMap` |
| `model_load` (1,557,224) | three calls, two models, one of them under two names, each kind of server: an undisturbed call is served as it asked, only a demanded reload cuts others off, Unsloth is not reloaded without need |
| `stream_log` (2,305,128) | two calls, overlapping or in turn: footers, headings, a record nobody else wrote in tells the reply, tool calls are not merged |
| `requests` (262,762) | every argument and option reaches `_call` from the layer nearest to the call; of the generation limits given under three names the first name's is sent, from its nearest layer |
| `providers` (1,089,834) | an unload of everything reports on every provider, leaves only what others loaded, and a pool of an entry named like its kind stays with its server |
| `reply_text` (726,825) | a document that is not fragile is recovered from harmless prose, answers are judged as their description says, loops do not go unnoticed |
| `setup` (2,365,296) | unit files are never overwritten, and a run that ends well leaves all in place |

Two runs end in a counterexample; each is a statement of the documentation the code does
not keep (`findings` in `PROJECT.json`):

- `restart_together`: calls in flight together, as `batch` sends them, restart the service one
  after another for the same parameters, under each other's requests (README.md:226, "no restart
  if the config is already current");
- `request_arguments`: model, temperature and tools given to a call are not always sent
  (the handle's model always wins; Ollama's body has no temperature argument and no tools).

### Statements that do not hold

Further statements of the documentation hold under conditions only, or not at all. They are
not among the runs; each has a configuration whose run ends in a counterexample:

| Configuration, of module | Property | What the code does |
|---|---|---|
| `MCGenLoopTrips`, `MCGenLoop` | `ToolTripsWithinMax` | `max_tool_rounds` holds per attempt, not per call |
| `MCRestartFails`, `MCServerRestart` | `ServedAsWanted` | a restart that fails is remembered as done (1429), and requests are served without the parameters, which README.md:226 says take effect |
| `MCRestartSystemUnit`, `MCServerRestart` | `ServedAsRestarted` | with a system unit and an unprivileged user the override has no effect, and is remembered as applied |
| `MCRestartPartial`, `MCServerRestart` | `ServedAsRestarted` | a call undoes what earlier calls set |
| `MCRequestLimits`, `MCRequests` | `CallLimitWins` | a call's `num_predict` loses to a `max_tokens` that `load_model` was given (1394: the name decides before the layer), though the names are aliases (147-148) and "Per-call values win" (README.md:287) |
| `MCBatchRaise`, `MCBatch` | `NoCallAfterRaise` | `batch` does not cancel the remaining tasks when it raises |
| `MCModelLoadLMStudio`, `MCModelLoad` | `SizeAsAsked` | LM Studio's model is not reloaded for another context size (150 lists it among the servers that are; 813-815 returns as soon as it is loaded) |
| `MCNamedServer`, `MCProviders` | `NamedServerUsed` | `load_model` with a connection argument, `load_timeout` included, loses the address of the entry it names (498-523) |
| `MCJsonSchema`, `MCReplyText` | `JsonSchemaHonoured` | a JSON Schema passed as README.md:415-433 shows is taken for an example of the answer, so the answer it describes is rejected |
| `MCAnswerSchema`, `MCReplyText` | `AnswerFitsDescription` | if all fields are described by one type, `{}` passes for an answer, though fields described by a type are required (pydantic_helper.py:44, README.md:457) |
| `MCStringComments`, `MCReplyText` | `CommentsSpareDocument` | comment marks in a Python string between apostrophes are taken for a comment, and the document loses its end (json_fix.py:46-47 says they are not) |
| `MCDocumentFound`, `MCReplyText` | `DocumentFound` | prose that is not harmless loses the document: `see http://x: {"a": 1}`, `[1] {"a": 1}` |
| `MCDocumentKept`, `MCReplyText` | `DocumentKept` | a fragile document is altered or lost, as `[']']` |

`restart_in_turn` differs from `MCRestartSystemUnit` and `MCRestartPartial` in one
assumption each (host, partial parameters), so neither can go; `MCRestartFails` has its constants
and asks for more, that no request is served without its parameters.

Three properties exempt what the code leaves open. `ServedAsAsked` says nothing of a call that
was between its look and its request when the server changed (`disturbed`): two calls that load
LM Studio's model twice, reload llama.cpp's under each other or change Unsloth's between
check and request are in the model, and none of its properties forbids it. `OnlyDemandCutsOff`
allows the reload a call with parameters demands. `DoneMeansReady` promises only the rule after
a run that was cut short.

README.md:440-453 describes five detectors and six `LOOP_GUARD_*` environment
variables. The detectors in `loop_guard.py` are others, and it reads other names
(`LOOP_WINDOW` and so on); `LoopGuard` follows the code.

### Bounds

- `gen_loop`: budgets -1..2 for tool rounds and 0..2 for each kind of retry with at
  most `MaxToolTrips` = 4 tool rounds in all, so that two attempts can each use two;
  bursts of a named call, of a nameless before an unknown and an id-less one, and
  of nothing but a nameless call. Each counter reaches zero, its limit, and the
  step that would exceed it.
- `restart`: three calls are enough for a thread to meet a file written by one
  and removed by another; two agree and one differs; two handles; `MaxOutside` = 1
  restart by others. Four kinds of host: root's system unit is to the system's directory what a
  user's unit is to the user's, and a unit nobody may restart does nothing that a failing
  restart does not; `restart_in_turn` has both.
- `batch`: four items over at most three slots, so that items wait, overlap and
  are left over; concurrency 0 and one malformed item are rejected.
- `model_load`: three calls (one serving, one loading, one late), two models so
  that Unsloth's change hands, a third name for one of them, two values of each parameter, `MaxUnloads` = 1. The calls
  are symmetric: nothing tells them apart but what they ask for.
- `stream_log`: `MaxRequests` = 3, so that one call asks again while or after another
  asks once; `MaxDeltas` = 3 over all streams, enough for both kinds of text and back,
  or for two tool calls with their pieces crossing; `MaxParts` = 2 pieces each.
- `requests`: programs of up to three settings of one group (limits, sampling,
  loading, server parameters), or two of different groups, each of which any of the layers
  may give; groups hold the keys that can meet on their way. Three kinds of server.
- `providers`: four servers and an alias; two models, one of them loaded twice by LM
  Studio; `MaxEvents` = 2 failures, recoveries or loads by others, enough for a server
  to fail between listing and unloading and to come back.
- `reply_text`: `MaxStructured` = 7 characters, enough for a string with a bracket or a
  comment mark inside a document with something around it, at most `MaxProse` = 4 of them prose:
  two fences, and a bracket, a quote or a comment mark beside them; answers of `MaxMembers` = 2
  members under 11 descriptions of each; units of three characters repeated to `MaxLooping` =
  30, with thresholds scaled to that length (`LoopGuard`'s assumption keeps their
  proportions) and `Settled` = 24. A unit longer than the look-back allows is never
  noticed, by design of the detectors.
- `setup`: four services, one each of: Ollama's, two with a template, one without;
  `MaxRuns` = 3, so that a run meets what a run cut short and a run after it left.

### Fairness

`GenLoop`: weak fairness of the call's next step. Requests end by an answer or at
the transport's timeout (transport.py:158, 191) and the event loop runs ready
coroutines; handlers are assumed to return. `ServerRestart`: the same per call;
`systemctl` is assumed to return, and polling ends at its deadline (1043). The
service itself has no fairness: it may stay down for good. `Batch`: calls end and
ready tasks run. Cancellation and failure are never forced. `ModelLoad` and
`StreamLog` assume none and state safety only: a server may keep a load pending, or
a stream open, for ever. The remaining modules are sequential programs, or one
operation after another, and state safety only.

## Proofs

For all values of the constants (budgets, replies, numbers of calls, handles,
items), from the named assumptions of the modules:

- `GenLoopProofs`: `TypeCorrect`; `RequestsAreBounded`; `OutcomesAreJustified`;
  `HistoryIsKept`; `CallIsBounded` (the safety part of `Contract`).
  `RequestsBounded` is not inductive. `BudgetInv` says how much of the product
  has been used: whole attempts by retries, and the rounds of the present one.
  `Normalize` is a recursive function over a reply; that it yields tool calls is
  proved by induction over its length (`BoundedInduction`, from the well-founded
  order of the naturals, stated over a set).
  `RepliesAreAccounted` from `Accounted`, which counts the messages of each role at every
  stage; `EffectsAreRecorded` from `EffectsInv`, which adds that no execution is left
  over when a round has become messages. `ToolRepliesArePaired` needs most: a round is only
  paired when it is over, so `PairedInv` adds `Underway`, that the executions so far are
  those of the first tool calls of the reply, in order, and the queue holds the rest. That
  normalising twice changes nothing is a lemma about `Normalize`.
- `GenLoopProofs`, loop guard: `LoopsAreNoticed`, for every beginning, unit, threshold and
  length of the reply. `CountIsMost`: the greedy count finds as many places as there are that
  do not overlap, so `SequenceLoopIsRepetition`: the sequence detector reports a text if and
  only if its last window stands in the look-back often enough. A reply that repeats a unit is
  periodic, one that counts on is periodic once its numbers are taken off, and a periodic
  text holds its last window that often. `SettledAssumption` asks that the unit fits the
  thresholds (`Noticeable`); `DefaultsNotice` proves this of the code's default values for every
  unit that is there again within 1260 characters (a number counted as one).
- `ServerRestartProofs`: `TypeCorrect`; `DropinsAreRemoved` and
  `ServiceRunsOneCallsParameters`. `NoLeftover` alone does not say whose parameters a file
  holds; `DropinInv` does, and gives the second theorem.
  `ServedInTurn` and `RestartsInTurnAreNeeded` assume `InTurn`: one call at a time, no
  cancellation, nobody else who restarts the service, all calls through one handle and with
  the same set of parameters, and hosts where the directory `restart` picks is the one the
  unit reads, or where no restart is possible. Restarts may fail, anywhere and any number of times,
  with the service restarted or not. The constants of `restart_in_turn` satisfy it;
  `MCRestartSystemUnit` and `MCRestartPartial` break one conjunct each. Under `InTurn`,
  `OneAtATime` and `CurrentInv` are inductive: what the handle remembers is what the service
  runs under or, if the last restart failed, what that was for (`refused`); between a restart and
  its commit the same holds of what the call wants.
- `BatchProofs`: `TypeCorrect` and `SlotsAreConserved`, proved together because the
  semaphore's bound follows from the calls that hold it; `ResultsAreOutcomes` from
  `EndedInv`, which says that `ended` lists exactly the calls that ran to an end;
  `BatchIsBoundedMap`, the safety part of `Promise`, step by step under these invariants.
- `EveryStepComesCloser`, of each of these three: a termination measure. Every step
  uses up something that is a natural number and leaves alone what counts more: retries,
  rounds, stages, tool calls of a call; outside restarts, stages of all calls,
  cancellations, starts of the service; stages of a batch, calls waiting, calls running.
  It is the half of `Contract`, `CallsFinish` and `EverythingEnds` that needs no
  fairness: nothing goes on for ever.
- `ModelLoadProofs`: `TypeCorrect`; `CallsAreServedAsAsked` and `FirstLoadsDisturbNobody`
  from `LoadInv`, which adds to the types which posts each server can get (`PostedInv`,
  `PlainInv`), that an undisturbed call about to ask finds what it wants (`FitInv`), and
  that a model in use stays (`ServingInv`); `UnslothIsSpared` from `NeedInv`: a call that
  loads and was not disturbed still has a reason to.
- `StreamLogProofs`: `TypeCorrect`; `RecordsHaveOneFooter` from `FooterInv`, which ties
  the flag and the number in the object to the last record of the file;
  `TextsStandUnderTheirHeading` from `Sections`, the same for the flags of the section being written;
  `ToolCallsAreKeptApart` from `ApartInv`, which adds to the property the index each slot is
  found by. `LogTellsTheReply` relates three things written at different times, the
  reply, the record and the logger: `Numbered` says that no request in the file has a number
  beyond the counter, `Stages` which stage of a call goes with which thread and that no two
  calls own one record, and `TellInv` what the record tells at each stage of its call.
- `RequestsProofs`: `TypeCorrect`; `NearestWins`, from `HandleInv`, which says what a handle
  keeps of the settings it was made with, key by key, and from the cases of the nearest
  layer (`NearestLemma`); `LimitIsSent`, from `NearestWins` and lemmas about
  merged dictionaries and their domains: which of the limits is sent, with whose value, and that
  an OpenAI server is sent a second one if `max_completion_tokens` is given too.
  `FocusesAssumption` excludes the connection arguments, which are never merged.
- `RequestsProofs`, structured replies: `DocumentsAreRecovered`, that `DocumentRecovered` holds
  of every reply `JsonReply` can write, of any length and with any thoughts
  (`ThoughtsAssumption`: none holds a thought mark, a fence, or the end of the comment it is
  in). Its hypotheses, `Harmless` and not `Fragile`, are those of the property; without either it
  is false (`MCDocumentFound`, `MCDocumentKept`). The property speaks of a finished document
  only; the inductive invariant `Recoverable` says what each cleanup has made of the reply so far:
  what is left of it without thoughts (`Parts`: prose, document, prose, no fence in the
  document), that the scanner of comments reads the document as one (`Reads`), where the parser is
  in it, and a lenient one in what is left (`Lexical`), which commas are the trailing ones
  (`Commas`), and that the reply as it is written parses to the document or not at all
  (`Plain`); of a document that is already fragile it says nothing (`Risky`). Each cleanup is
  a scan, and a text of two parts is scanned part by part (`RunBoth`).
  `CommentsSpareTheDocument` and `FirstDocumentIsExtracted` are two steps of it, for any text
  after the document: the first for a document after text that is `Clean` (no string or
  comment begun and not ended, no bracket), the second for the document that the first bracket
  of a text begins, which is extracted to its end and alone, so that of two documents
  the second is lost. Both are about documents without a quote, slash or bracket between
  apostrophes (`LooseDocument`). Their proofs follow the step's scanner and the parser side by
  side (the scanner is in a string when the parser is, and its depth counts the closers of the
  first kind that the parser is owed). They share a module with `Requests` because a call that
  asks for JSON is one request and one such reply.
- `ProvidersProofs`: `TypeCorrect`; `SweepsReportAll` from `SweepInv` (what is expected is
  still to do or has a result); `CanonicalServersAreUsed` from `PoolInv`; `NothingOldStays`
  from `StayInv`, which says of a turn under way that what its server has loaded is pending,
  new, refused or never listed, and of an ended one what the property says.
- `SetupProofs`: `UnitsAreKept`, and `FinishedRunsAreReady` from an invariant that follows a
  run: which services it has dealt with, and whether systemd has read what it wrote.

Only model-checked: `AnswerJudged`, whose functions recurse over trees of any depth; and
all liveness (`CallsFinish`, `EverythingEnds`, the live parts of `Contract` and `Promise`):
`ENABLED` is out of the prover's reach, so of these only the measures above are proved.

## Plan

1. `ServerRestart` and `ModelLoad` together: a service that restarts forgets its models.
2. Measures for `Providers` and `Setup`, between the events of their environment.

## Not modelled

- `client.py` and `types.py` wrap a call in other names and its result in other classes,
  once and without state.
- Of `transport.py` only how a request ends: an answer, an HTTP error without JSON, or
  `TransportError`. URLs, headers and connection handling are library code.
- `restart(wait=False)` (1038): nothing in the repository calls it that way.
- A stream that ends without its end mark (650) is taken for complete; the code cannot
  tell, and nothing says what it should do.
- `resolve_model`, which no handle's call reaches (481 refuses to make one without a model).
- The logger's context labels and references to messages written before: layout.
- `as_kv_list` of the Pydantic helper, which nothing passes.
- The Python scripts and notebooks, which are manual experiments.
