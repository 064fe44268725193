# TLA+ models of AIMurahV3

AIMurahV3 is a local proxy that serves OpenAI- and Anthropic-style chat requests from a pool
of Kiro accounts, with a dashboard to manage them, and a second, smaller proxy for OpenCode.
This directory holds TLA+ modules translated from the Python source, the TLC
configurations that check them on small instances, and theorems proved with TLAPS. Paths
below are relative to the repository's source directory.

## The system

One process, one asyncio event loop, one SQLite file. Code between two awaits that really
suspend runs without interruption, so the interleavings are those of the suspension points:
the locks, the HTTP calls, and each `yield` of a streamed response.

| component | source | state | operations | what makes it hard |
|---|---|---|---|---|
| account table | `aimurah/storage.py` | rows of `accounts`: status, plan, tokens and expiry, locks, backoff level, last use, consecutive uses | one UPDATE per call | a row can be deleted between any two calls; `model_locks` is read, changed and written as a whole |
| account pool | `aimurah/kiro/pool.py`, `kiro/common.py` | none of its own | `pick_account`, `handle_success`, `handle_upstream_failure` | results arrive late and in any order; `last_used_at` has whole seconds |
| attempt loop, response ends | `aimurah/proxy/server.py` | `exclude_ids`, `attempt`, `last_exc` per request | `_attempt_upstream`, four response handlers | suspends holding a row it read earlier; errors inside a stream |
| token refresh | `aimurah/kiro/auth.py`, `kiro/usage.py` | one asyncio lock per account | `refresh_account`, `refresh_loop`, `usage_loop`, `sync_account_usage` | the service may replace the refresh token with every answer; answers are lost to timeouts and restarts |
| OpenCode slots | `aimurah/opencode/slots.py`, `opencode/router.py` | list of `Slot` objects with counters, cooldown | `acquire`, `release`, `resize` | resize under load, release on every path exactly once |
| OpenCode client | `aimurah/opencode/upstream.py` | none | one HTTP call, format translation | - |
| request builder | `aimurah/kiro/client.py` | the history it rewrites | `build_kiro_request`, `_truncate_if_needed`, `_sanitize_history` | several passes over one history, each with its own cut |
| Kiro client, event stream | `aimurah/kiro/client.py`, `kiro/http.py` | parser buffer and mode | `_open_stream`, `stream_kiro_text`, `EventStreamParser` | frames cut anywhere, two forms of one stream, corrupted lengths |
| tool-call assembly, Anthropic writer | `aimurah/proxy/server.py` | pending tool, open block, next index | `_consume_tool_delta`, `_stream_anthropic` | deltas of several calls interleave with text, thinking and the end |
| OAuth sessions | `aimurah/kiro/oauth.py` | rows of `oauth_sessions`, `_camoufox_tasks` | start, complete, browser flow | two completions of one session, a timeout after a success |
| model catalogue | `aimurah/kiro/catalog.py` | rows of `models` | seed, refresh, custom models | a refresh spans awaits and writes back rows read before |
| configuration | `aimurah/config.py` | `config.json` | load, update, rotate key | several processes, no lock, environment overrides |
| command line, daemon | `aimurah/cli.py`, `daemon.py` | pid file, log file | start, stop, restart | two commands at once, processes killed between any two steps |
| dashboard | `aimurah/dashboard/server.py` | - | endpoints over the above | concurrent with everything |
| token saver, logs | `aimurah/kiro/token_saver.py`, `logs.py` | - | text compression; log rotation | - |

Requests call the pool, the pool calls the refresh and the table; the dashboard and the two
background loops write the same rows. `PROJECT.json` lists the hazards, each at its line and
with the properties that would catch it going wrong.

## What is modelled

### AccountTable

The table as a function from account ids to rows, and every operation on it as an operator:
the writes of `storage.py`, the eligibility and choice of `pick_account`, and what
`handle_success`, `handle_upstream_failure` and the dashboard's reset write. They are
operators, not actions, because the code runs several of them between two suspensions; an
action of the modules that extend this one is their composition. The unit of time is that in
which the limits of the backoff (`Base`, `Cap`) and the fixed cooldowns are given; time 0 is
"never". Tokens are abstracted to `expiring` (`_is_expiring_soon`); credits to an arbitrary
ranking of the accounts, since a usage sync can reorder them at any time; error bodies to the
seven classes the code tells apart (`ErrorClasses`). Two of these are quota errors whose body also
has a text of an earlier rule, which gives the lock a fixed length (`ShortCooldown`,
`LongCooldown`) and sets the level back. Priority is left out: it is 1 on every row the program
creates.

### KiroPool

Concurrent requests, background tasks and the dashboard over that table.

| code | model |
|---|---|
| `_attempt_upstream`'s loop | `NextAttempt`: `PickAccount`, `NothingToPick` or the end of the retries |
| suspended at the account's lock, at the token endpoint, at the upstream | `req[r].pc` = "queued", "refresh", "open" |
| `exclude_ids`, `attempt`, `last_exc` | `req[r].exclude`, `.attempt`, `.result` |
| `asyncio.Lock` of `_lock_for` | `queue[a]`: its holder first, then the waiters in order |
| `_open_stream` status # 200, first event, connection error | `UpstreamRefuses`, `UpstreamAccepts`, `TransportError` |
| the four handlers | `StreamEnds`, `StreamFails`, `Disconnect`; pc "stream" for the `_stream_` ones, "collect" for the others |
| `refresh_account` | `Acquire`, `RefreshSucceeds`, `RefreshFails`; `RefreshRaises` for an answer 200 that cannot be read |
| `refresh_loop`, `usage_loop` | `TaskStarts` and the refresh actions |
| dashboard | `AddAccount`, `DeleteAccount`, `ResetAll`, `SyncUsage` |
| the process stops | `Restart`: the table stays, requests and locks go |

Recording a failure, excluding the account and the next pick are one action, as nothing
suspends in between. `_selection_lock` is not modelled: nothing suspends while it is held.

The clock counts in parts of a second (`Second` units), because `last_used_at` and the header
Retry-After have whole ones and locks have milliseconds. `pick_account` reads it when it looks at
the locks, again when it looks for the soonest expiry, and again for what is left of it; in
`NothingToPick` it can run on by a unit between them. `Delays` has what follows when a lock
expires in between: the 30 s of `pool.py:100` (`FallBack`), or the lock of the account for
another model. `RetryAfter` is the header's `max(1, ms // 1000)`.

### StickyRotation

The choice of `pick_account` alone, over long sequences of picks from arbitrary subsets of
the accounts, any number of them in one second of `last_used_at`, with history variables: how
long an account was kept (`kept`, and `streak`, which counts from the last tie of the last
uses), and how long one was passed over.

### TokenRefresh

One account's tokens, three kinds of callers, and an external token service that may or may
not replace the refresh token. The answer to a refresh is a state of its own between the
service's commit and the row's write: that is where it can be lost, to a timeout (`AnswerLost`),
to the end of the process, or because it cannot be read (`AnswerRaises`). `exp` has three values,
because the loop and `refresh_account` use different skews.

### OpencodeSlots

`SlotManager` as the router uses it: a request keeps a reference to a `Slot` that a resize
may have dropped from the pool. `Releases` is how often the paths of `_handle_non_stream` and
the handlers around it call `release`; a stream whose generator never starts never does.
`Resized` is the slice of the code: the settings endpoint takes any number, and a negative one
drops that many slots from the end (`Kept`).

### ResponseStream and AnthropicBlocks

What becomes of an answer's events, for each of the handlers in `proxy/server.py`: "chat" is
`_stream_openai_chat`, "messages" `_stream_anthropic`, "collect" the two `_nonstream_` ones,
whose loops are the same.

| code | model |
|---|---|
| `pending_tool`; `tool_calls`, `tool_calls_accum` | `pending`; `calls` |
| `text_block_index`, `_thinking_block_index`, `next_block_index`, `has_content` | `writer` |
| `_consume_tool_delta`, `_flush_pending_openai_tool` | `Consume`, `Flush` |
| the branches of the event loop | `FirstDelta` and `NextDelta` (tool_delta), `ToolUse`, `Text`, `Reasoning`, `Signature`, `StreamEnds` |
| `except Exception` | `StreamBreaks` |
| `yield` | `Yield`: the chunks of an event wait in `outbox`, and the next event is read when it is empty |

`said` is a history of the calls the upstream made, against which `calls` is checked. The
upstream is free in how it cuts a call into deltas, in leaving out ids and names after the first
delta, in never naming a call and in never ending one; it sends the deltas of one call in a row
(thinking may come in between), each call under an id of its own. Texts are one value, arguments
the list of fragments they are joined from. `except KiroUpstreamError` in the stream handlers is
left out: that error is raised only when a stream is opened, and `_attempt_upstream` handles it.

`AnthropicBlocks` is the abstract writer: what a client of `/v1/messages` may count on. That
`_stream_anthropic` implements it is the property `FollowsProtocol`, a refinement in which the
client's view of the blocks is the abstract state.

### RequestBuilder

`build_kiro_request` from the messages of a request to the history that is sent. It is one
sequential function; what varies is the conversation (any messages in any order) and the sizes.
One step is one iteration of a loop of the code.

| code | model |
|---|---|
| the loop over `chat`; `_messages_from_openai` | `Read`, `Added`, `EndOfMessages` |
| "collapse consecutive user messages" | `Collapse`, `Joins` |
| "pop the last user turn as `currentMessage`" and its two fallbacks | `Pop` |
| `_compact_tool_heavy_history`, cap on entries | `Compact`, `Capped` |
| the two loops that trim by size | `Trim`, `Retrim`, `Dropped` |
| the three passes of `_sanitize_history` | `Validate`, `Strip`, `Pair` |

A turn remembers who speaks, whether there is text, the ids of calls made or answered, and from
which messages it was made; sizes count messages, and `rest` is what the system prompt, the tools
and the parameters add. Calls without a name and with unparseable arguments are dropped as they
are read and so are not in `Message`. The loops' own limits of 50 and 20 turns are left out: each
turn takes at least two of at most 100 entries, or a tenth, so they are never what ends a loop.

### EventStream

`stream_kiro_text` and its parser. The body is a sequence of cells of four bytes, in which a
newline of SSE is a cell of its own; a chunk is any number of them. `Feed` is the head of `feed`
with its detection of the form, `DrainBinary` and `DrainSse` are one turn of their loops,
`EndOfFeed` is `feed(b"")`, and `Close` and `Fail` are the two ends of the body. `Dispatch` is
`_dispatch_event_payload`: which events the keys of a frame make, in its order of precedence.
The upstream (`Say`) sends things of seven kinds in every shape the dispatcher knows for them,
and can corrupt the length of a frame; `sent` keeps where each ends, against which `relayed` is
checked. Headers and JSON are abstracted to an event type and a set of keys; a first frame is
smaller than 16 MB (a longer one has a first byte that makes `feed` take it for SSE) and the
lines of SSE end in a bare newline, as `_drain_sse` requires. Its names (`ParserInit`, `ParserNext`,
`ParserSpec`, `sent`) differ from those of `ResponseStream`, so that one module, `StreamProofs`,
can extend both.

### OAuthSession

| code | model |
|---|---|
| row of `oauth_sessions` | `status[s]` |
| `run_camoufox_flow(sid)`, a task per session | `flow[s]`: "launching", "watching", "exchanging", "syncing" |
| a request suspended in `finalize_with_callback_url` | `flow[r]`: "exchanging", "syncing" |
| `start_session`, `schedule_camoufox` | `Start` |
| the browser; its 10 minutes | `Launch`, which may also end the task without a word (an exception before the `try` of `oauth.py:194`), `Capture`; `GiveUp` |
| `exchange_code` and the `create_account` after it | `Exchange`, `ExchangeFails` |
| the usage sync and `status="success"` | `Sync` |
| the end of the process | `Crash` |

Nothing in the code keeps two completions of a session apart, and none of the actions does. A
code is redeemed once by the service; an exchange whose answer is lost may have spent it.
`begun` records how many completions a session had, and `cut` whether one of them ended without
a word: cut off by a restart, or by an exception before the `try` of its flow.

### DaemonLifecycle

The commands of `cli.py` as steps of the terminals they are given in, and the process that
`start --foreground` becomes. Each read or write of the pid file, each signal and each look at
the ports is a step; between any two of them a process can be killed, and other commands can
run. The two ports are one; a closing daemon gives its port up and stays until its connections
end. `_get_active_pid` is two steps (`ReadPidFile`, `ClearPidFile`), since the file can change
between the look and the removal. `Terminate` is SIGTERM by the phase of the process: before
uvicorn's and the daemon's handlers are there it kills. `stop` looks a last time and then kills
(`EndWait`, `Kill`); a process that has left in between makes the second `os.kill` raise, which
ends the command, and a `restart` before it starts anything.

Pids are used again: a process that is gone gives its own back (`Free`), at once, so that a stale
file can name the process that reads it, as it does in a container, where the daemon is pid 1 at
every start. A child keeps its pid until the `start` that polls it has seen its end. A pid that a
program other than the daemon has taken is not modelled.

## Runs

Every passing run also serves as the baseline of the mutants listed in `PROJECT.json`: for each
property a small change of the modelled code that the property refutes.

| run | instance | shows |
|---|---|---|
| `pool` | 2 accounts, 2 requests, 1 task, 1 retry, 3 outside events | `AttemptAccounting`, `RefreshLocks`, `NoSecondRefresh`, `StaleOnlyAfterFailure`, `GoneStaysGone` |
| `pool_live` | 1 account with prior locks and 2 added later, 1 request, 1 task, 2 models of which one is pro, 3 levels, a clock of half seconds, fairness | `TypeOK`, `LockBound`, `LocksHold`, `RetryAfterIsNeverLate`, `GivesUpOnlyWhenExhausted`, `RequestsEnd`, `TasksReturn` |
| `sticky` | 3 accounts, limit 2, 6 seconds with any number of picks in each | `LimitHoldsBetweenTies`, `NobodyPassedOver` |
| `slots` | 3 requests, sizes -1, 0, 1, 3, bad answers and early disconnects, fairness | `TypeOK`, `InFlightExact`, `LeastBusyWhenCounted`, `SlotsComeBack` |
| `refresh` | 3 callers, 6 token values, fairness | `TypeOK`, `KeepsNewestToken`, `NeverSendsSpentToken`, `AccountRecovers` |
| `streams` | 3 calls of 2 tools, 2 fragments each, 3 blocks | `TypeOK`, `DeliveredFaithfully`, `AllCallsDelivered`, `CallsNumbered`, `FollowsProtocol`, `NothingAfterFinish` |
| `builder` | conversations of 6 messages, 2 calls, limits of 1 cycle, 4 entries, 6 messages of payload | `AcceptableHistory`, `DeliversWhole`, `CutsTheOldest` |
| `events` | 3 frames or SSE events of 5 cells, lengths 0 and too long, fairness | `RelaysWhatArrived`, `EndReleases`, `FeedReturns` |
| `oauth` | 2 sessions with their browsers, 1 request, 2 codes each, 1 restart, fairness | `StatusTellsTheAccount`, `SuccessIsItsOwn`, `CompletionsSettle` |
| `daemon` | 2 pids used again and again, 2 terminals, 1 poll, fairness | `DaemonIsNamed`, `StartedMeansServing`, `StopEnds` |

Two more runs end in a counterexample, each to one property that a text of the repository
states (`PROJECT.json` quotes it; they are described under the departures below):

| run | instance | violates |
|---|---|---|
| `results_reach_the_model` | conversations of 6 messages that fit | `ResultsReachTheModel` |
| `sticky_limit` | 3 accounts, limit 2, 2 seconds | `StickyLimitHolds` |

Why these bounds are enough for the cases of interest: two requests and a task make every pair of
callers meet at one lock, and the third waits behind both; one retry makes a request move from an
account to another, two accounts let it run out of either attempts or accounts, and the third
account of `pool_live`, added or deleted at any time, leaves one untried when the attempts run
out. In `pool_live` the process starts on a table in which quota errors have left any combination
of three locks (`PriorLocks`: none, half a second, two seconds) for two models, at the last level
(`PriorRow`). With delays of 2, 4 and 8 units and a cap of 5 the next quota error meets the
saturation of the level and the cap; a lock of one model is rewritten by a result of the other,
and is the soonest when the other is asked for; one expires while the account is picked, or is
shorter than the least Retry-After. `MaxTime` bounds the clock and `MaxEvents` the steps that no
request causes; `MaxSlots` bounds the slot objects ever made; six tokens always leave two that
the row, the service and the callers do not hold, so that the run never stops at the guard
`UnseenPairs # {}` of the service. Three calls are enough for one that is swallowed (below) and
one after it; `MaxBlocks` stops text and thinking, not calls, once there are three blocks: enough
for a text, a thinking block and a text again, or for calls between any two of them.

The limits of `builder` are the code's (20 cycles, 100 entries, 128 KB, floors of 4 and 2
entries) scaled down in proportion, so that in six messages there is one cycle too many, entries
above the cap, and both trimming loops cut; all three properties are proved for all limits, and
so for loops that cut many times. A frame of five cells is one more than the smallest that the
parser looks at, so it can be there in part with its prelude or without; three of them put a
corrupted one between two good ones. Sizes of -1 and 0 empty the pool of slots or shorten it
while three requests hold slots of it. Two sessions with two codes each let two completions meet
in one session, with the same code or with different ones, beside another session's. Two
pids and two terminals are a daemon and its successor, under another pid or the same, each
started, stopped or found by either command; with `Polls = 1` a `start` can give up on its child
at once.

`DeliversWhole` speaks of conversations in order (`InOrder`: the user begins, and calls are
answered at once, by one result each) within the limits, and in which the user has the last word;
`results_reach_the_model` shows what happens without that. `CutsTheOldest` has the same
conditions but for the limits: with a tool result as the last word, the turn taken out as the
current one can be older than what is sent. `AcceptableHistory` is of every conversation; only a
call that ends the history may be without results, and in a conversation in order no call does.
`RetryAfterIsNeverLate` leaves out a header of one second, the least there is, and a lock that
runs out while the account is picked. `StatusTellsTheAccount` says what the status means of
sessions that one completion was begun for and that nothing cut off; of the others, only that
success means an account: a browser flow whose ten minutes end after a request has completed the
session by hand sets it to error again, and `SuccessIsItsOwn` says that nothing but a completion
of the same session does. `DaemonIsNamed` and `StartedMeansServing` hold as long as no command is
begun while another is under way (`overlapped`), with processes killed at any point; two
overlapping starts can leave a daemon that the file does not name, and one of them report the
other's ports as its child's. `CompletionsSettle` says that a completion settles its session or
was cut off (`cut`): nothing else leaves a row pending for ever.

`LimitHoldsBetweenTies` is what the code keeps of the sticky limit, which `sticky_limit` shows
to be broken by picks of one second. `NobodyPassedOver` does not count the picks of the second
in which an account was itself used last. `LeastBusyWhenCounted` says of the slots that the
choice is by load as long as their counters are right.
`SlotsComeBack` says that a slot in use is released unless
its request is the one kind of response whose generator never starts.

Symmetry is used in safety runs only, over requests (told apart by their order of arrival
alone), over accounts that start with equal rows, and over the ids of tool calls.

`CHECK_DEADLOCK FALSE` everywhere: when all requests are answered and the bounds on the clock
and on outside events are reached, the models stop.

### Where the code departs from its documentation

Two runs end in a counterexample; `PROJECT.json` quotes the texts.

`results_reach_the_model`: the turn that `build_kiro_request` takes out as `currentMessage` is
the last user turn without tool results, wherever it stands (`client.py:242-250`). When a
conversation ends in tool results, it stands before the call they answer; what is then first in
the history is the call, and `_sanitize_history` strips the call and its results. For "user,
assistant with a call, tool result" the request goes out with the old question and an empty
history, which is the loop that the comment at `client.py:594-598` says was removed.

`sticky_limit`: `last_used_at` has whole seconds (`storage.py:317`), and nothing keeps two picks
out of one second. Among accounts used in the same one the rotation goes by the other sort keys
and can take the one that has just reached the limit; its count starts again. The comment at
`pool.py:114-115` says that an account is preferred as long as it has not hit the limit.

Departures met while modelling that have no run of their own, most of them because one or two
lines decide them. The modules follow the code in each:

- the dashboard's reset-all (`dashboard/server.py:318`, "clear all locks") clears the lock under
  `__all__`, which the program never sets, and leaves the per-model locks (line 323);
- `_consume_tool_delta` returns one call where a delta both replaces a pending tool and ends its
  own: the first is swallowed, and the second gets the index after it, which the next call then
  gets again (`proxy/server.py:226-227`). `AllCallsDelivered` and `CallsNumbered` make exactly
  this exception;
- a thinking block is closed by a signature only: text and tool blocks start while it is open,
  and an answer can end with it open. `AnthropicBlocks` makes exactly this exception;
- a chat stream that stops without "done" after some content carries no finish reason, and one
  whose first event is "done" carries two (`proxy/server.py:568-589`);
- a streamed answer that ends in an error event counts as a success and resets the backoff
  level (`proxy/server.py:575-593`; `pool.py:148` says "after a successful request");
- a request whose own quota error locks the last account gets that 429, not the 503 with
  Retry-After of README.md:233-234 (`proxy/server.py:356-359`);
- five accounts are tried (`proxy/server.py:33`); README.md:232-233 says two retries;
- `resize(0)`, which the settings endpoint lets through (`dashboard/server.py:512`), makes
  `acquire` fail with an IndexError (`opencode/slots.py:78`); a negative size, let through as
  well, drops that many slots from the end;
- the refresh loop selects accounts by its interval (`auth.py:137`), and the refresh it calls
  returns at once unless the token expires within 120 s (`auth.py:82`);
- the retry of a usage call after a 401 asks for a fresh token, which is the same one unless it
  is about to expire (`usage.py:62-66`); README.md:36 promises a retry;
- a late 5xx sets an account that another request has put in error to active again
  (`pool.py:191-199`); the docstring (`pool.py:166`) says "no lock, no status change";
- the Retry-After of a 503 is the earliest expiry over the locks of all models
  (`storage.py:366-370`), while the message says "locked for this model" (`pool.py:105-108`); it
  is at least a second, and 30 s for a lock that expires between two readings of the clock
  (`pool.py:100`). `RetryAfterIsNeverLate` makes exceptions of the latter two;
- a refresh answer of status 200 that is no object, or whose expiry is no number
  (`auth.py:107-118`), raises out of the refresh: the request ends with a 500, and the account
  stays active with a token that the service may have replaced;
- a session completed by hand while its browser flow is under way shows what the last of the two
  writes, which after ten minutes is the flow's error (`oauth.py:226`, 264);
- an exception raised in `run_camoufox_flow` before its `try`, other than an ImportError at
  `oauth.py:148` (another failure of these imports, `load_config`, the port of the proxy URL at
  line 185), ends the task, and the session says pending for ever; "This task updates the
  oauth_session row as progress changes" (`oauth.py:140`). `Launch` has it, and `cut` records it;
- the sessions that a restart cuts off say pending for ever too: nothing takes them up again;
- `_get_active_pid` asks only whether the pid in the file is that of a living process
  (`cli.py:84-90`). The image's `start --foreground` (`Dockerfile:36`) has the same pid in each
  life of its container, and the file is on a volume (`docker-compose.yml`): after a kill the next
  process reads its own pid, reports "AIMurahV3 already running" (`cli.py:131`) and exits, at
  every restart. This is `Look` with `pidFile = p`;
- two commands given at once can lose a daemon (`cli.py:131-137`): the pid file is read and
  written without a lock;
- `stop` ends with a ProcessLookupError if the daemon leaves between the last look and the
  SIGKILL (`cli.py:220-221`), and a `restart` does not start anything then;
- `_handle_non_stream` releases its slot, parses the answer, and if that fails the handler
  releases the slot again (`router.py:134-157`): it is then preferred although it is busy;
- when the upstream's stream stops without "done", three of the four handlers lose the pending
  call (`proxy/server.py:889`, 656-669); `_stream_openai_chat` flushes it (line 584);
- "Always keep the first user message" (`client.py:418`) holds of the compaction only: the cap
  on entries that follows it drops that message again (`client.py:483-485`);
- "History must not end with an orphaned assistant+toolUses" and "All tool cycles must be
  complete" (`client.py:469-470`): when a call is followed by a user turn instead of its results,
  that turn becomes the current one, and the history sent ends with the call (lines 629-637 keep
  it). `AcceptableHistory` lets a call be last, but in no conversation in order;
- "Wait until both services are listening before declaring success" (`cli.py:176`): somebody
  is listening, and it need not be the child (line 182);
- a refused `start --proxy-port` has saved the port all the same (`cli.py:126-134`).

## Fairness

`KiroPool`: weak fairness of each request's upstream outcome, of the end of its stream, and of
each caller's next refresh step. The HTTP sessions have timeouts (30 s for a refresh, 180 s
between reads of a stream, `kiro/http.py`), so an outcome always comes, and the event loop runs
whatever is ready. Nothing is assumed of clients, the dashboard or the clock.
`OpencodeSlots`: the same for its HTTP call (`request_timeout_seconds`), and that the server
starts or drops a response it was given. `TokenRefresh`: in addition strong fairness of a
successful answer to the refresh loop, which is a promise of the outside world (the service
does not refuse every attempt for ever), that tokens age, and that from some time on the
process stays up.

`EventStream`: the parser's loops, which run without a suspension. `OAuthSession`: that the
launch, the exchange and the sync end and the watch reaches its deadline, all of which the code
gives time limits (15 and 30 s in the browser, 600 s of watching, 30 s of HTTP); nobody has to
sign in, and no code has to be accepted. `DaemonLifecycle`: that a command runs on and that the
system ends a process it was told to kill; not that a closing daemon's connections end.
`RequestBuilder` has no liveness property.

## What is proved

Every theorem holds for all values of the constants that satisfy the named assumptions of its
module. Each proof module states one inductive invariant (`StreamProofs`, `KiroPoolProofs` and
`RequestBuilderProofs` several), proves that the initial states have it and that each action
keeps it, and derives the properties from it.

### The account pool: `KiroPoolProofs`, `StickyRotationProofs`

The first part of `KiroPoolProofs` is about the operators of `AccountTable`, in three groups.
The type lemmas: each write keeps the table well typed, the next level stays within the maximum,
a cooldown within the cap. The `Keeps` lemmas: `Keeps(T, U, t)` says that between the tables T
and U no missing row was written and none was removed, no lock reaches beyond `t + Cap` that did
not before, and no lock in force at t was lifted. Every write of a result, a refresh or a usage
sync keeps, and `KeepsTransitive` composes them the way a handler does. The `SameTokens` lemmas:
no write of a result touches the tokens or the existence of a row.

For any sets of accounts, models and requests, any number of retries, any backoff limits, fixed
cooldowns and parts of a second:

| theorem | statement | rests on |
|---|---|---|
| `TypeCorrect` | `Spec => []TypeOK` | `Bookkeeping` |
| `AttemptsAccounted` | `Spec => []AttemptAccounting` | `Bookkeeping` |
| `LocksBounded` | `Spec => []LockBound` | `LockInv` |
| `LocksHeld` | `Spec => LocksHold` (action property) | `LockInv`, `RowStep` |
| `GoneStays` | `Spec => GoneStaysGone` (action property) | `Bookkeeping`, `RowStep` |
| `LocksInOrder` | `Spec => []RefreshLocks` | `RefreshInv` |
| `NoTokenRefreshedTwice` | `Spec => []NoSecondRefresh` | `RefreshInv` |
| `StaleOnlyThen` | `Spec => StaleOnlyAfterFailure` (action property) | `RefreshInv` |
| `GivesUpWhenExhausted` | `Spec => GivesUpOnlyWhenExhausted` (action property) | `Bookkeeping` |
| `RetryAfterHolds` | `Spec => RetryAfterIsNeverLate` (action property) | `Bookkeeping`, `NewRequests` |

`TypeOK` alone is not inductive: that `attempt` stays within `max_retries + 1` follows from the
guard of the loop only together with the fact that a request in flight has an account, outside
`exclude`, and one exclusion per earlier attempt. The inductive invariant is `Bookkeeping`:
the types, `RequestOK` of every request and `TaskOK` of every task. `NextAttemptOK`,
`FinishOK` and `ReturnOK` show that the three ways in which an action ends keep it; the step
lemma has one step per action.

`LockInv` adds to it `LockBound` and `Unborn`: an account not added yet has the empty row.
`LocksHeld` needs the latter, since adding an account overwrites its row. `RowStep` sorts the
steps by what they do to one row: an addition, a deletion, a reset, or a step that `Keeps`.

`RefreshInv` is `RefreshLocks` and `NoSecondRefresh` together, with `Bookkeeping` and
`KnownAccounts`: nobody works on an account that is not added yet, since adding it writes its
token. `NoSecondRefresh` needs `RefreshLocks`: a token in an account that is being refreshed
stays as it is because only the holder of the lock writes one, and only one caller holds it. The
proof sorts the steps by the one caller that moves; `LocksAreExact` carries the queues through
an append and a tail, and `BystanderOK` disposes of everybody else.

The last two theorems are about the ways a request can end. `NextAttemptEnds` and `FinishEnds`
list them, and `OwnStep` and `RefreshGoesOn` show that nothing else ends one. `RetryAfterHolds`
needs `NewRequests`, that a request which has not arrived carries no result; `Told`, what the
pick makes of the clock's readings; `HeaderBound`, that the header is a second or no more than
what is left of the lock; and `LockedUntilSoonest`: accounts that are all still locked when the
client is told are locked until the soonest of their locks expires.

`StickyRotationProofs`, for any finite set of accounts (`AccountsAssumption`) and any limit, with
any accounts busy at each pick and any number of picks in one second:

| theorem | statement |
|---|---|
| `InvariantHolds` | `Spec => []IInv` |
| `LimitHolds` | `Spec => []LimitHoldsBetweenTies` |
| `NobodyIsPassedOver` | `Spec => []NobodyPassedOver` |

Neither property says why it holds. `IInv` does: no row is ahead of the clock, none was used in
a later second than the account picked last, whose `consecutive_use_count` is at least the
streak, and no count exceeds the limit. While an available account was used in an earlier second
the rotation does not take the account picked last, so that a pick that does is a reuse, and
counted. `UsesSince(a)` is the set of uses that the rows of accounts used in a later second than
`a` count; each pick that passes `a` over in such a second adds one to it (`PickOK`), and it has
at most `Keep` for every other account (`UsesBounded`), which is the bound.

### The token refresh: `TokenRefreshProofs`

For any sets of callers and tokens:

| theorem | statement |
|---|---|
| `InvariantHolds` | `Spec => []IInv` |
| `TypeCorrect` | `Spec => []TypeOK` |
| `NewestTokenKept` | `Spec => []KeepsNewestToken` |
| `SpentTokenNeverSent` | `Spec => []NeverSendsSpentToken` |
| `RefreshIsExclusive` | a caller between the read of the row and the write is the head of the queue, and everybody behind the head waits |

`IInv` is the lock (`LockOK`: nobody twice in the queue, whoever is in it waits or holds, only
the head holds), the row (`RowIsGood`: until an answer is lost the row's token is the accepted
one, but for the time a new one is under way) and the callers (`CallerIsGood`: what a caller has
sent or is about to store is the accepted token). An answer that cannot be read counts as lost.
`LeavesLock`, `KeepsLock` and `JoinsQueue` are
the three things a step does to the lock.

### The OpenCode slots: `OpencodeSlotsProofs`

For any finite set of requests (`RequestAssumption`) and any sizes of the pool, negative ones
among them:

| theorem | statement |
|---|---|
| `InvariantHolds` | `Spec => []IInv` |
| `TypeCorrect` | `Spec => []TypeOK` |
| `InFlightIsExact` | `Spec => []InFlightExact` |
| `NeverBelowZero` | without an answer released twice, no `in_flight` is negative |
| `LeastBusyGiven` | `Spec => LeastBusyWhenCounted` (action property) |

`InFlightExact` counts requests, so it needs `RequestsOK`: which of them refer to a slot. A step
changes one request; `CountStep` says what that does to a cardinality, `AccountKept` that a
counter which moves with it stays exact. `TypeOK` says that no slot is in the pool twice;
`ResizedType` is why a resize of any size keeps that.

### The stream writers: `StreamProofs`, first part

For any numbers of calls and blocks, and at least one fragment per call, in two parts:

| theorem | statement | rests on |
|---|---|---|
| `CallsInvHolds` | `Spec => []CallsInv` | - |
| `CallsFaithful` | `Spec => []DeliveredFaithfully` | `CallsInv` |
| `NoCallLost` | `Spec => []AllCallsDelivered` | `CallsInv` |
| `IndicesCount` | `Spec => []CallsNumbered` | `CallsInv` |
| `WriteInvHolds` | `Spec => []WriteInv` | - |
| `TypeCorrect` | `Spec => []TypeOK` | both |
| `FollowsTheProtocol` | `Spec => FollowsProtocol` (refinement of `AnthropicBlocks`) | `WriteInv` |
| `FinishIsLast` | `Spec => NothingAfterFinish` (action property) | `WriteInv` |

`CallsInv` says what holds while the stream is read: the pending tool is the upstream's open call,
grown as far (`PendingOK`), the calls collected are calls that are over, in order
(`CollectedOK`), and none of those is missing but the swallowed ones (`NoneMissing`). It is
proved of a delta's effect on any collected and pending calls, so that the two calls that one
delta can finish are two uses of one lemma.

The handler writes several chunks at once and the client gets them one by one, so the two
disagree in between. A *stage* is what the protocol is about: the blocks open, the next index,
whether a finish reason and the end were sent. `Plays(s, c, t)` says that chunk c leads from
stage s to stage t and is legal there, `Path` that a sequence of chunks does, one after the
other. `WriteInv`: the chunks in the outbox are a path from the stage the client is at
(`Matches`) to the stage the handler is at (`StageOf`). Each operation of the writers appends a
path (the `Run` lemmas), each `Yield` takes the first step of one, and that step is a step of
`AnthropicBlocks`.

### The event stream: `StreamProofs`, second part

For answers of any length, frames of any sizes, chunks that end anywhere, any corrupted lengths
and any time at which the body ends or breaks off:

| theorem | statement | rests on |
|---|---|---|
| `ParserInvariant` | `ParserSpec => []ParserInv` | - |
| `WhatArrivedIsRelayed` | `ParserSpec => []RelaysWhatArrived` | `ParserInv` |
| `TheEndReleases` | `ParserSpec => []EndReleases` | `ParserInv` |

It assumes `SizesAssumption`: a frame has at least 4 cells (16 bytes) and at most `MaxSize`, a
corrupted length is one no frame can have. That is what `_drain_binary` tells apart; a length
that was corrupted into one a frame could have it cannot notice, and neither can the model.

The properties speak of what has been cut out of the body; the parser sees only what is left in
its buffer. A description of the buffer as a concatenation of frames would need induction over
it, so `ParserInv` describes each cell by its position in the whole body: the things sent lie one
after the other (`Laid`), cell k of the body is what the thing it belongs to has there (`IsCell`),
and the buffer and the wire hold the cells from `Done` on (`Carried`). Then what a chunk, a cut or
a new frame does to a sequence of cells is a shift of positions. The other parts say where the
parser is in the body: it stands at the end of the last thing relayed (`Stands`), what is relayed
is the first things sent, as what they mean (`Faithful`), outside its loops there is nothing more
to cut (`Exhausted`), and its mode is the form of the body unless the next thing's length is
corrupted (`Modes`). That the two newlines `DrainSse` finds are the end of the next event, never
the end of one and the start of another, is `BreakEnds` with `EndBreaks`; that every shape of a
thing is dispatched as what the thing means is `ShapesMean`.

### The request builder: `RequestBuilderProofs`

For conversations of any length, any calls and any limits:

| theorem | statement | rests on |
|---|---|---|
| `BuilderTypeCorrect` | `Spec => []TypeOK` (defined there) | lemmas on each helper's result |
| `HistoryAcceptable` | `Spec => []AcceptableHistory` | `Built`, `OrderInv`, types |
| `OrderInvariant` | `Spec => [](TypeOK /\ OrderInv)` | types |
| `OldestIsCut` | `Spec => []CutsTheOldest` | `OrderInv` |
| `WholeIsDelivered` | `Spec => []DeliversWhole` | `OrderInv` |

`AcceptableHistory` speaks of the end. `Built` says why it comes out right: the list the last
loop builds is acceptable at every turn of that loop, ends in a call only when nothing is left
to read, and starts with the turn the strip loop stopped at; and once that loop is over, `work`
is acceptable until the trimming cuts it, after which the passes run again. That the history of a
conversation in order does not end in a call (`NoCallLast`) follows from `OrderInv`: the results
come next in the conversation, nothing newer than a turn that is kept is cut, and the current turn
has none.

`CutsTheOldest` and `DeliversWhole` relate the end to the conversation. `OrderInv` does so in
every state, in two parts, because a call is answered only when the messages that answer it have
been read. `Reading` says of the conversation read so far what is true before that: each turn
says what its messages said (`MadeOf`), the turns are in their order and leave nothing out
(`Heard`), and tool results follow an assistant (`Runs`). At the end of the messages, `InOrder`
makes of this that every call and its results are neighbours (`Chained`): the messages between a
call and the next one that is no tool result are in one turn, and they are its `ToolRun`
(`CallsAnswered`, `CallsFollowed`). From there on `Telling` holds. It is about `Turns`, the list
built followed by the list still to be read, since what a loop moves from one to the other
changes nothing in it (`Shifted`). A pass does one of four things to `Turns`: it makes two plain
neighbours one (`MergeTold`), takes out a plain turn (`WithoutTold`), keeps a suffix
(`SuffixTold`), or keeps the opening turn and a suffix that begins with a call (`CompactedTold`),
and each leaves the rest in order and the cycles whole. That the first plain turn is the opening
one (`FirstTurn`), so that the compaction keeps nothing from the middle, and that the last turn
is the one taken out when the user has the last word (`LastTurn`), are what makes `CutRight`
true: what is gone is older than all that is left but the opening turn, and the current turn is
the user's and, if the user has the last word, newer than all others (`Spoken`). Within the
limits no pass cuts: a conversation has at least as many messages as turns and as many calls as
cycles (`AsManyMessages`, by an injection), so the bounds on the messages in `WithinLimits` are
bounds on the turns. The strip and pair loops, which can drop turns of other conversations, find
a plain turn in front and every call answered.

### OAuth sessions: `OAuthSessionProofs`

For any numbers of sessions, requests, codes and restarts:

| theorem | statement | rests on |
|---|---|---|
| `OAuthTypeCorrect` | `Spec => []TypeOK` | `SessionInv` |
| `StatusIsTrue` | `Spec => []StatusTellsTheAccount` | `SessionInv` |
| `SuccessStays` | `Spec => SuccessIsItsOwn` (action property) | `SessionInv` |

`StatusTellsTheAccount` says nothing of a session while it is being completed. `SessionInv` adds
what holds then: a first completion is the only one, and the session has an account exactly if
it has reached its sync; and a completion that is under way is of a session that exists, the
browser's of its own. Every action is one of four kinds, a completion begins, goes on, settles or
is cut off, and the lemmas `Begins`, `GoesOn`, `Settles`, `CutOff` treat each once.

### The daemon: `DaemonLifecycleProofs`

For any sets of processes and terminals and any number of polls:

| theorem | statement |
|---|---|
| `InvariantHolds` | `Spec => []IInv` |
| `FileNamesDaemon` | `Spec => []DaemonIsNamed` |
| `StartedServes` | `Spec => StartedMeansServing` (action property) |

`IInv` holds the port (whoever has it serves, or was killed serving) and, as long as no command
was begun during another, `OneAtATime` (one command under way, one process on its way to being a
daemon, and that one the command's child) and `FileIsOwned` (the file names every daemon; nobody
owns a file that is about to be cleared as stale, and a command that watches or stops a process
knows it as the only possible owner). No part of it depends on a pid being new: a process whose
pid a stale file holds refuses to start (see the departures), or, once the file is cleared, is
the one it will name.

### Only model-checked

- The liveness properties (`RequestsEnd`, `TasksReturn`, `SlotsComeBack`, `AccountRecovers`,
  `FeedReturns`, `CompletionsSettle`, `StopEnds`): liveness under fairness is out of the
  prover's reach.
- `ResultsReachTheModel` and `StickyLimitHolds`, which the code violates.

## Not modelled

- Access control (login, cookies, API keys) and logging: they guard or record the operations
  modelled here and change none of their state.
- The usage log: statistics that nothing reads back.
- `status = "banned"`: read in three places, written nowhere.
- The model catalogue (`kiro/catalog.py`): `refresh_pro_models` makes its reads and writes after
  the awaits, without a suspension between them. What can go wrong is decided by single
  statements (the upsert resets the flags of rows it meets), so there is nothing for a model
  checker to explore; what plan a model needs is a constant of `KiroPool`.
- The configuration file: `update_config` reads, changes and writes the whole file without a
  lock, from several processes. That updates are lost follows from two lines; the settings are
  constants of the models they steer.
- The token saver: regular expressions over texts, and texts are values here.
- The OpenCode client's translation between formats, and the text of messages everywhere.

## Plan

1. Abstract specifications: a lock with FIFO waiters that the refresh lock implements; a
   register of the newest token that `TokenRefresh` implements while no answer is lost.
2. `EventStream` composed with `ResponseStream`: from the bytes of an answer to the client's
   chunks.
