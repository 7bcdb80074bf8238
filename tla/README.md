# SOC-Playground: a TLA+ model of the core

SOC-Playground is a web application in which an analyst downloads language
models from the Hugging Face hub, chats with them, and lets them call read-only
SOC tools (CrowdStrike, Sentinel, threat intelligence, Jira). It is one FastAPI
process: an event loop, a pool of request threads, one thread per download job
with a worker thread under it, one thread per running generation, and browsers
that follow all this over server-sent events. The models directory is the only
thing that survives a restart.

This directory holds specifications of the parts in which threads, requests,
browsers, the network and restarts meet, the TLC runs that check them, and
proofs that TLAPS checks. All paths below are relative to `src/`.

## 1. Inventory

| Component | State | Operations | Talks to |
|---|---|---|---|
| Model registry and downloader (`models_engine/registry.py`, `downloader.py`) | `MODELS_DIR/<slug>/`: weight files, `meta.json`, temporary files; the stack of each job thread and worker | `write_meta`, `get`, `scan`, `delete` (rmtree); `start`, `run_job`, `download`, `_repo_plan` | hub; download feed (`_emit`); everybody reads rows |
| Inference runtime (`models_engine/inference.py`) | one RLock, one slot (`_loaded_id`, `_model`, `_tokenizer`), generation threads | `ensure_loaded`, `unload`, `generate_stream`, `generate_text` | registry rows; called by workbench, agent loop, scorecard, delete route |
| Model manager routes (`app/routes/models.py`) | none | download, delete, page | registry, downloader, runtime |
| Download feed (`app/broker.py`, `app/routes/events.py`, `web/static/download.js`) | subscriber queues per topic; stream generators; the page | `subscribe`, `unsubscribe`, `publish`; `_stream`; EventSource handlers | job threads publish, event loop drains |
| Agent loop (`agents/loop.py`) | local message list, step counter, deadline | `run_agent` generator: generate, call tool, observe, synthesise | runtime, tools; consumed by workbench and scorecard |
| Workbench chat and sessions (`app/routes/workbench.py`, `app/sessions.py`, `web/static/chat.js`) | history per (session, task, model); submit button of each tab | chat, clear; `get_history`, `append`, `clear` | runtime or agent loop |
| CrowdStrike client and retries (`integrations/crowdstrike.py`, `retry.py`) | cached OAuth token with expiry and lock | `_request`, `_get_token`, `_invalidate_token`, `with_retry` | called from concurrent tool runs |
| Secret resolution (`app/secrets.py`) | in-process cache | `get_secret`, `get_kv_secret`, `set_kv_secret`, `clear_cache` | environment, Key Vault; every integration, login |
| Scorecard (`agents/scorecard.py`, `app/routes/scorecard.py`, `scorecard.js`) | `latest.json`; results so far | `run_scorecard`, `_run_case`, `_score_case`, `_save_latest`, `load_latest` | agent loop with mock tools, runtime |
| Tools and query templates (`agents/tools.py`, `fql_templates.py`, `kql_templates.py`) | none | parameter checks, settings, one query each | called by the agent loop; clients, secrets |
| Threat intelligence, Jira, Sentinel clients (`integrations/threat_intel.py`, `jira.py`, `sentinel.py`) | an HTTP client each | `check_reputation`; issue and search; token and query | secrets, external services |
| Tasks (`models_engine/tasks.py`, `tasks.yaml`) | a read-only table | `get_task`, `resolve_tools` | workbench, scorecard |
| Authentication (`app/auth.py`) | the session, which lives in the cookie | guard, login, callback, logout, status | browser, identity provider, secrets |
| Shell (`app/main.py`, `config.py`, `ui.py`, `health.py`), templates, styles | signing key of the sessions | lifespan, wiring | integrations, secrets |

What is hard in it, and what makes it correct:

- **Registry and downloader.** A job writes the same directory and the same
  `meta.json` as any other job and as a delete of the same model; a write is
  staged and renamed in two steps; rmtree unlinks entry by entry; a restart
  kills threads between any two steps. Correct means: a row that says *ready*
  has its files; a row that says *downloading* has somebody who will end it;
  what the terminal event says is what the row says; every job ends with one.
- **Runtime.** The lock is dropped between the load and the reading of the
  slot; the delete route reads the slot without it; loads fail half way; a
  generation outlives its request. Correct means: id and weights in the slot
  agree, the lock is always handed on, a request generates with the model it
  asked for, a deleted model is gone from memory.
- **Feed.** `publish` runs in a job thread over a copy of the subscribers while
  streams subscribe, drain and leave; queues are bounded and a full one is
  dropped. Correct means: no event is lost, doubled or reordered for a
  subscriber, and its page learns how the job ended.
- **Agent loop.** The calls, observations, errors, the deadline and the
  synthesis must leave the conversation paired and the event order as the page
  expects it, for each of many paths.
- **Chat.** Turns of two tabs, a clear, a cancellation and two different orders
  of "record" and "done" act on one list.
- **Scorecard.** A run is one generator over minutes; pages come and go, cases
  raise, two runs write one file in place. Correct means: every row, on disk or
  on a page, is of the whole suite; what a run reported is what a later page
  shows; the page is told the end.
- **CrowdStrike client.** A token is tested, returned, renewed and invalidated
  in separate steps, partly without the lock, while two kinds of retry share
  one flag.
- **Secrets.** A cache read in two steps and filled in two, without a lock,
  which keeps failures as well as answers, in front of a vault that others
  change. Correct means: nothing outlives a restart, a written secret is read
  back, and what has been decided from the cache (an integration is on) does
  not change from one call to the next.
- **Tools.** Thirteen tools over six services, each of which may be off, refuse
  the parameter, or fail at any of its exchanges, with different ideas of what
  a failure is. Correct means: what the model reads as evidence was said by a
  service.
- **Sign-in.** The session is a cookie that every response overwrites with the
  copy its request came with; tabs, redirects, the identity provider and
  restarts interleave around it. Correct means: nobody is signed in or out
  without a reason, the group is a gate, and a sign-in ends.

`PROJECT.json` lists the single hazards at the lines where they bite.

## 2. Modules

| Module | Models | Composes / used by |
|---|---|---|
| `Registry` | abstract: how the row of a model may change, for those who read it | implemented by `ModelStore`, used by `ModelRuntime` |
| `ModelStore`, `MCModelStore` | registry and downloader on disk | refines `Registry` |
| `DownloadFeed`, `MCDownloadFeed` | broker, SSE stream, page | |
| `DownloadProofs` | proofs about the two, and about both together | extends `ModelStore` and `DownloadFeed` |
| `ModelRuntime`, `MCModelRuntime`, `ModelRuntimeProofs` | runtime and delete route | its rows change by the steps of `Registry` |
| `TurnProtocol` | abstract: the event order a turn promises the page | implemented by `AgentLoop`, instantiated by `ChatSession` |
| `AgentLoop`, `MCAgentLoop`, `AgentLoopProofs` | `run_agent` | refines `TurnProtocol` |
| `ChatSession`, `MCChatSession`, `ChatSessionProofs` | one conversation, its requests and tabs | its tools turns are those `TurnProtocol` allows |
| `FalconClient`, `MCFalconClient`, `FalconClientProofs` | token cache and retries | |
| `SecretCache` (proofs in `LoginProofs`) | `app/secrets.py` | the lookups of `Login` and `ToolCalls` are its actions |
| `Login`, `MCLogin`, `LoginProofs` | sign-in, the guard, sessions of one browser | extends `SecretCache`, an administrator included |
| `ToolCalls`, `MCToolCalls`, `ToolCallsProofs` | the tools, their templates and clients, startup and the gate of the workbench | extends `SecretCache`; one of its calls is the tool step of `AgentLoop`, its Falcon exchange a call of `FalconClient` |
| `Scorecard`, `MCScorecard`, `ScorecardProofs` | benchmark runs, `latest.json`, scorecard pages | a case is an outcome of the turn `AgentLoop` models |

### How the state and the actions correspond to the code

**ModelStore.** `files`, `meta`, `tmp` are the directory of each model.
`pc[j]` is the place of `run_job`: *marking*, *readying* and *failing* are the
three calls of `write_meta`, between the staging of the temporary file
(`Stage`) and its `replace` (`Committed`). `CommitRaises` is that write
failing: around the ready row the `except` branch of `run_job` catches it,
around the placeholder and the error row nothing does, and the thread ends
without an event (*swept* if an rmtree took the temporary file, *died* if the
mount failed). `Fetch` and `WorkerEnds` are the `snapshot_download` thread. It
ends *ok* with every file, with an *error* text, or *short*: without the files
and without a text, because the hub could not be reached and
`snapshot_download` answered with the directory as it was, or because what it
raised has an empty text or is not an `Exception`. `download` looks at the text
only (`NoErrorText`; `result["ok"]` is never read), so *short* ends in a ready
row over a partial model, and the ghost `short` notes the models whose row was
written so. `Leave` drops the locals of `download` when it returns or raises.
`PollBreaks` is the poll loop that sees the cap exceeded, `Check` the
`registry.get` after the ready row, which may find `None`. A delete lists the
directory (`DeleteBegins`) and unlinks what it listed (`Unlink`). `Restart`
kills every thread and leaves the disk. `meta.json` and temporary files weigh
nothing in `DirSize`, every weight file is one unit; rmtree's
`ignore_errors=True` on an entry that will not go is not modelled. A second
job that finds files in place "fetches" them in no bytes.

**ModelRuntime.** An object in memory is named after the request that loaded
it, so "which weights" is `want[object]`. `LoadBegins` takes the lock and
empties the slot, `LoadEnds`/`LoadRaises` give the lock back, and only then,
in a new critical section, `Capture` reads the slot. `GenEnds` and `GenRaises`
are the generation thread, which the request only joins after the streamer
ended (`StreamEnds`). `DeleteLooks` is `runtime.loaded_id == model_id` without
the lock, `DeleteUnloads` the unload under it, `DeleteRemoves` the moment at
which `registry.delete` takes the row away and `DeleteEnds` its return; the
entries it unlinks one by one are in `ModelStore`. `Unready` and `Ready` are
download jobs, which write rows as `Registry` lets them: a job may complete
over a row that a delete has taken away after its placeholder was written, and
then a load finds a ready row of a model that is partly gone (`LoadRaises`).

**Registry.** `row[m]` is what `registry.get` reports, with *downloading* and
*error* taken together as *unready*: no reader treats them differently. A
delete is *removing* while the row it has listed is still there, *removed* once
it is past it. `ModelStore` maps the content of `meta.json` to the row and what
a delete has yet to unlink to its stage; a delete of `ModelRuntime` is *idle*
to the registry while the model is unloaded.

**DownloadFeed.** Events are numbered; the last one is *done* or *error*.
`PublishBegins` copies the subscriber set, `PublishPuts` is one `put_nowait`
or the drop of a full queue. A stream is *checking* or *waiting*; a put from
the job thread does not wake the event loop, so `Wake` is its timer.
`PageAfter` is what `download.js` does, `Disconnect` the error event that
EventSource fires itself.

**AgentLoop.** One action per stretch of the generator between two `yield`s.
A message is its role and step; a tool that answers, raises or does not exist
leaves an observation all the same, so they are one action. `late` is the
clock past the deadline, `closed` the consumer gone. `Fails` covers both
generation errors, `Synthesises` the for-else branch.

**ChatSession.** `Read` and `Ask` are `get_history` and `append`, two critical
sections; `RecordPlain` records before `done`, `Return` records a tools
answer after it. `Cancel` is the server dropping the generator of a client
that left. `Hang` is a generation that raises in its thread: the stream waits for
ever, and cannot even be dropped. A tab gets its button back at the end of the stream
(`EndOfStream`), on a reload (`Leave`), or when `fetch` itself rejects
(`Cut`); a stream that breaks later leaves it disabled.

**FalconClient.** `Look`/`Take` are the unlocked check of the cached token and
the separate read that returns it, `Lock` the double check, `Issue`/`Store`
the two assignments of a renewal, `Unauthorised`/`Clear` the two assignments
of an invalidation. `NetworkRetry`/`NetworkFails` are `with_retry` around an
HTTP exchange; an HTTP error answer is returned by the callable and so never
reaches it (`Refused`, `IssueRefused`).

**Scorecard.** A page has one button, so one run at most: everything is
indexed by the page. `Choose` is the POST handler that keeps the models that
are ready, `StartModel`, `RunCase`, `FinishModel`, `Result` and `Done` are the
stretches of `run_scorecard` that end in a `yield`; `_run_case` drains the
agent loop without yielding, so it is one step with an outcome. `SaveBegins`
opens (and empties) `latest.json`, `SaveEnds` writes it; a text written over
another run's may leave that one's tail, which `load_latest` cannot parse.
`Abandon` is the generator dropped at a `yield`. `NetworkError` is `fetch`
rejecting before the request arrived; that it rejects after the handler began
is the case of a lost page. `_summarise`'s three further columns go the way of
the overall score and are left out, as is the division by the number of cases.

**SecretCache.** `lookup[r]` is the place of a thread in `get_secret` or
`get_kv_secret`: `Check` is `if name in _cache`, `Take` the separate read that
follows, `FetchOrFail` the environment and the vault, `Store` the assignment.
`Write` and `Drop` are the two halves of `set_kv_secret`. The keys
`<<"any", n>>` and `<<"kv", n>>` are the entries the two functions keep for one
secret. `Rotate` is a change made in the vault itself. Nothing in `src/` calls
`set_kv_secret`, `get_kv_secret` or `clear_cache` yet; their docstrings name
the administrator who will, and `Login` lets one act.

**Login.** One browser with several tabs and one cookie `jar`. `Send` opens the
cookie for a request (`session[t]`), `Answer` writes what the handler left of
it back, `Raise` is the 500 page, which does not go through SessionMiddleware
and so leaves the cookie alone. A flow is named after the tab that started it,
and `Old` once that tab has started another; a callback with another flow than
the session holds is MSAL's `ValueError`. The four settings of the app
registration are folded into what MSAL does (`MsalRaises`): a setting that is
missing is a 500 either way. The group is looked up step by step (`GateLooks`).
`DEV_AUTH_BYPASS` is off.

**ToolCalls.** A parameter is its kind (an address, a host name, a hash, text
that is too long ...), so the templates are the sets of kinds their validators
accept (`FqlTemplates`, `KqlTemplates`). A call is at *gate* (the workbench
asks for CrowdStrike, whatever the task), *choosing* (the checks made before
any setting is read), *config* (`configured()`), *settings* (the same settings
read again for the request), *first* and *second* (the exchanges, retries
included: those are in `FalconClient`), or *told*. Settings that one
`configured()` reads together are one secret. A reputation asks its sources in
turn, with a lookup of its own for each. `Startup` is the order in which
`lifespan` asks the integrations.

## 3. Runs

Each passing run checks safety and liveness of one module together, so it uses
the fair specification and no symmetry; `tools` has no liveness property and
takes the calls as symmetric. Deadlock is checked everywhere; the
states in which everything has been served carry an explicit stuttering step.

| Run | Bounds | Shows |
|---|---|---|
| `store` | 2 jobs, 1 delete, 2 models (one of 2 parts that declares 1, so that it passes the guards and exceeds the cap; one that the guards refuse), 1 restart, the mount may fail | `TypeOK`, `ReadyIsComplete`, `DownloadingHasJob`, `LoneJobToldTheTruth`, `JobReports`, refinement of `Registry` (`ImplementsRegistry`) |
| `runtime` | 2 chats, 2 models, 1 delete, downloads at any time | `TypeOK`, `SlotConsistent`, `KeepsAtMostOne`, `DeletedIsUnloaded`, `EveryoneIsServed` |
| `feed` | 2 browsers, 4 events, queues of 2, connections may break | `FeedTypeOK`, `NothingLost`, `FollowerIsTold`, `ClosedIsUnsubscribed` |
| `agent_turn` | 6 steps, 3 histories | `TypeOK`, `ConversationInStep`, `BoundedByDeadline`, `EndsTold`, refinement of `TurnProtocol` (`FollowsProtocol`) |
| `chat` | 2 tabs, 2 turns, 1 clear, connections may break, each kind of task | `TypeOK`, `HistoryIsFaithful`, `FollowUpsSeeAnswers`, `ButtonReturns` |
| `falcon` | 2 calls, 3 attempts, 3 tokens, 1 revocation | `TypeOK`, `EndpointIsSpared`, `RefusedTokenIsNotReused`, `CallsReturn` |
| `scorecard` | 2 pages with a run each, 2 models, a control case and one that expects a tool, turns that answer without a call or fail, 1 restart, the mount may fail | `TypeOK`, `SameQuestions`, `DoneIsStored`, `RunIsTold` |
| `login` | 2 tabs, another reader, 2 values, 2 environments, restarts at any time; an account in the group and one in none | `LoginTypeOK`, `CacheIsCurrent`, `OutsidersNeedAnOpenGate`, `UserChangesHaveACause`, `SignInEnds` |
| `tools` | 2 turns and the starting thread, 6 settings in the vault, windows of 0, 1, 168 and 169 hours, restarts at any time | `TypeOK`, `ReportsAreGrounded`, `IntegrationsDoNotFlap` |

`MCLogin` restricts `Login` to two scenarios, chosen in the initial state: both
tabs at work on every route while the secrets stay as they are and the key is
lost with the process; or one tab that signs the outsider in while the
administrator, the other reader and the vault are at work (the other tab is
quiet, and the reader calls `get_kv_secret`). Both together are out of TLC's
reach; the properties of the first scenario do not depend on secrets, those of
the second take one sign-in.

Why the bounds are enough: the properties relate at most two actors and one
that interferes (two jobs and a delete; two chats and a delete; two tabs and a
clear; two calls and a revocation; two runs and a restart; a lookup, a write
and a rotation; a late response and a sign-in), and each instance has that many. A queue
of two with four events overflows and does not; six steps reach the synthesis
after calls of every kind; two parts make a half-fetched model. The proofs
take every one of these safety properties to every value of the constants.

Runs that end in a violation show where the program does something else than
its own comments say (`findings` in `PROJECT.json` quotes them):

| Run | Property | What happens |
|---|---|---|
| `store_overcap` | `OverCapIsRefused` | the poll loop breaks over the cap, and nothing looks again before the ready row is written, with a size over the cap |
| `runtime_hang` | `CrashedChatEnds` | an exception of `model.generate` ends its thread, nobody ends the streamer, the request waits for ever |
| `runtime_wrong_weights` | `OnlyRequestedWeights` | another chat loads its model between `ensure_loaded` and the reading of the slot |

`agents/loop.py` (lines 14-15) calls a turn "bounded by max_steps and a
wall-clock deadline". `BoundedByDeadline` says how much of that holds: two
generations may start past the deadline, the one whose check came before it and
the synthesis, which has no check. And `Score` shows that a control case whose
generation failed earns eight tenths, since it called no tool.

Other places where the code does something else than a sentence near it says,
visible in the modules and not given a run:

- `app/broker.py:7-8`: the browser of a dropped subscriber "reconnects". The
  queue is dropped, the stream is not, so the browser has no reason to
  (`DropSubscriber`, and the stream that then only waits).
- `integrations/retry.py:6-7`: retries "HTTP 429/5xx". httpx returns error
  answers, and `raise_for_status` is called outside the callables, so only
  network errors are retried (`Refused`, `IssueRefused`).
- `agents/tools.py:6-7`: errors are `{"error": ...}` evidence, "never an
  exception". `_cfg`, `run_kql` and `_get_token` raise, and `_run_tool` turns
  that into evidence, so the model sees no difference (`Hear`).
- `app/routes/workbench.py:91-92`: "if a tools-task's integration isn't
  configured, fall back to plain chat with a note". The gate asks for
  CrowdStrike only, whatever the task, and there is no note (`Gate`).
- `integrations/threat_intel.py:5-6`: "any missing key, timeout or API error
  yields verdict "unknown"". With one source silent the other decides, so an
  address AbuseIPDB could not be asked about is "clean" when VirusTotal does not
  flag it, and a 404 of VirusTotal counts as nobody flagging (`Contributes`,
  `Verdict`). `ReportsAreGrounded` states the weaker thing the code keeps to:
  "clean" takes one source that looked the indicator up, or that 404; a source
  that rejected the request, refused the key, timed out or has no key never
  makes it so by itself.
- `models_engine/downloader.py:159`: what the worker raises is "surfaced to the
  caller after join". It is if it has a text; line 176 takes an empty one, and an
  end that never reached line 160, for success (`Join`). `ReadyIsComplete` says
  what is left: a ready row's size is truthful, and its files are all there
  unless the worker ended so.
- `app/secrets.py:107-111`: after `set_kv_secret`, reads see the new value.
  What `get_secret` cached for the same secret stays (`Drop`).

### Fairness, and why the code justifies it

- *ModelStore*: as long as a thread of a started job lives, the threads get on
  (the hub client times its requests out). One weak fairness over all jobs is
  enough, since no job takes steps for ever. Nothing forces a request to be sent, a delete to be
  made or the process to restart.
- *ModelRuntime*: threads run on, loads and generations end. Nothing is assumed
  of the order in which waiting threads get the lock, of downloads, or of
  clients. `EveryoneIsServed` excuses a generation that crashed; `runtime_hang`
  shows why it has to.
- *DownloadFeed*: the job thread publishes, and the loop wakes at the latest
  when the keepalive timer fires. Pages are opened or not.
- *AgentLoop*: the consumer drains the generator or closes it, and `generate`,
  which is injected, returns or raises. With the runtime underneath, a crashed
  generation does neither (`runtime_hang`); `EndsTold` does not speak of it.
- *ChatSession*: handlers run on; strong fairness only on the end of a stream,
  because tokens are bounded by `MAX_NEW_TOKENS` and agent turns by
  `max_steps` (that they end is what `AgentLoop` shows), and only for streams
  whose generation does not crash: such a stream is *hung* and owes nothing
  (`runtime_hang` shows why). `ButtonReturns` excuses, by name, the tab that
  waits for one and the tab whose connection broke while it was reading
  (`Stuck`). A tab reads the end of the stream it waits for; users owe nothing.
- *Scorecard*: requests and generators run on and cases end (the generations
  of `ModelRuntime` excepted that crash, see `runtime_hang`); a page reads to
  the end of its stream. Nobody has to start a run.
- *Login*: requests are served, browsers follow redirects, and a user at the
  identity provider signs in, is refused or leaves. `SignInEnds` assumes more
  in its premise, because it needs it: no restart and no new page in the end,
  and the other tabs at rest.
- *FalconClient*: HTTP exchanges end within their timeout. The lock goes to
  some waiter.

## 4. Proofs

All theorems are of the form `Spec => []P` (or a refinement), for every value
of the constants allowed by the named assumptions of each module
(`ConstantsAssumption`, `FeedAssumption`, `SecretsAssumption`,
`LoginAssumption`, ...), which TLC evaluates in the runs. Every invariant, action
property and safety refinement that a passing run checks is proved.

`LoginProofs` holds the theorems about `SecretCache` and `Login`;
`ToolCallsProofs` extends it, because the tools look their settings up in the
same cache and cite its lemmas. `DownloadProofs` extends both the store and the
feed, whose names are disjoint for that purpose.

- **`DownloadProofs`, the store.** `TypeCorrect`. `ReadyRowsAreComplete` by the
  inductive `ReadyInv`: ready alone is not inductive, one has to know that a
  running job's fetched files are still there and that the ready row it staged
  is true, or of a worker that ended *short* (`JobView`), that a worker that
  returned *ok* fetched everything (`WorkerView`), that
  the files a row has counted stay (`DirSizeGrows`, but for deletes), and that a delete under way has marked its model disturbed.
  `DownloadingRowsHaveJobs` by `OwnerInv`: a downloading row has an *owner*, a
  job that has yet to overwrite it. The difficult case is a job whose staged
  error row is unlinked by a delete: it is no owner any more, but then that
  delete has listed, or has already unlinked, the row itself. That needs
  `NameView` (which jobs the temporary files in a listing belong to).
  `LoneJobsTellTheTruth` from `TruthInv`: an event ends its job, a staged row
  is the one the job is going to report, and whoever is alone with a model now
  was alone with it before.
  `StoreImplementsRegistry`, the refinement: only the rename of `write_meta`
  and the unlinking of `meta.json` move the registry. That a ready row replaces
  a row, or one that a delete has taken away, needs `RowsWereThere` (a job past
  its placeholder has its model's row on disk unless a delete is past it) and
  `StagedAsPlanned` (a job only stages the row its place names).
- **`ModelRuntimeProofs`.** `TypeCorrect`; `SlotStaysConsistent` and
  `AtMostOneIsKept` from `LockInv` (the lock is held exactly by the request
  that loads, and the slot is empty while it does); `DeletedStaysUnloaded`
  from `DeleteInv` (a delete past its look knows of every load it overlaps).
  `RuntimeUsesRegistry`: the rows move by the steps of `Registry`. With
  `StoreImplementsRegistry` this says that the runtime is modelled over what
  the store provides, not over an invention of its own.
- **`DownloadProofs`, the feed.** `FeedTypeCorrect`; `NothingIsLost` from
  `FeedInv`, with lemmas on what moving a head from one sequence to another and
  appending do to their concatenation.
- **`DownloadProofs`, both.** `PagesTellTheTruth`: in every behaviour of the
  store and of the feed of one job j, a page that reloads finds j's model ready,
  of a size that is on disk and whole unless j's worker ended *short*, and one that shows j's failure finds the error row, as long as no
  other request touches the model. The hypothesis `[]Carries(j)` says that this is
  j's feed: the last event is published when j has its outcome, and tells it,
  which is what `_emit` at the end of `run_job` does; a job that dies or is cut
  off never publishes it, which the hypothesis allows. The proof adds that
  queues hold published events only, so that a page's news is the last event
  (`ToldInv`), and that only a delete that has begun disturbs a model
  (`DisturbersBegan`). A page whose connection was cut shows a failure whatever
  the job did; the second half is for connections that hold.
- **`AgentLoopProofs`.** `TypeCorrect`, `GenerationsAreBounded` and
  `ConversationStaysInStep` from `LoopInv` (what the program counter says of
  step, last event and message count); `LoopFollowsProtocol`, the refinement:
  every step of the loop is a step of `TurnProtocol` or a stutter under
  `calls <- step (+ 1 inside a call)`.
  `DeadlineBoundsTheTurn` from `LateInv`: an iteration only begins before the
  deadline, so no late generation of the loop precedes another one of it.
- **`ChatSessionProofs`.** `TypeCorrect`; `HistoryStaysFaithful` from
  `HistoryInv`: the place of a turn says what it may have heard (`PlaceView`)
  and which of its messages the history holds (`MessageView`). Since the
  history only grows at its end or is emptied (`PlacesAfterAppend`), a step of
  one turn leaves the places of all other messages alone (`OthersHistory`).
  `FollowUpsAlwaysSeeAnswers` adds that a turn a tab saw complete is recorded
  and stays so (`ToldInv`, `ToldIsStored`), which is true of tools tasks only
  because the button waits for the end of the stream.
- **`ScorecardProofs`.** `TypeCorrect`; `RowsAreComparable` from `WholeInv`:
  the shown rows are whole because the cards of runs under way and the text of
  the file are, which takes that a running generator has a model (`AtWork`).
  `DoneStaysStored` from `StoredInv`: the table follows the card of the run
  (`CardShown`), and the file is as its last opener left it until another run
  opens it (`FileIsOurs`).
- **`FalconClientProofs`.** `TypeCorrect`; `RenewalIsSingle` (whoever issues or
  stores holds the lock, and issues only when no token that counts is cached:
  `RenewerHoldsLock`). `EndpointStaysSpared` by keeping accounts (`Account`):
  the tokens issued, the one that is due when the cache lacks a valid one, and
  one for each call between the two assignments of an invalidation are at most
  the first token, the lapses and twice the invalidations. The bound alone is
  not inductive: what a cleared entry will cost has to be booked when it is
  cleared. `RefusedTokenStaysAway` from `RefusedIsGone`: a refused number is
  not in the cache any more, and numbers only grow.
- **`LoginProofs`, the secret cache.** `SecretsTypeCorrect`; `CacheStaysCurrent`
  from `CurrentInv`: the cache is as good as what threads are about to store in it
  (`HeldWasThere`, `HeldIsSeen`), and the drop notes the threads that straddle
  it. Both are about `SecretsSpec`, with every lookup, write, drop, rotation
  and restart at any time. `Login` and `ToolCalls` take steps of it only
  (`LoginImplementsSecretCache`, `ToolsImplementSecretCache`), so both inherit
  them (`LoginCacheIsCurrent`).
- **`LoginProofs`, signing in.** `LoginTypeCorrect`, which needs `AtGate`: a
  tab that waits for the group has an account to decide on and a lookup of the
  group under way.
  `OutsidersStayOut` from `OpenGateIsNoted` (an empty group in the cache, or on
  its way into it, comes from a lookup that `missed` has noted): as long as
  nothing was missed, an account of no group is neither in the cookie nor in
  the session of a request under way, from where it could come back.
  `UsersChangeForACause` from `InStep`: a request that straddles nothing still
  carries the user that is signed in, so the cookie its response writes back
  changes nothing; only the three causes break that, and they mark the
  requests under way as straddling.
- **`ToolCallsProofs`.** `TypeCorrect`, for which each step of a call is shown
  to update it in one of eight forms (`Updates`). `ToolsImplementSecretCache`:
  every behaviour of the tools is one of `SecretsSpec`. `IntegrationsNeverFlap`
  from `FlapInv`: an integration that startup has passed is cached for good
  (`StartupFirst`), so a call's lookup of it never fetches or stores and takes
  what is there (`CallsTake`), a call decides by the setting it asked for
  (`PlaceAsks`), and what it noted is what the cache says (`SeenIsCached`). It
  holds only because `lifespan` looks first: the mutant that starts without
  those lookups violates it in the run. `ReportsStayGrounded` from
  `GroundedInv`: before it is told, a call has heard no more than its place in
  the handler says (`HeardByPlace`).

Only model-checked: the liveness properties (`JobReports`, `EveryoneIsServed`,
`FollowerIsTold`, `ClosedIsUnsubscribed`, `EndsTold`, `ButtonReturns`,
`CallsReturn`, `RunIsTold`, `SignInEnds`), since fairness and ENABLED are out
of the prover's reach, and the three runs that end in a violation. Induction
over data is out of reach as well; the modules have no recursive operator.

Proof attempts corrected the model in two places. The runtime's `Ready` used to
ask for a row at the moment a job completes; the store does not (a delete may
have taken the placeholder away), so the refinement failed and the guard is now
that of `Registry`. And the two arms of a `CASE` in `PageAfter` overlapped, so
that the formula did not say which of them applies to an event before the last;
TLC takes the first, a proof may not.

## 5. Not modelled, and the plan

Not modelled: the text of prompts, answers and queries, and the shape of the
rows shown; template rendering and styling; the creation and closing of the
shared HTTP clients; `DEV_AUTH_BYPASS`; YAML loading; the container;
`infer_type` and `threat_intel.configured`, which no caller needs. A topic of
the feed, a conversation and a token entry stand for all of their kind: they
share nothing but dictionaries keyed by them.

Next, in this order:

1. What the refinements give together: the properties of `TurnProtocol` that
   `ChatSession` relies on, and those of `Registry` that the runtime does, as
   theorems of the abstract modules.
2. Bounds that the runs show only on small instances: how many generations
   hold weights at once, and how long a renewal may keep the token lock.
