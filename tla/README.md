# TLA+ models of the Nodus Python SDK

This directory holds TLA+ specifications of the parts of the SDK (`src/nodus/`)
whose correctness depends on interleaving, loss, retry and restart: durable
steps and the agent session they run in, the submission of paid work, the
observation of a workload, the two assistants, workspaces, and the protocols by
which the client reads, transfers, pays, rents, changes services and answers
its user. TLC checks them on small instances; TLAPS proves, for all values of
the constants, the safety properties of durable steps (with the refinement of
their abstract specification), of submission, observation, the parallel
assistant and workspaces. `PROJECT.json` maps every
definition to the source lines it models and lists the runs, the hazards and
the theorems.

Contents: [the system](#the-system), [modules](#modules),
[what each run shows](#what-each-run-shows), [bounds](#bounds),
[fairness](#fairness), [proofs](#proofs), [divergences found](#divergences-found),
[what is not modelled](#what-is-not-modelled),
[limits worth knowing](#limits-worth-knowing), [plan](#plan),
[running the checks](#running-the-checks).

## The system

The SDK is a client library. All durable state lives on servers that are not
in this repository (the control plane behind the public API, the run journal
behind a sandbox's private socket); the repository is what talks to them. So
the interesting state of a component is mostly *volatile knowledge about
remote state*, and the hard behaviours are those in which that knowledge is
stale, lost or duplicated.

| Component | State it keeps | Operations | Interacts with | Hard behaviour | Correct when |
|---|---|---|---|---|---|
| Durable steps, `_steps.py` | the call in progress: executed, claim token, tries | `step` / `invoke` | session, journal, the application's functions | lost claim and complete answers, failing functions, retries, stale drivers | an external function runs once per permission; a result is returned only when recorded; state and result commit together |
| Agent session, `_agent.py` | scope (run, token, epoch), `failed`, checkpoint id, renewal thread | `resume`, `checkpoint`, `healthy`, waits, `_RPC.call` | journal, host capture, supervisor | a renewal thread beside the driver, two drivers on one run, polling, 3 transport attempts | a superseded or failed session records nothing new |
| Run administration, `_agent_runs.py` | none | `resolve`, `get`, `steps`, `events` | public API | an operator decides on an unknown outcome while drivers may still run | only unknown steps are resolved |
| Workload submission and transport, `__init__.py` | attempt, time slept, idempotency key | `_request`, `run` | control plane | a timed-out request may still arrive, server-chosen hints | one workload per call, bounded sleeping, a usable error |
| Workload observation, `__init__.py` | event cursor, failures in a row, deadline | `wait`, `events`, `iter_events`, `stream_events` | control plane | pages and status are separate requests, transient failures, widening backoff | no event lost or repeated, ends when the workload does, keeps deadlines |
| Children, `_agent_children.py` | none (receipts) | `spawn_child`, `await_children`, `next_child_completions`, `cancel_child`, `child_result` | journal | replay of every call, frozen pages, yields | same receipts on replay, no outcome skipped |
| Peer messages, `_agent_messages.py` | none (receipts) | `send_message`, `receive_messages` | journal, other runs | closed recipients, frozen batches, yields | a message is recorded once and delivered in one batch |
| Parallel assistant, `managed_parallel_assistant.py` | loop positions; the rest is replayed | `main`, `_worker`, `_plan`, `_specialist`, `_finish` | children, messages, model calls | a ring of runs waiting for each other, cancellations, crashes anywhere | whole answer or failure; everyone ends |
| Single assistant, `managed_assistant.py` | `conversation.json` | `main`, `_answer` | steps, model calls, blobs | the driver dies between saving the file and recording the answer | one model call per run; the saved conversation is that of the recorded answers |
| Broker and model calls, `_agent_broker.py`, `_agent_models.py` | invocation identity, page position | `_invoke`, `request` | journal | identity must not change while polling; a result comes in pages | never a second paid call; a replay gets the same answer |
| Artifacts and blobs, `_agent_artifacts.py`, `agent_runtime.py` | acknowledged offset | `put`, `get`, `put_blob`, `get_blob` | journal | resumed uploads, asynchronous verification | committed bytes are the bytes given |
| Sandboxes, `_sandboxes.py`, `_sandbox_files.py` | output cursor, chunk offset | create, execute, `iter_output`, wait, files | control plane | output that grows and files that change while they are read | no byte lost, ends at the stored end, no mixture of two writers |
| Workspaces, `_workspaces.py`, `_workspace_files.py`, `_workspace_archive.py` | last view: state, revisions, session | start, stop, upload, configure, delete; packing | control plane, file system | read, then act on what was read | acts on the session and revision it saw, or not at all |
| Compute and pools, `_compute.py`, `_pools.py`, `_pool_*.py` | last answer | launch, route, confirm, decide, kill switch, totals | control plane | repeated launches, expiring and superseded proposals, clocks | one machine per key; a decision is of what was shown |
| Changes of services, `_operations.py`, `_agent_runs.py`, `_managed_agents.py`, `_secrets.py`, ... | idempotency key or revision | create, update, submit, signal, cancel, ... | control plane | an answer is lost, the transport repeats, the caller repeats | one effect per wish, nothing undone, nothing claimed that did not happen |
| Login and configuration, `login.py`, `config.py` | device code, cadence, deadline; credentials file | start, poll, save, logout | control plane, file system | a key that is handed out once; slow-downs | stops at the deadline; the key is stored or shown |
| Projects, assets, outputs, `_projects.py`, `_assets.py`, `_outputs.py`, `_local_files.py` | temporary files, upload cache | pack, upload, import, download | file system, control plane | files edited while packed; interrupted and concurrent publication | a verified whole file or none |
| RL events, `_rl_events.py` | one lock, identities | emit | threads, a stream, the runner | threads write one stream; a runner's own encoding | whole lines, one identity per attempt, nothing dropped |
| CLI and MCP, `cli.py`, `_agent_cli.py`, `_terminal.py`, `_mcp*.py` | what was printed | every command | user, client | interrupts; messages that advise the next command | following the advice does not do it twice; what is said is so |
| Brief, workload files, types | none | validation and conversion | - | none of their own | - |

How they meet: the application's entrypoint runs inside `resume` (or
`agent_runtime.run`), which opens a session on the journal; every durable
operation (step, wait, child, message) takes a checkpoint through the session
and then sends one RPC carrying the session's scope and the checkpoint's id. A
supervisor outside the repository restarts drivers; a new session has a higher
epoch and fences the older ones. The parallel assistant is an application of
exactly this kind, as several runs at once. The account client (`Client`) is
used from outside, on an unreliable network, and never by a managed run. The
command line and the MCP server are programs over `Client`; their user reads
what they print and types the next command.

## Modules

| Module | Role |
|---|---|
| `AgentJournal` | the run journal: step records, sessions, checkpoints, the committed state version. External: taken from what `_steps.py` and `_agent.py` send and read, with the fixture of `tests/test_agent_steps.py` as the example of a server |
| `DurableSteps` | extends `AgentJournal`; drivers running `invoke` over the session and RPC layers |
| `RecordedSteps` | the abstract promise of durable steps, implemented by `DurableSteps` |
| `DurableStepsMC` | the effects TLC uses |
| `DurableSteps_proofs` | type correctness, `ResultsAgree`, `GrantInv`, `ExternalOnce`, `CompletedNotRerun`, `ImageMatchesJournal` and the refinement of `RecordedSteps` |
| `Submission`, `SubmissionMC` | `run()` over `Client._request`, the network and an application that retries |
| `Watching`, `WatchingMC` | `wait`, `iter_events`, `stream_events` and `_WaitPolicy` against a workload |
| `Team` | the parallel assistant over children and peer messages |
| `Workspaces`, `WorkspacesMC` | handles on one workspace, its sessions, configuration and saved files |
| `Executions`, `RemoteFiles` | a sandbox's command output and waits; its files in chunks |
| `AgentCalls`, `Artifacts`, `Assistant` | a managed driver's paid calls, waits and continuations; large results; the single assistant |
| `Downloads`, `Snapshots`, `Projects`, `Imports` | publication at a local path; packing a directory; project uploads and their cache; imported queries |
| `Launch`, `Pools`, `Measurements` | launching a machine; pool changes and decisions; totals over hours |
| `Listings`, `Progress` | paged listings; what the display of a wait reads and prints |
| `Mutations`, `AsyncTasks` | calls that change a service; a task that is cancelled at its awaits |
| `Login`, `Commands` | the device exchange and the credentials file; changing commands and their messages |
| `RLEvents` | a trainer's event lines, identities and sizes |
| `Submission_proofs`, `Watching_proofs`, `Team_proofs`, `Workspaces_proofs` | the theorems about these modules, with their inductive invariants |
| `Services` | the nineteen modules from `Executions` to `RLEvents`, composed; `ServicesMC` has their values for TLC |
| `Effects_proofs`, `Replays_proofs` | theorems about these parts, each by itself |
| `Services_proofs` | theorems about the parts that read page by page, and about the composition from those of its parts |

Definitions marked `mutant:` in a comment are not part of a specification.
Each stands before the definition of the code it deforms (a dropped guard, an
off-by-one, an answer not read) and documents which mistake a property
catches. `PROJECT.json` names one mutant per property of a passing run; where
such a property is a conjunction, the others show that each conjunct can be
broken as well (listed under [the services](#the-services)).

### AgentJournal and DurableSteps

A *session* is a number, its epoch. Per session, `pc` says where its driver is:

| `pc` | code |
|---|---|
| `driver` | the entrypoint, between steps |
| `claim`, `unknown`, `complete`, `finish` | waiting in `rpc.call` of that action |
| `run`, `body` | the grant is held / the step's function was entered |
| `begin`, `poll` | inside `_Session._checkpoint` |
| `raised` | the step call raised to the entrypoint |
| `off`, `dead`, `done` | not opened / `resume` raised or the process died / finished |

The actions follow `invoke` from top to bottom: `CallStep` (41-58),
`ClaimReply` (decision execute, replay or anything else), `Execute`,
`BodyReturns`, `BodyRaises` (with the unknown report and the retry of
`UnknownReply`), `BeginReply` and `PollReply` (checkpoint), `CompleteReply`.
`Raise` is the `finally`/`except` structure: an error leaves the call and, on a
run with a recovery policy, poisons the session once the function was entered.
`EntrypointCatches` and `EntrypointPropagates` are what an application can do
with an error. A reply action is the moment the journal applies the request
*and* the driver reads the answer; every other order is `TransportError` (the
answer is lost, `_RPC._call` tries again or gives up) together with
`LateDelivery` (the request is applied after its client moved on).
`RenewalFails` is the renewal thread, at any moment. `Open` is `resume` up to
the entrypoint, also beside a driver that is still alive; opening a session
whose answer is lost is `Open` followed by `Crash`.

Values are abstracted to the execution that produced them: a step's result is
the claim token it ran under, a file in the state folder is the pair of step
and token.

An operator (`Resolve`, `AgentRuns.resolve` and `ManagedRun.resolve`) decides
about an unknown external step: no effect, completed, or cancelled
(`_agent_runs.py:35-46`). `completed` records result 0, which no execution
produced, and keeps the committed state; or, under `checkpoint-v1`, it names a
`checkpoint_id` (`_managed_agents.py:262-270`), a verified candidate of the
uncertain execution. Then the recorded result is that execution's and its files
become the committed state in the same step (`JournalSelect`,
`docs/guides/managed-agents.md:386-392`). Until a new session restores them the
run is `resolved`: no session that started from other files commits anything.
`RecordedSteps` has both decisions, so the refinement includes them.

Assumptions about the journal, which the code cannot show: requests of a
session that is not the newest are refused; a claim resent with its own
request id may be answered with its grant again *or* as unknown; a new session
turns started steps into unknown; a completion names a verified checkpoint
taken for exactly it; completing twice with the same token and result is
acknowledged twice; a selection of saved state fences the sessions before it. Of
the operator: the evidence is right, and a candidate is not selected if that
would discard completed progress, as the same page asks ("do not select an older
checkpoint"). `JournalResolve` is restricted to external steps.

### Submission

One `Client._request` loop (`Send`, `NoAnswer`, `Accepted`, `Redirected`,
`Busy`, `Refused`, `Wake`) inside `Run`, an application that calls `run()`
again after an error, with the key the error carried if it carried one. A
request without an answer stays in `transit` and may be accepted later
(`Arrive`), also after the call has ended. Time is counted in half seconds,
the unit of `_backoff`.

### Watching

One client in one of three modes beside a workload that records events
(`Progress`) and ends (`Conclude`) between any two requests. A poll is a whole
`_request`; `PollFails` is one that raised, permanent or transient, with or
without `retry_after`; `SlowPoll` is the time a poll takes. `HoldFor` is
`_WaitPolicy.hold` with its deadline. Only waits with a deadline keep a clock.

### Team

The coordinator (`main`) and the specialists (`_worker`) as runs that start
from the beginning after every yield or crash and replay what is recorded:
plan replies, children, messages, inbox batches, completion pages, draft and
review steps. A yield is `"waiting"`; the run is driven again when there is
something to read. Checkpoints and sessions, which `DurableSteps` covers, are
not repeated here: a lost answer, a failed checkpoint or a superseded session
is a crash after or before the recorded operation. Pages and batches are
frozen by their wait id; their sizes are chosen freely among what is available.

### Workspaces

A behaviour is about a workspace, which saves its project, or a standalone
instance, which has none and whose start alone is replayed by its key
(`_compute.py:226`, `tests/test_compute_launch.py:884-885`). A repeated start of
a workspace begins another session unless one runs (`NothingToStart`).

A handle is `Workspace` or `AsyncWorkspace`: it keeps the `View` of the last
answer (state, session, file revision, configuration and its revision) and a
call in progress. `start`, `stop`, `configure`, `refresh`, `wait_until_ready`,
`upload` and `delete` act on the view, one action per request. The server
(`ws`) starts sessions by request or schedule, makes them ready, saves their
files, fails and ends them, and verifies, publishes or discards uploads,
between any two requests of any handle. A lost answer leaves its request under
way (`late`) or applied; a request that is answered in the end, or refused,
may have had such an attempt before (`Ask`). What the server refuses (a
revision that is not the current one, a session that has gone, an upload while
compute runs) is taken from `openapi/openapi.yaml`; without these refusals the
SDK alone could not keep `NoChangeUndone` and `NoFilesOverwritten`, and with
them but without naming what was seen, it would not keep them either, as the
mutants show.

### The services

Nineteen modules share no state. `Services` composes them: a behaviour
belongs to one `part`, and each property of the run is a conjunction of the
properties below, one per part it is about. They are one run because they are
one question (what the client promises across losses and other actors) and
because they are small.

| Module | Actors and faults | Property (mutant that breaks it) | Conjunct of |
|---|---|---|---|
| `Executions` | a process that writes, storage that lags, a reader, a waiter | `OutputComplete` (`FinishedWhenDone`), `WaitKeepsTime` (`PollTimeoutWhole`) | `ReadsComplete`, `DeadlinesKept` |
| `RemoteFiles` | two writers, a reader, edits of the local file, lost and late requests | `WriteIsWhole` (`UnchangedForgotten`), `ReadIsWhole` (`ChunkVerifiedBySize`) | `TransfersWhole` |
| `Downloads` | two downloads, the user, renamed directories, kills, torn answers | `PublishedWhole` (`VerifiedByLength`), `PublishesBeside` (`LinkableUnseen`) | `PublishedWhole`, `NothingOverwritten` |
| `AgentCalls` | two sessions, late admissions, unknown outcomes, expired results, a closed broker, an entrypoint that catches any error and tries again | `PaidOnce` (`FailsSessionNever`), `RepliesAgree` (`IdentityPerSession`), `LeavesRecorded` (`NoAnswerLeaves`) | `PaidOnce`, `ReplaysAgree` |
| `Artifacts` | two sessions with one object, late requests, lagging durability | `CommittedIsGiven` (`SettledWhenSent`) | `TransfersWhole` |
| `Login` | two logins, a logout, a limiter, failing writes, kills | `KeyAccountedFor` (`ShowNothing`, `StoredNameKept`), `PollsWithinDeadline` (`PauseWhole`) | `KeyAccountedFor`, `DeadlinesKept` |
| `Launch` | repeated launches under one key, late starts, the user's own starts and stops | `OneMachinePerLaunch` (`AfterCreateUnchecked`) | `PaidOnce` |
| `Listings` | items that come and go, empty pages, a server that repeats any cursor | `ListingComplete` (`EndsWhenEmpty`), `ListingEnds` (`RepeatsNever`) | `ReadsComplete`, `ListingEnds` |
| `Commands` | a user who follows the messages, interrupts at every wait, also two without a handler, lost answers, cancellations | `OneEffectPerWish` (`AdviceByName`), `NothingUntold` (`NamedSilently`), `SaidIsSo` (`ReportsPrior`) | `PaidOnce`, `NothingUntold` |
| `Snapshots` | edits, replaced files and directories while packing | `SnapshotOfAMoment` (`DirectoryAny`), `FilesWhole` (`OpensAny`, `ReadAny`) | `SnapshotTaken` |
| `Pools` | two callers, a passing clock, bursts, proposals, late requests | `ConfirmedHeld` (`RouteConfirmedByRate`), `DecisionsAgree` (`BurstConfirmedDecided`), `RecordsReadable` | `ReplaysAgree` |
| `Measurements` | windows of hours over day and cycle boundaries | `TotalsJudged` (`IntervalFull`) | `ReadsComplete` |
| `Progress` | a workload that is retried, live output that falls silent or disappears | `OutputShown` (`AgainNever`, `BeyondAll`) | `ReadsComplete` |
| `Projects` | two threads or tasks, edits, restarts that lose the cache, late requests | `MadeFromThis` (`CacheRefusesNever`), `RefusedForChange` (`UploadKeyBare`) | `TransfersWhole` |
| `Imports` | a query that is slow or fails, slow requests, interrupts | `OverInTime` (`HttpTimeWhole`), `ExportNamed` (`RaisesPlain`) | `DeadlinesKept`, `NothingUntold` |
| `Mutations` | transport repetitions, caller repetitions, other authors, edited payloads, misread answers | `OneEffectPerWish` (`KeyFresh`), `ReturnedIsDone` (`MisreadTrusted`), `NoEditUndone` (`BaseCurrent`), `AppliedAsAsked` (`PayloadShared`), `QuietExit` (`SwallowsAll`) | `PaidOnce`, `NothingUntold`, `ReplaysAgree` |
| `RLEvents` | two threads and one stream; identities; the runner's encoding | `LinesWhole` (`AcquireNone`), `AttemptsKept` (`FieldBare`), `NothingDropped` (`GrowthNone`) | `TransfersWhole` |
| `AsyncTasks` | cancellations at every await, a closing loop, late requests | `OneWorkload` (`KeyFresh`), `ToldOrCancelled` (`ToldNever`), `CancelPursued` (`CancelledAgainBare`) | `PaidOnce`, `NothingUntold` |
| `Assistant` | drivers that die between any two steps, checkpoints accepted later | `ConversationKept` (`AfterSavedLast`), `AskedOnce` (`CheckpointsAlone`) | `ReplaysAgree`, `PaidOnce` |

How state corresponds to code:

- *Time* is a counter in the unit of the code's own constants (seconds, half
  seconds in `Login`, hours in `Measurements`); a request takes one of a few
  durations, chosen when it is answered.
- *Bytes* are chunks, pieces or frames, named by who wrote them and when, and a
  hash is the content it is of. A text is its size where a limit on size is
  the matter (`Assistant`, `RLEvents`).
- *Requests* whose caller gave up stay in a variable of their own (`wires`,
  `transit`, `late`, `wire`, `afloat`) and may be applied at any later moment,
  or never.
- *Keys* are values, not strings: `Mutations` gives each changing method of the
  SDK a `rule` (the caller's key, a generated one, a revision, none), read off
  the method, and the transport and the caller's repetitions are common.
- *The user* is an actor in `Commands`, `Login` and `Downloads`: a command's
  last message decides which command comes next.

## What each run shows

| Run | Module, cfg | Shows |
|---|---|---|
| `durable_legacy` | `DurableStepsMC`, `DurableSteps_legacy.cfg` | without recovery policy, two overlapping sessions and three faults, a step that is retried within its call: `ExternalOnce` (an external function is entered once plus once per clearance), `GrantInv` (why it is) and `TypeOK` |
| `durable_recovery` | same, `DurableSteps_recovery.cfg` | under `checkpoint-v1`, three sessions and operators who may select saved state: `ResultsAgree` (what any session's call returned is the recorded result), `CompletedNotRerun` (the newest session replays instead of running), `ImageMatchesJournal` (the committed state version contains exactly the writes of the executions whose results are recorded) and `ImplementsRecordedSteps` (refinement of `RecordedSteps`) |
| `durable_live` | same, `DurableSteps_live.cfg` | every opened session ends; with repeatable steps and more sessions than faults the run completes |
| `submission` | `SubmissionMC`, `Submission.cfg` | one workload per call (one in all with an explicit key), one sleep budget, every call ends |
| `submission_key` | same | a divergence, below |
| `watching` | `WatchingMC`, `Watching.cfg` | events without gap or repetition, complete `iter_events`, no return before the end, no sleep past the deadline, calls end with the workload or the deadline |
| `watching_terminal` | same | a divergence, below |
| `team` | `Team`, `Team.cfg` | no partial answer; every completed specialist reviewed its predecessor's recorded draft; a specialist fails only because its successor was cancelled; the coordinator stops specialists only after a customer cancellation took effect |
| `team_live` | `Team`, `Team_live.cfg` | every specialist ends and the coordinator answers, or fails for one of two named reasons, although they wait for each other in a ring |
| `workspaces` | `WorkspacesMC`, `Workspaces.cfg` | `StopEndsSession` (when a stop returns, the session that was available when it was called is stopping or over), `OneSessionPerIntent` (a start repeated after a lost answer is asked for under one key, and rents an instance once), `FinalizedWhole` (a published archive has all its segments), `NoFilesOverwritten` and `NoChangeUndone` (saved files and configuration are replaced only by somebody who had seen them) |
| `workspaces_stop` | same, `Workspaces_stop.cfg` | a divergence, below |
| `services` | `ServicesMC`, `Services.cfg` | the nineteen protocols of [the services](#the-services): reads are complete, given times are kept, transfers and snapshots are whole, what costs money happens once, accounts agree, nobody is left without a word, nothing is overwritten, listings end |

`CompletedNotRerun` is deliberately about the newest session: a superseded
driver that holds an old grant does enter the function of a step that was
completed in the meantime. The code cannot prevent it, and TLC shows it when
the exception is dropped. For external steps `ExternalOnce` still holds,
because a grant left by a superseded session is *unknown* until an operator
clears it.

## Bounds

| Constant | Value | Why it is enough |
|---|---|---|
| `StepCount`, `Effect` | 2 steps, pure and external (recovery: external first; live: pure and idempotent) | properties relate one step to the session around it; the second step exists to observe what the first one left in the state folder, also when that is what an operator selected |
| `MaxSessions` | 2 (recovery, live: 3) | two drivers overlap, one supersedes; the third restores what an operator selected after the second made a step unknown; the live run needs one more session than faults |
| `MaxCalls` | 3 (recovery: 2, live: 1) | a step call that fails, is caught, fails again and is skipped; a function is retried within its call only without a recovery policy, so these retries are the legacy run's |
| `MaxFaults` | 3 (recovery, live: 2) | three lost attempts exhaust an RPC, in the legacy run; with fewer, a lost answer combines with a crash or a renewal failure |
| `MaxRetries`, `MaxSubmits` | 2, 2 | the client's default; a call and the one that repeats it |
| `Hints` | none, 100 s, 20 min | below and above the cap of 300 s: one capped hint uses up the budget exactly, two of 100 s leave some, and a long one after a short one is cut to what is left |
| `PageCap`, `MaxEvents` | 2, 5 | full, short and empty pages |
| `MaxFailures`, `Deadlines`, `RetryAfters`, `RequestTime` | 5, none or 45 s, none, 7 or 120 s, 31 s | doubling from 2 s reaches the 30 s cap at the fifth failure; a deadline that is no multiple of any interval; hints on both sides of the cap; one slow poll does not use up the deadline, two do |
| `MaxWorkers` | 3 (live: 2) | in a ring of three predecessor and successor differ; the ring of two is the other special case |
| `MaxCrashes`, `MaxCancels`, `MaxUnusable` | 1, 1, 0 (live: 1, 1, no limit) | one killed execution at any point; the planner's bad replies do not interact with the team and are left to the live run |
| `Workspaces` | 2 handles (symmetric, synchronous or asynchronous), 2 calls each, 2 sessions, 3 revisions, 1 lost answer, 2 segments, 2 fields | one handle acts on a view the other, a schedule or the server has outdated twice; a transfer can be interrupted between segments |
| `Services`: actors | two of each kind that meet (writers, downloads, sessions, logins, threads, tasks; `Pools`: a thread and a task) | what one leaves, the other finds |
| `Services`: data | 2 chunks, pieces or pages; 5 frames in pages of 2; 3 items in pages of 1; 2 events in pages of 1 | a first, a middle and a last piece; a full, a short and an empty page |
| `Services`: repetition | 2 or 3 calls, 2 sessions, 1 edit or restart (3 edits in `Snapshots`), 1 death | each repetition meets what the one before left |
| `Services`: time | lifetimes, intervals and hints in small units on both sides of each limit; days of 3 hours and cycles of 4 | boundaries fall inside, at and between requests |
| `Services`: sizes | texts 1, 2, 5 against a limit of 4, one kept turn; event sizes against 100 bytes, numbers at the exponents where two encodings differ | each of "fits", "cut" and "refused" occurs |

`InstancesMeetTheirAssumptions` in `Services` states the named assumptions of
all nineteen modules for these values; TLC evaluates it.

All cfgs switch the deadlock check off: runs complete, sessions and calls are
used up, and a finished client has nothing to do. Where stopping too early
would be wrong and liveness was within reach, a liveness property says so.

## Fairness

- `DurableSteps`: weak fairness of each driver's own steps (an RPC attempt is
  answered or times out after 10 s, and the function returns), of the host's
  capture of a pending checkpoint, and of the supervisor opening a session when
  no driver is left. Faults, the polling deadline, operators and late
  deliveries are not fair.
- `Submission`: weak fairness of the call in progress; every attempt has a
  timeout. Late arrivals are not fair.
- `Watching`: weak fairness of the client's thread. The workload need not end.
- `Team`: weak fairness of the coordinator, of each specialist and of
  requested cancellations being carried out. That a failed run is driven
  again, or that a customer cancels, is not assumed.
- `Services`: weak fairness of a listing's next page, once it has begun; its
  thread does nothing else, and a request has a timeout. Nothing else is fair,
  and the other properties are safety.

## Proofs

`tlapm` proves the following for every value of the constants: any number of
steps, sessions, calls, handles, workers, events, retries and faults, every
assignment of effects, with and without a recovery policy.

| Module | Theorem | States |
|---|---|---|
| `DurableSteps_proofs` | `TypeCorrect` | `Spec => []TypeOK` |
| | `ResultsNeverDiffer` | `Spec => []ResultsAgree` |
| | `GrantsAccounted` | `Spec => []GrantInv` |
| | `ExternalExecutedOnce` | `Spec => []ExternalOnce` |
| | `CompletedReplayed` | `Spec => CompletedNotRerun` (an action property) |
| | `SavedStateMatches` | `Spec => []ImageMatchesJournal` |
| | `StepsImplemented` | `Spec => ImplementsRecordedSteps` (a refinement) |
| `Submission_proofs` | `OneWorkload`, `SleepWithinBudget` | `Spec => []OneWorkloadPerCall`, `Spec => []SleepBudget` |
| `Watching_proofs` | `EventsInOrder`, `IterMissesNothing` | `Spec => []NoGapNoRepeat`, `Spec => []IterIsComplete` |
| | `NoEarlyReturn`, `NoOversleeping` | `Spec => []ReturnsWhenOver`, `Spec => []NeverOversleeps` |
| `Team_proofs` | `WholeAnswer`, `PeerReviewed` | `Spec => []AnswerIsWhole`, `Spec => []ReviewsPeer` |
| | `FailsOnlyForCancelled`, `CancelsAfterCustomer` | `Spec => []FailsForCancelledPeer`, `Spec => []CancelsOnlyBroken` |
| `Workspaces_proofs` | `SessionEnded`, `OneRental`, `WholeUploads` | `Spec => []StopEndsSession`, `Spec => []OneSessionPerIntent`, `Spec => []FinalizedWhole` |
| | `FilesKept`, `ChangesKept` | `Spec => NoFilesOverwritten`, `Spec => NoChangeUndone` (action properties) |
| `Services_proofs` | `PublicationsWhole`, `KeysAccounted`, `DeadlinesMet`, `EverythingTold`, `EverythingPaidOnce`, `EverythingAgrees`, `SnapshotsWhole`, `ReadsWhole`, `TransfersKeptWhole` | `Spec => []` of `PublishedWhole`, `KeyAccountedFor`, `DeadlinesKept`, `NothingUntold`, `PaidOnce`, `ReplaysAgree`, `SnapshotTaken`, `ReadsComplete` and `TransfersWhole`, of the composition |
| | `FilesStay` | `Spec => NothingOverwritten`, of the composition (an action property) |
| | `ListingsComplete`, `ProgressShown`, `TotalsSound` | `List!Spec => []List!ListingComplete`, `Shown!Spec => []Shown!OutputShown`, `Totals!Spec => []Totals!TotalsJudged` |
| `Effects_proofs` | `OutputIsComplete` | `Exec!Spec => []Exec!OutputComplete` |
| | `ImportNamed` | `Exports!Spec => []Exports!ExportNamed` |
| | `LaunchRentsOnce` | `Machines!Spec => []Machines!OneMachinePerLaunch` |
| | `CommandsOnceOnly`, `CommandsTellHow` | `Typed!Spec => []` of `OneEffectPerWish`, and of `NothingUntold` and `SaidIsSo`, of `Commands` |
| | `ChangesOnceOnly`, `ChangesAsAsked` | `Changes!Spec => []` of `OneEffectPerWish`, and of `NoEditUndone` and `AppliedAsAsked`, of `Mutations` |
| | `AwaitedOnce`, `AwaitedTold`, `AwaitedPursued` | `Awaited!Spec => []` of `OneWorkload`, `ToldOrCancelled` and `CancelPursued` of `AsyncTasks` |
| `Replays_proofs` | `CallsSound` | `Calls!Spec => []` of `PaidOnce`, `RepliesAgree` and `LeavesRecorded` of `AgentCalls` |
| | `TalkRemembered` | `Talk!Spec => []` of `AskedOnce` and `ConversationKept` of `Assistant` |
| | `PoolsSound` | `Rented!Spec => []` of `ConfirmedHeld`, `DecisionsAgree` and `RecordsReadable` of `Pools` |
| | `SnapshotsSound` | `Packed!Spec => []` of `FilesWhole` and `SnapshotOfAMoment` of `Snapshots` |
| | `FilesWhole` | `Files!Spec => []` of `WriteIsWhole` and `ReadIsWhole` of `RemoteFiles` |
| | `ResultsStored` | `Blobs!Spec => []Blobs!CommittedIsGiven` of `Artifacts` |
| | `UploadsSound` | `Uploads!Spec => []` of `MadeFromThis` and `RefusedForChange` of `Projects` |
| | `EventsSound` | `Emitted!Spec => []` of `LinesWhole`, `AttemptsKept` and `NothingDropped` of `RLEvents` |

The assumptions are those the modules name (`JournalAssumption`,
`DriverAssumption`, `SubmissionAssumption`, `WatchingAssumption`,
`TeamAssumption`, `WorkspaceAssumption`, and for the services
`InstancesMeetTheirAssumptions`). They give the constants their types, and
otherwise say what the code enforces or data cannot be: `RLEvents` takes
attempts up to `MAX_ATTEMPT` and texts up to the limit of `_identity_text` in
UTF-8 bytes, `RemoteFiles` that no answer is no content, `Listings` that there
are finitely many items. Effects, policies, hints, deadlines and bounds are
arbitrary, and TLC evaluates the assumptions in every run. Each inductive invariant was checked by TLC on the
run of its module before it was proved.

### Durable steps

*Types.* `TypeOK` alone is not inductive: the answer to a claim or a
completion indexes the journal with `pos`, which may also stand one beyond the
last step. `Placed` says that a driver inside a step call is at a step, that
one sending `finish` is past them, and that a late request other than `finish`
names a step; `TypeInv == TypeOK /\ Placed` is proved action by action.

*Results.* Every change of a step record leaves a completed record as it is
(the lemma on immutability covers each journal operation, late ones included).
A value reaches a caller in two places only: a replay, which returns what is
recorded, and a completion, which returns only on an acknowledgement of the
same token and result. So `ResultsAgree` is inductive beside the types.

*External effects.* `ExternalOnce` bounds the number of entries into a
function, but says nothing of drivers that have a grant and are about to enter
it, so it is not inductive. `GrantInv` adds what it rests on: the entries made
plus the drivers about to make one never exceed the grants given
(`GrantsCoverRuns`); a claim that finds its own grant again has one to spare
(`RegrantUnused`), which is why repeating the answer to a lost claim is
harmless; an external step has one grant more than clearances, at most, and
none beyond them while it is cleared or absent (`ExternalGrants`); and no
request still under way can be mistaken for a later claim (`FreshIdentities`).
`ExternalOnce` follows from the first and the third.

*Completed steps.* That the newest session never enters the function of a
recorded step needs to know whose a token is. `GrantOwned` says it: a driver's
token, and that of a report still under way, belongs to the call it was granted
to unless the entry has a newer one; no report carries the identity of a call
that has not run yet; and what the newest session is about to run is started.
Otherwise a late report of an earlier attempt could complete a step between the
grant and the entry into the function.

*Saved state.* A commit replaces the committed version by the files of a
checkpoint, so `ImageMatchesJournal` rests on what every checkpoint holds.
`SaveInv` describes the newest session: its state folder is the committed
version, plus at most the write of the execution in progress (`FolderKept`),
and its checkpoint, pending or verified, holds exactly that and names that
execution (`CheckpointKept`), unless the session has halted and will not use
it. Superseded sessions need no description for commits, because one is refused
unless it comes from the newest. They do for an operator's selection, which may
take the candidate of any session: `CandidatesKept` says that one holds the
write of the execution it names and no other that is not committed, which stays
true because the committed version only grows. So a candidate that contains the
committed version is that version and the write of the uncertain execution,
whose result is recorded with it.

*Refinement.* Each step of `DurableSteps` is shown to be a step of
`RecordedSteps` under the mapping of `ImplementsRecordedSteps`, or to change
none of its variables: a completion that is recorded records and saves at once
(it is `SaveInv` that makes the saved files the right ones), a return returns
what is recorded, an operator's decision records the operator's result, or the
result and the state of the uncertain execution together, and everything else
stutters.

### Submission

`KeysOwned`: whatever was accepted, may still arrive, is being asked for or was
handed back with an error is under a key this application generated in one of
its calls so far, or under the explicit one. The number of such keys is at most
the number of calls, so the cardinality of `accepted` is bounded
(`OneWorkload`). `SleepBudget` is inductive once a retry is known to be asked
for only below the limit: `_hold` never asks for more than is left
(`HoldFits`). The exponent of the backoff is capped in the code, and the
powers up to the cap are evaluated, so no induction over `2^n` is needed.

### Watching

The four promises are inductive together with `Cursor` (the cursor is the
number of events handed over, and never beyond what is recorded), the room
between them, and counters of failures. The page operator is described once,
for every page size, in `BatchShape`.

### Team

`TeamInv` has five parts beside the types. `PlanKept`: all replies of the
planner but the last are unusable, so a restarted coordinator reads the same
plan. `EndedOnce`: each member of the team ends once, stated by the
cardinality of the set of outcomes, so that when as many outcomes as members
were read they are the team (a pigeonhole argument in `EndsBound`).
`OutcomesRead`: pages hold outcomes that happened, and a coordinator that goes
on has read completions only. `RingMessages` and `Specialists`: what was sent,
by whom, and what each specialist has received, done and recorded at each place
of its program; a member has at most two messages to come, one from the
coordinator and one from its predecessor, so no inbox is too full.
`CustomerFirst`: whoever the coordinator asks to stop, a specialist was
cancelled by the customer before. The ring of two is no exception in the proof.

### Workspaces

`WorkspacesInv` relates the server's state to what handles and requests under
way remember of an earlier one. Sessions are numbered upwards, and a start is
asked for under the key of its intent, what it begins is recorded under that
key, and an instance begins one session for a key; a view, or a request of
`configure`, whose revision is the current one agrees with the current
configuration; segments that a handle skips are stored as long as its upload
is the pending one; and a session that `stop()` offered to end was available,
so once it is over no running session has its number. `Sound` says what every
step of the server does to all of these (`ComputeOnward`, `FilesOnward`,
`ConfigurationOnward`), one lemma shows that a memory survives such a step,
and what remains is one lemma per request and one per action of a handle. The
two action properties are parts of `Sound`. `StopReleases` is false
([divergences](#divergences-found)) and has no theorem.

### Services

`Services` has the constants of all nineteen parts as its own, so a theorem
about it is one for any number of downloads, logins, pages and calls. For each
of the nineteen there is an inductive invariant and a lemma that each step of
the part keeps it, and for most a theorem about the part's own specification;
`OnePart`
says that a step of the composition is one of a single part, from which the
properties of the run `services` follow.

- `Downloads`: bytes that are published are verified and whole, a download that
  replaces was told it may, and a temporary file that was left belongs to a
  directory that has been moved away.
- `Login`: the two properties are inductive beside the types; the sleep after a
  poll is cut to what is left of the code's lifetime.
- `Imports`: the time runs from the first request, and the loop knows an export;
  with that `OverInTime` and `ExportNamed` are inductive.
- `Executions`: what a reader got is the frames up to its cursor, and the end it
  was told of is neither before the cursor nor beyond what is stored; a waiter
  knows of an end only once the process has ended.
- `Launch`: the starts that launches wait for rent one machine at most, and none
  before a start that keeps its key is asked for; what else is rented is an
  attempt of a workspace's start that came late; a launch that returns has begun
  a session.
- `Commands`: whatever was or may yet be applied for a wish is one operation.
  Until its user has the result it is the one that the next command would ask
  for, under the key and on the object that were printed, or it is the one of
  the command that is running. Whoever was told nothing (`masked`) is not
  followed further.
- `Mutations`: the kind of a call says what protects it (`KindsProtected`), so
  all calls for a wish are protected in one way. Under the caller's key, or an
  identity in the body, a second request is known; a made-up key is the one of
  all that was asked for, and of the next call, unless an error hid it; of
  requests that are sent once, effects and travelling requests together are at
  most the calls. Revisions that requests name were seen.
- `AsyncTasks`: whatever is accepted, under way or afloat carries the key of a
  `run()` made so far, so the number of accepted keys is at most that of calls;
  a cancellation that was answered was received.
- `AgentCalls`: nothing is asked for under the second key of a completion, by
  any session or by an admission still on its way, unless the first was
  refused, or some session was told of an expired result or a closed broker and
  asked again all the same (`again`, which only grows). A refusal is final and
  unpaid, and a driver that raised any other error of a completion has lost its
  session, so it cannot get there. Hence the `i`-th answer of a session that
  never asked blindly is the completed first attempt, or the second after a
  refusal: one identity, whichever session reads it.
- `Assistant`: from the first attempt to the record of the answer the file of
  the accepted checkpoint stays the same, every driver starts from it, and the
  model is asked for its most recent turns (`RecentLatest`, by the least number
  of turns to drop) and the task. The file that is captured and recorded is
  these turns and the new one.
- `Pools`: the record of a proposal satisfies its validator after every step of
  the server, because it is decided before it expires and executed after it was
  decided; a decision is never taken back (a rejected proposal stays rejected,
  an approved one keeps its price and never becomes rejected); and a price told
  without its version is that of a pool whose terms were never changed. So what
  an answer confirms holds when it is read, and what decides it stays.
- `Snapshots`: from the listing of a name on, its file is the one that was
  listed as long as its directory has not changed, and the content is the listed
  one as long as the version is. So a workspace that is not refused is the tree
  of the moment when its listing ended, unless the root's names have changed or
  its file was written since, which the copy or the last look at the directory
  will show (`RootChanged`, `RootWritten`).
- `Listings`: what was there when the reader began, and still is, lies before
  its cursor only if the reader has it. A position in the listing of workloads
  is a number of items, and that of an item only grows, because new ones come
  first and ended ones stay. A page that ends a listing covers all that is
  left; with finitely many items (`ListingAssumption`) its size says so.
- `Progress`: the numbers printed of a kind are an unbroken range that ends at
  the remembered position, so nothing is repeated; the answers of the last poll
  brought everything, because it began when the workload was over.
- `Measurements`: sums over hours are monotone in the set of hours; the hours
  of a whole day are `Day` in number (by an injection from `0 .. Day - 1`); the
  next boundary of a cycle is the one whose rank is one higher. So the three
  numbers of an answer agree exactly when none of them is wrong.
- `RemoteFiles`: what a writer has sent is an unbroken beginning of one version
  of its local file (`Beginning`), whoever else wrote what in between, because a
  chunk is read only while that file is the one the call began with; a receipt
  that acknowledges a content was given when the sandbox's file had it, so the
  last one shows that all of it was there at once.
- `Artifacts`: never more chunks are stored than there are, because every
  request for a chunk, early or late, is for an offset below their number; what
  is verified or committed has them all, and stays so. A reader that was told of
  a committed object reads to its end.
- `Projects`: whatever is cached, uploaded, created or still on its way was
  given under the key; a creation takes what its call packed; and a content once
  given for a kind is in the way of any other. It needs no assumption.
- `RLEvents`: who writes or has yet to complete a line holds the lock. An
  identity is read back field by field: the digits before its first colon are
  the length of a text (`FieldSplit`), and two numbers up to `MAX_ATTEMPT` with
  the same digits are one (`SameNumber`, by the number of places), so two
  attempts with one identity are one attempt. That the runner's text of a number
  is no longer than what was measured here goes by the cases of the two
  notations (`TextsFit`).

### What stays with TLC

Liveness under fairness and `ENABLED` are beyond the prover: `EverySessionEnds`,
`RunCompletes`, `CallEnds`, `EndsWithTheWorkload`, `DeadlineEnds`,
`TeamSettles`, `Concludes` and `ListingEnds` are model-checked only. Every safety
invariant and action property that a passing run checks has a theorem. What a
recursive definition computes for every input would need induction over data with an operator as parameter,
which the installed provers cannot instantiate; no theorem depends on it.

## Divergences found

1. `submission_key`: `run()` generates a key and attaches it to errors of
   requests that got no answer, so that a retry "can be the same submission
   instead of a second paid one" (`src/nodus/__init__.py:709-713`). When an
   unanswered attempt is followed by one that is answered with a status, the
   error is built from the response alone and has no key, although the first
   attempt may have created the workload.
2. `watching_terminal`: `stream_events` stops "at the terminal event"
   (`src/nodus/__init__.py:1343`), but reads events and status in two requests:
   a workload that ends between them has its terminal event left unread.
3. `workspaces_stop`: a start that has not become ready tells its caller
   "Compute keeps running. Call wait_until_ready again or stop() to release it."
   (`src/nodus/_workspaces.py:413-414`), but `stop()` returns without a request
   when its view has no session (line 498), and a started workspace has none
   before one is available (`openapi/openapi.yaml:4158`).

## What is not modelled

- The journal, the control plane, the console, the runner and the models are
  external; the modules state what the SDK's reading of the answers relies on.
- In the agent session: resuming a run that is already completed, blocked or
  expired, which answers from one receipt; definition conflicts and expired
  results (they end a call like any refusal).
- Result encoding, envelope verification, hashes, prompts, formatting, tables.
- `AsyncClient.iter_events` and `stream_events` repeat `Client` line by line
  with the same policy objects; `Watching` models the synchronous text.
- In `Team`: `await_children`, blobs, permissions and deadlines of children; a
  coordinator whose recovery is exhausted for good (the service then cancels
  its specialists); model calls whose outcome stays unknown for ever.
- `Assistant` is modelled under `checkpoint-v1` only.
- Windows twins of the local file operations; the interactive terminal;
  utilization percentages, recommendation evidence, forecast series; reads that
  validate one answer; `_brief.py`, `types.py` and the other pure conversions.
- In `Commands`, interrupts arrive at waits only; in `AsyncTasks`, an exception
  carries a note (Python 3.11 and later; before, an unconfirmed cancellation is
  silent).

## Limits worth knowing

Assumptions of the models, and behaviour met while modelling that no property
is about because no document says otherwise:

- *Requests.* Timeouts of `httpx` are per phase; `Imports` and `Login` take a
  request to be over within its timeout. Launches under one key follow one
  another. A server must answer an immediate repetition of
  `update_run_draft`, which has no key, with the first answer. A request
  refused after an unanswered attempt counts as over: its error carries no key,
  as in the first divergence (`_workspaces.py:139-144`).
- *Starts.* `_compute.py:226` and `tests/test_compute_launch.py:884-885` say
  that a workspace's start does not replay by key;
  `openapi/openapi.yaml:19288` says of the same request "Reuse it after an
  uncertain response", and that a replay is marked. The models follow the
  code, which promises less. A repetition, or an attempt without an answer,
  that arrives when the session it began is over rents the workspace again.
  The error of such a start says so (`_compute.py:244-253`); no property
  excludes it.
- *Second keys.* `StepResultExpired` and `AgentBrokerUnavailable` leave the
  session usable (`_agent_broker.py:34-36, 121-122`, `_agent.py:113-116`).
  An entrypoint that catches one and asks again under another key may pay twice
  and get an answer that another session does not. `PaidOnce` and `RepliesAgree`
  name exactly this exception.
- *Selected state.* The code does not check that the candidate of a
  `checkpoint_id` contains the committed state; the guide asks the operator to.
- *Listings.* A repeated cursor ends a listing silently for agents and
  sandboxes, and is compared with the last one only: such a reader never ends
  while the server sends it back to an older cursor (two that alternate).
  `ListingEnds` excepts this (`Back`). A status filter may skip rows.
- *Files.* `Snapshots` takes timestamps to tell writes apart. An interrupted
  `Workspace.upload(idempotency_key=...)` that is repeated with its key is
  refused while its own upload is unfinished (`_workspaces.py:439-444`;
  `_workspace_files.py:209` advises the repetition). `upload()` also returns
  when verification rejected the files.
- *Output.* `iter_output(follow=False)` may end before frames stored late. A
  saved log is printed in full when live output disappears during a run, and a
  log request that fails in the last poll ends the display without the rest.
- *Pools.* Changes have no compare-and-set, so a late one may overwrite a newer;
  `set_predict` looks only at the pool's id.
- *Command line.* Ctrl-C while an accepted launch asks for the team's keys
  (`cli.py:787`), or while an exec that failed reads its state
  (`cli.py:564-568`), prints neither key nor machine; a user who then starts
  afresh uses another key. The properties of `Commands` name both silences
  (`masked`). `nodus workspace start --wait` and `stop --wait` end without
  a word when interrupted (`cli.py:685-698`); creating workspaces, secrets,
  connections, pools and uploads prints no key. A logout that is interleaved
  with a login's save may drop the key that was just saved.
- *Waits of a driver.* `_control` does not fail the session when a wait's
  outcome is unknown; broker and model calls do.
- *Live objects.* A few methods (`ManagedRuns.submit` and `signal`, agent
  updates, `Sandbox.request`, a sandbox's `network_permissions`, benchmarks)
  encode the caller's own objects at each attempt.
- *Async.* A cancelled `AsyncClient.run` raises `CancelledError` without the
  generated key; closing the loop drops the shielded cancellation; a handle
  shared by tasks may be overwritten by an older refresh.
- *Sandbox blocks.* `__exit__` swallows a failed termination when the body
  raised.

## Plan

The proofs about the modules with runs of their own and about all nineteen
services are complete. What is left is modelling: `await_children`, and the
Windows twins of the file operations.

Every module uses recursive functions or folds, none a RECURSIVE operator, so
all of them can be proved about.

## Running the checks

    tlc -workers 2 -config DurableSteps_recovery.cfg DurableStepsMC
    tlc -workers 2 -config Services.cfg ServicesMC
    tlapm DurableSteps_proofs.tla
    tlapm Effects_proofs.tla
    tlapm Replays_proofs.tla
    tlapm Services_proofs.tla
    tlapm Submission_proofs.tla
    tlapm Watching_proofs.tla
    tlapm Team_proofs.tla
    tlapm Workspaces_proofs.tla

Each run takes from a second to about four minutes with two workers, and the
proofs about the services about ten minutes a module the first time. Distinct
states: legacy 860,254; recovery 1,549,560; live 112,535; submission 3,782;
watching 475,887; team 2,942,357; team_live 138,870; workspaces about 7
million; services 1,599,626.
