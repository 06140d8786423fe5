# ShowTalk Taishi: specifications, model checks and proofs

ShowTalk Taishi is a gateway between Slack and AI agents ("Koe"). One Node.js
process receives Slack events, runs turns of the Koe through backend adapters
(Codex App Server, Claude Code), lets a Koe send work to another Koe over MCP
(`agent.send`), asks humans for permission with Slack cards, and keeps what must
survive a restart in one file, `state.json`. A small supervisor replaces the
process when a restart is requested.

The code is single-threaded, and everything hard in it happens between two
`await`s: promise chains of several components interleave on shared tables, saves
and Slack calls fail or take long, and the process may end between any two of
them. The modules here take one step per stretch of code between two awaits, and
let TLC interleave the chains, fail the calls and end the process.

Paths below are relative to `src/src/` unless they begin with `docs/`
(`src/docs/`).

## 1. Inventory

State, operations and interactions of each part, what is hard about it, and what
makes it correct. "M" is modelled here, "P" is partly modelled, "-" is not; the
module is named in brackets.

| part | state | operations and interactions | hard | correct when |
|---|---|---|---|---|
| M **Turn lease** (`core/registry.ts` 457-566) [TurnLease] | lease per Koe, FIFO of waiters, idle waiters | reserve, wait (with AbortSignal), release with hand-off, wait for idle; used by Gateway turns, queued jobs, the drain | second release by the queue worker, abort against hand-off, wake-up of the drain | one turn per Koe, FIFO, no waiter and no drain forgotten |
| M **Delegation queue** (`mcp/runtime-service.ts` 432-611, 828-1589) [DelegationQueue, DelegationPromise] | `queuedDelegations`, workers and deliveries, blocked targets and jobs | admission, target worker, delivery to the parent job or to the Slack thread, recovery; calls Router, Gateway, Slack, coordinator; saves through the registry | saves in flight are read, rolled back or saved by others; crash between any two steps; calls that outlive their turn | run at most once, nothing accepted is lost, parents wait for children, results shown once |
| M **Permission approvals** (`permissions/approval-coordinator.ts`, `slack/permission-card-tracker.ts`, `slack/frontend.ts` 726-817) [PermissionApprovals] | pending requests, session grants; routes, settlements and mutation queue of the cards; the cards in Slack | authorize, resolve, timer, abort, close; present, settle, apply, recover | settlement before the route is known, failed saves and rollbacks, restart with open cards | what authorizes is durably final, every call returns, cards tell the truth |
| M **Choice continuations** (`slack/choice-continuation.ts`) [ChoiceRequests] | displayed and dispatched questions, continuations | remember, dispatch, resolve elsewhere, begin, consume, prune | answers, deadline, the end of the turn and the app-server race | a question is answered or continued, never both |
| P **Registry** (`core/registry.ts`) [TurnLease, DelegationQueue, GatewaySessions] | agents, sessions, conversations, primary sessions, handled ids | registration and lookup, validation of the durable lists, snapshot and hydration | consistency of cross-references over hydration | snapshots hydrate; references resolve |
| P **Router** (`core/router.ts`) [DelegationQueue, GatewaySessions] | active delegations | authorises, resolves the session, runs a delegated turn; derives causation | depth and continuation derived from the turn active now | one continuation step, the right session |
| P **Gateway** (`core/gateway.ts`) [GatewaySessions, DelegationQueue] | pending session creations, active result ids | human and continuation turns, interrupt, session switch | session changes while a turn waits for its lease | a turn runs on the session it was meant for |
| P **State file and lock** (`state/file-state-store.ts`) [StateLock, RuntimeState] | `state.json`, lock files, write queue | atomic save, load, process lock with stale-lock recovery | crash while recovering a lock; sections that are put back after a failed save | one process at a time; a refused change is on no disk |
| P **Gateway process** (`supervisor.ts`, `gateway-worker.ts`, `runtime.ts`, `state/gateway-restart-replay-guard.ts`, `service/macos-launch-agent.ts`) [GatewayProcess, RestartReceipts, RuntimeState, GatewaySessions] | exit codes, stop flags, restart receipts, sections of the state | start, drain, stop, restart, replacement; replay guard of restart requests; composition and rollback of a start | a stop racing a restart, idle components that become busy again, repeated restart requests | accepted work drains first, one restart per request, a stop comes to an end |
| P **Slack frontend** (`slack/frontend.ts`, `deduplicator.ts`, `controls.ts`) [SlackEvents, SlackProjection, ChoiceRequests, GitApprovals, PermissionApprovals] | seen event ids, active handlers, stores of cards | event intake, clicks, modals, replies, controls | duplicated and late deliveries, restart, clicks on cards that are over | a message starts one turn, a click has one effect |
| P **Projectors** (`slack/projector.ts`, `delegation-projector.ts`, `delegation-continuation.ts`) [SlackProjection, ChoiceRequests, GitApprovals, DelegationQueue] | message in progress, heartbeat, final parts | stream, complete, abandon, raw fallback | partial publication | the reader is told the outcome |
| P **Text replies** (`slack/approval-text-store.ts`, `approval-text-command.ts`) [PermissionApprovals, ChoiceRequests] | requests a reply may answer | remember, forget, find | reply against button and expiry | a reply answers the request meant |
| P **Codex** (`adapters/codex/`) [CodexTurns, AppServerClient, ChoiceRequests, GitApprovals] | threads, turns, pending server requests, event queues, RPC tables | send, interrupt, watch, answer requests, shutdown, close | answers and notifications out of order, lost completions, client exit | every turn and every request ends, no foreign turn is touched |
| P **Claude** (`adapters/claude/adapter.ts`) [ClaudeTurns] | a query and its process, pending tool requests | send, interrupt, shutdown, approve | approvals that outlive their turn | every turn ends, a stopped request is not granted |
| P **Git approvals** (`adapters/codex/workspace-git-approval*.ts`, `approvals/`, `hooks/`) [GitApprovals, SystemRejections] | captured plans, bindings of questions, private decisions, rejections still owed | ask, bind, decide, expire, continue, reject durably | the decision is written before the app-server goes on; a failed write may not release a plan | one decision per question, private first, no rejection lost |
| P **Admin UI** (`admin/`) [AdminConfig, RuntimeState] | page snapshots, the sidecar of overrides and its lock | compare-and-write, apply to the running gateway | concurrent edits, stale hashes, overlapping PUTs | no lost update, what is saved loads |
| P **Configuration** (`config/`, `commands/bind.ts`) [StateLock, AdminConfig] | `config.yaml` | parse, merge with the sidecar | | pure functions but for the two files |
| P **Diagnostics** (`diagnostics/`) [WorkStoppage] | the monitor's view and incidents | observe, announce, save | events of two sources in no fixed order, restart with open incidents | a wait nobody can see is reported, each change once |
| P **MCP service outside the queue** (`mcp/runtime-service.ts`, `server.ts`) [RestartReceipts, GatewayProcess] | open requests | authenticate, dispatch, restart | a repeated restart | one restart per request |
| P **Blocks** (`slack/*-blocks.ts`) [GitApprovals, WorkStoppage] | details and tombstones of Git cards | remember, serialize per card, invalidate | a click that waits behind another | a closed card decides nothing |
| P **CLI and service** (`cli*.ts`, `service/`) [GatewayProcess] | exit codes | start, stop | | I/O |
| - **Git automation** (`approvals/workspace-git-autom*.ts`, `workspace-git-autonomy-control.ts`) | | retired: `runtime.ts` 880 refuses it | | |
| - **Attachments, Slack files** (`mcp/*-attachments.ts`, `slack/file-*.ts`) | spool files | capture, verify, remove | file-system races | content is what was captured |
| - **Policy** (`permissions/engine.ts`) | | look up | | pure function |
| - **Health** (`slack/connection-health.ts`) | observations | report | | drives nothing |

The hazards these parts are exposed to are listed in `PROJECT.json`, each with
its line and the properties that would catch it.

## 2. Modules

| module | what it is | code |
|---|---|---|
| `TurnLease` | the turn lease, its FIFOs and the drain | `core/registry.ts` |
| `TurnLeaseProofs` | theorems about `TurnLease` | |
| `DelegationQueue` | agent.send jobs from admission to delivery, over the durable list | `mcp/runtime-service.ts`, `core/`, `state/file-state-store.ts`, `slack/delegation-continuation.ts` |
| `DelegationQueueProofs` | theorems about `DelegationQueue` | |
| `DelegationFamilyProofs` | theorems about families of jobs in `DelegationQueue`, and that it implements `DelegationPromise` | |
| `DelegationPromise` | what agent.send promises, without the queue | `docs/architecture.md`, `mcp/runtime-service.ts` |
| `DelegationPromiseProofs` | a theorem about whatever implements it | |
| `PermissionApprovals` | coordinator, Slack side and durable cards | `permissions/approval-coordinator.ts`, `slack/permission-card-tracker.ts`, `slack/frontend.ts` |
| `PermissionApprovalsProofs` | theorems about `PermissionApprovals` | |
| `StateLock` | the process lock and the recovery of a dead one | `state/file-state-store.ts`, `commands/bind.ts` |
| `GatewayProcess` | launchd, supervisor, workers, drain, stop | `supervisor.ts`, `gateway-worker.ts`, `runtime.ts`, `service/` |
| `RestartReceipts` | `gateway.restart` and its replay guard | `mcp/runtime-service.ts`, `mcp/server.ts`, `state/gateway-restart-replay-guard.ts` |
| `RuntimeState` | sections of the state, their queue and their file | `runtime.ts`, `state/file-state-store.ts` |
| `ProcessProofs` | theorems about the four modules before it, and about `SystemRejections` | |
| `SystemRejections` | rejections nobody decided, kept until workspace-git has them | `approvals/workspace-git-system-rejection-coordinator.ts`, `adapters/codex/adapter.ts` |
| `GatewaySessions` | which session a turn runs in, over restarts | `core/gateway.ts`, `core/router.ts`, `core/registry.ts`, `runtime.ts` |
| `CodexTurns` | one session of `CodexAdapter.sendMessage` | `adapters/codex/adapter.ts` |
| `AppServerClient` | the JSON-RPC client of `codex app-server` | `adapters/codex/app-server-client.ts` |
| `ClaudeTurns` | one session of the Claude adapter | `adapters/claude/adapter.ts` |
| `WorkStoppage` | the stoppage monitor of one Koe | `diagnostics/work-stoppage-monitor.ts`, `runtime.ts` |
| `KoeTurnProofs` | theorems about the five modules before it | |
| `ChoiceRequests` | a question, its cards, answers and continuation | `adapters/codex/adapter.ts`, `slack/projector.ts`, `slack/frontend.ts`, `slack/choice-continuation.ts`, `slack/approval-text-store.ts` |
| `GitApprovals` | the approval of exact Git plans in a turn | the same, with `workspace-git-approval-lifecycle.ts`, `slack/user-input-blocks.ts`, `approvals/` |
| `SlackProjection` | one turn as Slack shows it | `slack/projector.ts`, `slack/frontend.ts`, `slack/delegation-*.ts` |
| `SlackEvents` | messages on their way to a turn | `slack/frontend.ts`, `slack/deduplicator.ts`, `core/registry.ts` |
| `AdminConfig` | settings saved by browser tabs beside an operator's file | `admin/`, `config/admin-overrides.ts` |
| `InteractionProofs` | theorems about the five modules before it | |
| `MCDelegationQueue`, `MCPermissionApprovals`, `MCGatewaySessions` | instances of one module | |
| `MCProcesses`, `MCKoeTurns`, `MCInteractions` | instances of several, see section 3 | |

Definitions marked "no code" or "Mutant" in a comment are plausible bugs: no
specification uses them. `PROJECT.json` pairs each with the property that must
fail when it replaces the definition it is a mutant of. Every module states its
type invariant. No run lists it: those of `TurnLease`, `DelegationQueue`, `PermissionApprovals`,
`StateLock` and `DelegationPromise` are proved with the inductive invariants of section 4,
and of the others a state outside would show as an error of evaluation or of
another property.

Several modules state properties that no run lists because the code does not
have them; each is named below with the reason. They are there so that a reader
can set them beside the weaker property that holds.

### TurnLease

`lease` is `#activeAgentTurnLeases` (the symbol of a lease is the turn that got
it), `queue` is `#agentTurnWaiters`, `idleWait` is `#idleWaiters`. `pc` follows
each caller: idle, queued, granted (the promise is resolved but its await has not
resumed), holding, released. A released caller may call its closure once more, as
the catch block of `#runQueuedDelegationTurn` does after the router has already
released (`mcp/runtime-service.ts` 1330). `CallRelease` is the closure: hand-off
and removal are one step because no await lies between them. Every other module
that runs turns takes the lease to be what `LeaseIsExclusive` says.

### DelegationQueue

- `jobs`, `handled`, `used` are the registry's three durable tables, `disk` their
  copy in `state.json`. A mutation (`#mutateQueuedDelegations`) has two halves:
  `BeginMutation` replaces the list, `CommitMutation` is the end of its save, or
  `RollBack` puts the old list back. `mut` says whose mutation is in flight: they
  are serialised, everything else is not. `OtherSave` is any other component that
  saves the whole state, a mutation in flight included.
- `send` follows each `agent.send`: captured in a turn (`CaptureSend`), allowed
  and derived (`DeriveSend`), admitted (`BeginAdmission`, `AcceptSend`). The wait
  for the approval lies between the first two.
- `worker` is the worker of a target: pick, wait for the lease, save the running
  state, project to Slack, run, settle. `delivery` is the delivery of a result:
  join the parent, or fence, record as handled, save, inject, publish, remove, with
  the raw reply as the fallback.
- `Restart` ends the process at any step; `Recovered` is the recovery of the next.
- `execs`, `conts`, `shown`, `told`, `absorbed` are history: how often a message
  went to its target, a result to its source's adapter, to its thread and to its
  resumed parent; and which results were ever saved in a parent.

Abstractions. The wait for the lease is a delay of unknown length (`TurnLease`
says it ends). The order in which waiting mutations run is free, where the code
has a FIFO: the model has more behaviours. The deduplication of transport retries
by `requestKey` is left out, so are attachments, the byte limit, and the branch
`AGENT_BUSY` of the worker, which cannot be taken because the Router clears its
table before it releases the lease. An outcome is only "there": its text is the
set of children whose results it preserves. Human turns never close, since a
later human message opens another one that is not told apart.

`FencedOnDisk` (a message is given to a target only under a running state on disk,
a continuation only under a fence) is stated beside `AtMostOnce`, which the run
checks and which fails with it; both are proved.

`DelegationPromise` is the abstract specification: accepted, started, answered, and
who sent whom; a job is answered after the jobs it sent, and it is answered.
`Promise == INSTANCE DelegationPromise WITH ...` maps `accepted` to the sends that
were answered "queued", `children` to the parent recorded with a job, `started`
to the messages given to a target, and `answered` to the results shown in a
thread or saved in a parent. Each mutation, save, lease and Slack step of the queue
is a stutter there.

### PermissionApprovals

- `pending`, `answer`, `grants`, `closed`, `settle` are the coordinator; `decision`
  is the reason of the settlement, where everything that refuses is "deny".
- `routes`, `settled` are the tracker; `queue` is its `#mutationQueue` with those who
  wait for their turn in it: the mutations (route, settlement, discard, removal,
  recovery) and the tasks of `apply` that await it (look). `saving` says the head of
  the queue is in its save, and `prev` is the list it goes back to. `disk` is
  `permissionApprovalCards` in `state.json`; a settlement without a route is in
  neither.
- `present` follows `presentPermissionApproval`, `card` is what Slack shows, `text` is
  the store of requests a reply may answer, `recovery` is
  `#recoverPermissionApprovalCards`.
- `caller` is the authorize call: it may return at once from a grant or a closed
  coordinator, throw when the card cannot be presented, or wait for its answer.

Abstractions. Policies allow and deny return at once and are left out; users and
Slack coordinates are valid; a click and the update of an orphaned card are one
step; a failed Slack call may or may not have had its effect.

### StateLock

One process is one lifetime, so that a nonce and a pid are the process itself.
`at` follows `acquireStateLock`, its two attempts, `#removeStaleLock` with the exclusive
`.recovery` file, and the release. Every file operation is a step of its own.
`overtaken` records that a recovery unlinked another record than it had judged.

`LockIsExclusive`, what `docs/security.md` 426-428 promises, is in no run: between the
judgement of a dead record and the `unlink` another process can remove that
record and install its own, which the first then removes (`file-state-store.ts`
222). That needs three processes within a few file operations. `HolderIsOnFile`
says that this window is the only way to two holders, or to a holder without a
record. With `KilledInRecovery` a process killed between opening and removing
`.recovery` leaves it there, and nobody recovers the lock until somebody removes it;
the run has it FALSE.

### GatewayProcess

launchd (`ServiceStart`, `ServiceStop`, `PollStop`, `Respawn`), the supervisor
(`Supervise`: replace after code 75, hold after a failed stop, end otherwise) and
workers (`RunWorker`: lock, create, start, serve, drain, stop, exit). `busy` says
which of the four components count a piece of work: it moves between them as
the code hands it on, so that one becomes busy after another was seen idle.
`IdleRound` and `DrainCheckpoint` are the loop of `gateway-worker.ts` 90: await all
four, then look again without an await.

### RestartReceipts

`restartCall` follows `#executeGatewayRestart` in one process, `mutation` is the
guard's save with what it rolls back, `Expire` the ten minutes of a receipt, the
trim to `maxReceipts` is part of recording. `ResponseOver` is the end of the HTTP
response: `mcp/server.ts` ends on `close` as well as on `finish`, where the docs
speak of `finish`. A client that reconnects counts its request ids from the
start again, so a later restart request with the same id within ten minutes is
acknowledged as a replay; the model's keys are such ids. `POST /api/restart` of the
admin UI waits for `finish` only (`admin/server.ts` 384): after an aborted response
no later restart from the UI is possible; it is not modelled.

### RuntimeState

`sections` are the cards, receipts, autonomy-policy generation and the registry
("core") in memory, `stateFile` on disk; every save writes all of them. A section
that restores itself goes through `runtimeStateMutationQueue` (`mutationQueue`,
`changing`), the core does not. `writeQueue` is the store's. `startup` follows a start
that may fail: its rollback writes the loaded state past the mutation queue,
memory keeps what it has, and changes acknowledged since the load are undone;
`RefusedIsNotOnFile` excludes those by name. The retired section of automation
activations has the shape of the cards and is left out; the monitor's snapshot is
part of the core.

Stated, in no run: `GenerationNamesOnePolicy` and `AdoptedIsSaved`. A PUT computes the
next generation before it waits for its turn (`runtime.ts` 718), so two that
overlap compute one revision for two policies; and a PUT that finds its policy
already in memory, while the save of another is under way, adopts it at once.
Of two overlapping PUTs the running model may also be that of the first while the
second is the one saved. The docs say that a save does not change a running
registry, while model settings are applied live.

### SystemRejections

The coordinator keeps a rejection as a saved intent and tells it to the private
broker until that has it, has decided otherwise, or the plan is late.
`mutations` and `saving` are `#mutate` with its rollback, `attemptOf` is
`#runAttempt`, `retryTimer` `#schedule`. Its caller here is the worker of the Codex
adapter for plans whose question ended elsewhere (`caller`): one plan of a session
at a time, retried until it is recorded or late, and Slack is told only then.
A plan decided otherwise keeps those behind it waiting until it is late; the
property says so. Of the broker's permanent failures (coordinator 156-166) a conflict is
told to the caller as one, the others settle the intent like a rejection that was
taken (`BrokerCannot`).

`runtime.ts` wires no recorder: a private host passes one to the adapter and to
the frontend (`slack/frontend.ts` 3054-3119), whose use of it is not modelled.

### GatewaySessions

`tables` is what the registry saves of one Koe (scope, sessions, canonical session,
bindings of roots), `savedTables` the file, `activated` what this process has
resumed, `context` the turn recorded in a session. A slot is a turn: a human
message, the result of a delegation (with the session it must go to), or a visit.
Creation and resumption are awaited, saves may fail, `StartProcess` is
`createRegistry` from the saved tables, perhaps with another scope.

`ResultReachesItsSession` is in no run: the fence is read before the session is
resumed, and a declared session whose thread is gone is replaced after it.
`SavedStateLoads` is finding 5. `status` may also write an ended status it read some
time before over a turn that has begun since (`core/gateway.ts` 415): `ProbeRoot` takes
the context away, and nothing depends on it.

### CodexTurns

One session, the turns of the gateway and one of the Codex app on the same thread
(`Foreign`). `sendStep` follows `sendMessage`, `turnStart` the answer to turn/start,
`ownedTurn` and `activeTurn` who the adapter believes runs, `kept` the notifications it
cannot attribute yet, `tries` the watchdog, `eventQueue` the queue to the projector,
which may overflow or lose its reader. `call` is a request of the app-server.

`OwnRequestIsNotRefused` is in no run: a turn whose completion is handled before the
answer to turn/start is claimed when that answer comes (`adapter.ts` 1395), stays
the active turn until the next message, and makes an early request of that next
turn look foreign. `NothingLeftRunning` excludes turns claimed so. Notices and
attachments are left out.

`FinishSend` comes after the completion has been handled. In the code the reader may leave while
`#completeTurn` is suspended, at two places. One is the wait for the rejections of the
session (`adapter.ts` 936), which `finally` of `sendMessage` makes too (1440): both wait for the
same settlements (`#waitForSessionSystemRejections`), the completion has asked first and
goes on first, so the guard leaves no order out. The other is the read of the thread
after it (961), which takes place only with an approved Git operation under watch; it is
not modelled here, and what a completion that outlives `finally` there does is not
claimed.

### AppServerClient

Requests with timeouts and tombstones of late ids, one question of the server whose
answer drains, and the end of the connection: by a failed start, by the runtime,
or by the transport itself. The server may answer late, never, end at any time and
ignore everything but SIGKILL, which is assumed to take effect within the last
second of the close. `respond` and `#handleLine` do not look at `#closed`, so an answer that
comes after the close is a stray one, as in the model; the drain of an answer has
no timeout of its own while a live server does not read. Synchronous write failures
and the snapshots for diagnostics are left out.

### ClaudeTurns

One session; a turn is one query and its process. `pendingAsks` are the requests of
`canUseTool`, settled by a click, the timer, an interrupt, the shutdown or the end
of the turn. The signal of a request is assumed to follow the abort of its turn.
An interrupt or a shutdown while the message is being built is missed
(`adapter.ts` 227-262, 352); with two parallel requests the first answer sets the
status to running; and a request that comes after an interrupt overwrites
"interrupted". All three are steps of the model. Translation of messages into
events is left out.

### WorkStoppage

`view` is what the monitor believes (`#states`), fed by the events of the adapter, by
the audit of interactions and, each 15 seconds, by the registry; `incident` counts the
changes of an incident, odd when it is open. `ReplaceWorker` ends the process, with
or without the save of the last change.

Two things mislead it, and `misled` excludes them from `HiddenWaitIsReported`: a status of
running after the first of two requests is answered clears all of them
(`work-stoppage-monitor.ts` 547; `docs/operations.md` 298), and a card posted after its
request has ended counts as a visible wait for good. A shown card also closes the
hidden incident of another request as recovered; the property speaks of turns that
show no card. An audit of a click or a modal that failed is taken as the end of a
request. A failing Claude turn announces its failure, its recovery by the status
idle, and the failure again. The recovery of a lost connection found at start is
never posted, because the poster is attached later (`runtime.ts` 441, 681), and a change
not saved before the process ends is announced again (`unsavedEnd`).

### ChoiceRequests

One request of the app-server: a native approval, an ordinary choice of several
questions, or the confirmation of an external action. The adapter (`choicePending`,
`receipt`, `events`), the projector (`projecting`, one await at a time) and handlers of
Slack (`handler`: a click, a modal, a text reply, a click on a continuation) share
`displayed`, `dispatched` and `continuation`, which are the store of
`slack/choice-continuation.ts`, and `textEntry`, which is that of
`slack/approval-text-store.ts`.

Each handler is one action of a user. A modal updates its card with "failed"
whatever the card shows, and neither marks the question dispatched nor forgets the
text entry: the model does the same. The expiry or the end of a native approval
tells the projector nothing. The automatic choice mode is retired. Not modelled: a
repeated repair of an external action (`docs/operations.md` 48-53), the limits of the
stores, and that a duplicate id leaves a tombstone in the text store, which the
`forget` of the first card removes, contrary to the comment at
`slack/approval-text-store.ts` 47.

### GitApprovals

One turn with several exact plans and questions. `lifecycle` is the
`WorkspaceGitApprovalLifecycle`, `input` what the adapter keeps of a question (it may
come before its plan and then waits for a grace period), `private` what workspace-git
stores, `tails` the queue of actions on a card, `details` and `tombstones` the details
store. A click writes the private decision, then resumes the app-server.

As `runtime.ts` composes it: a broker for human decisions, no recorder of system
rejections, no automation; a text reply is a click. A card keeps its buttons after
the turn, so that a click can still record an approval whose question is gone, which
then starts nothing. `NoSyntheticRejection` (`docs/architecture.md` 186-190) is in no run:
when the deadline passes while the private store is being told of the approval, the
app-server is told to reject what the store holds as approved
(`adapter.ts` 4029).

### SlackProjection

The handler of a message, of a continuation or of a visit feeds one
`SlackThreadProjector`. `writes` are the queued writes of the activity message (events,
heartbeat, final text), `left` the parts of the final answer. Slack takes a call,
refuses it, or takes it while the caller sees an error (`lost` when the call carried
an answer or an error). A visit's two notices are one call; `complete` is called
once.

Ways in which a turn is not told, which the property excludes or the model shows:
(1) the first write of the activity message fails, an error is projected, the
heartbeat is armed and `complete` never called: the thread says "Working" for good
(`slack/frontend.ts` 1783; `docs/operations.md` 10-12); (2) an error whose write fails is
told nowhere, and the final reply is suppressed because an error was shown; (3) a
turn without a mention and without text leaves "Working"; (4) without a mention a text
refused as too long disables the projection and the answer is not posted (`disabled`);
(5) the second terminal projection of a delegation is never reached.

### SlackEvents

Deliveries of message events, the memory of the process (`seen`), the ledger of handled
events with its save, and the count of handlers a restart waits for. The limits
of both memories are left out: Slack's retries end well within them. A message
that is told "please send it again" during a restart, and whose telling fails, is
recorded as handled. Approval replies are not in the ledger.

### AdminConfig

Browser tabs with a page, the server's PUT with its three comparisons
(`LoadAndCompare`, `CompareCanonical`, `ReadSaved`), the sidecar with its lock, and an
operator who edits `config.yaml` at any time. The settings are those of the Koe the tabs
have selected; each tab saves once, its author changes one setting, or the scope
together with the session, or nothing. A stale lock with a recycled pid is left out.

The form sends more than its author has changed (`CollectAgent`, `admin/ui.ts` 2285-2332):
`automatic_choice_mode` is always `"off"`, `workspace_git_autonomy` always undefined, the
session undefined unless the scope shown is `channel`, and texts lose the blanks around
them, in the form (`optionalTrimmed`) or, as a persona does, in the server's `cleanOptional`;
`role` is sent as it is and is not among the settings checked. `config-repository.ts` 391-414 writes an override for each of these
that differs from `config.yaml`, so a save may set what nobody touched: `persona: |`, as
`docs/configuration.md` 216 has it, ends in a newline, and the first save of any Koe
overrides that persona by the trimmed one. `UntouchedSettingsKept` names these forced
settings (`Forced`) and claims the rest. Of the other Koe only `cleanOptional` applies.
The mode a save resets is accepted for loading only, the runtime does not use it
(`docs/configuration.md` 347-349).

An edit of the operator clashes (`clashed`) with a save when it changes a setting that
has an override, and also when it changes the scope while the session has one, or
the other way round: the two together may then be settings that do not load.

`EverySavedSettingLoads` is in no run: the form always sends
`workspace_git_autonomy: undefined` (`admin/ui.ts` 2328), so that a save for a Koe whose
`config.yaml` still has that retired setting writes an override for a path no override
may remove. Then neither the UI nor the next start can load the settings until the
sidecar is removed (`docs/configuration.md` 353-364). A PUT may answer 409 or 500 although
the sidecar was written, when the file changes between the write and the read back.

## 3. Runs

Deadlock is not checked, except that the liveness properties find a system that
stops too early: every component may come to rest when its bounded inputs are used
up.

| run | instance | states | time |
|---|---|---|---|
| `delegation_faults` | 2 Koe, 2 jobs, 1 failed save, 1 restart, failing Slack calls, late admissions; symmetric Koe | 2.2 million | 4.5 min |
| `delegation_family` | 2 Koe, 3 jobs, drain and shutdown, nothing fails, turns wait for their tool calls; symmetric Koe | 940 thousand | 2 min |
| `delegation_live` | 2 Koe, 2 jobs, nothing fails | 47 thousand | 20 s |
| `approvals` | 2 requests of one grant scope, 1 failure, 1 restart; symmetric requests | 2.2 million | 2 min |
| `processes` | six components, see below | 129 thousand | 2.5 min |
| `koe_turns` | six components | 313 thousand | 3 min |
| `interactions` | five components; symmetric plans, questions and clicks | 1.1 million | 3 min |
| `delegation_answers_early`, `delegation_shown_twice`, `delegation_two_steps`, `approvals_grant`, `saved_state_loads` | findings 1 to 5 | to the first violation | |

What they show:

- `delegation_faults`: a message goes to its target at most once, under a running
  state on disk (`AtMostOnce`); what was answered "queued" survives every crash
  (`AcceptedIsDurable`); no result is taken for delivered because it was refused
  (`NeverMistakenForHandled`); a resumed parent is told a child's result once
  (`ChildResultToldOnce`).
- `delegation_family`: `ParentWaitsForChildren`, `OneStepPerContinuation`, when no call of
  agent.send outlives its turn.
- `delegation_live`: `ImplementsPromise`, the refinement with its liveness: each accepted
  job is run at most once and answered, after its children.
- `approvals`: what is allowed is final (`AllowedIsFinal`), an allowed card is true
  (`AllowedCardIsTrue`), a grant was given (`GrantWasGiven`).
- `processes`: `LeaseIsExclusive`, `NoMissedDrain`, `HandOffInOrder` of the lease;
  `HolderIsOnFile`, `DeadLockIsRecovered` of the lock; `DrainedBeforeStop`, `StopSettles` of
  the process; `ReplayIsNotAskedAgain` of restarts; `IntentsAreSettled` of owed
  rejections; `RefusedIsNotOnFile` of the state.
- `koe_turns`: `ResultReachesUnlessReplaced`, `ThreadTurnsAreIsolated`,
  `StateLoadsUnlessFellBack` of sessions; `NothingLeftRunning`, `ForeignTurnUntouched`,
  `EverySendEnds` of Codex; `ClosedMeansGone`, `EveryRequestEnds` of its client;
  `StoppedAskIsNotGranted`, `EveryQueryEnds` of Claude; `EveryCallReturns` of one approval
  under two failures and a restart; `HiddenWaitIsReported`, `EachChangeAnnouncedOnce` of
  the monitor.
- `interactions`: `AnsweredOrContinued`, `ApprovalIsPrivateFirst`, `QuestionAnsweredOnce`
  of questions; `TurnIsTold` of the projection; `MessageStartsOneTurn` of messages;
  `UntouchedSettingsKept`, `SavedSettingsLoad` of the settings.

### The three modules of several components

`MCProcesses`, `MCKoeTurns` and `MCInteractions` extend the modules of several components
and choose by `part` which of them a behaviour runs. The others keep their initial
state, in which no fair action of theirs is enabled, so each behaviour is one of the
component's own specification and each property is checked over all of them. The
components do not share variables there: what one needs of another (a turn has the
lease, a save comes back or fails, a process ends) is an action of its own module.
These are restrictions of behaviours, each without loss unless said:

- what no definition tells apart is used in one order: the turns of one Koe
  (`LeaseStep`), pieces of work (`GatewayStep`), plans (`RejectionStep`), requests
  (`ClientStep`), tabs (`AdminStep`), handlers (`ChoiceStep`);
- `GitStep` bounds questions and clicks together by `MaxInputs`, and the questions that pass
  their deadline by `MaxLate`;
- `MonitorStep` saves each change of an incident before the next one (a loss: a
  process that ends with two unsaved changes is not tried).

### Bounds

- `Turns` of `TurnLease` are reused once done, so four of them are four concurrent
  callers, not four calls: three may queue behind one lease, enough for an abort in
  the middle of a FIFO.
- `MaxJobs` is 2 or 3. Two make a parent with its child, two jobs of one target, a
  job and the send of its continuation; three add siblings, a grandchild, and a
  child that sends to the target its parent ran on. `MaxPerTarget` is 2, so the
  limit is met with three jobs; the code's limit is larger.
- `MaxSends` and `MaxHumanSends` bound the sends of one turn.
- `MaxDiskFailures` 1 and `MaxRestarts` 1: a restart wipes memory, so what matters is
  where it falls, and every place is tried. A second failure could only hit the
  handling of the first: the workers and deliveries that a failed save blocks
  stay blocked.
- `MaxFailures` of the approvals counts failed saves and Slack calls together; for
  `EveryCallReturns` there are two, so that a failure may hit the handling of another.
- `Drains`, `DeliveryFails`, `LateAdmission`, `CanDecline` turn environment steps on
  and off to keep each run in reach; together the runs take every one of them.
  `LateAdmission` says that a call of `agent.send` may go on after its turn has
  ended (a turn that is interrupted does not wait for its tool calls); without it
  `ParentWaitsForChildren` and `OneStepPerContinuation` hold, with it they are
  findings.
- `StateLock`: three processes, so that a record can be judged by one, removed by
  a second and replaced by a third; two of them may be killed. `GatewayProcess`: two
  workers and two pieces of work, a replacement and a move of work between components
  while the other is seen idle. `RestartReceipts`: three lives and a limit of one receipt,
  so that a receipt is trimmed and a replay reaches the second process after.
- `SystemRejections`: two plans of a session, one failure, two processes. `RuntimeState`: a
  card, a receipt, a change of the core and two PUTs, one failed write.
- `GatewaySessions`: two roots, two concurrent turns, three turns and sessions, two starts,
  the second with any scope; the finding needs three roots. `CodexTurns`: two messages (a
  turn and one after it), a foreign turn, one request. `AppServerClient`: two requests beside
  the first, one tombstone, so that the table is at its limit. `ClaudeTurns`: two turns and
  two requests, one of which may outlive its turn. `WorkStoppage`: two turns, two requests,
  two other signals, two processes.
- `ChoiceRequests`: two questions and two handlers. `GitApprovals`: two plans, of two questions
  and two clicks at most three together (`MaxInputs`), and one question that passes its
  deadline (`MaxLate`). `SlackProjection`: two parts, events, faults
  and heartbeats. `SlackEvents`: two messages delivered up to three times over two processes.
  `AdminConfig`: two tabs; the session, a persona, the scope, the choice mode and the retired
  setting; two texts, one of them padded; three initial `config.yaml`s (`Chosen`); one edit of
  the operator.

### Fairness

What is fair is what the process has already started: Node runs the continuations,
saves end or fail, adapters end their turns, timers fire, Slack calls end or time out.
New calls, messages, clicks, refusals, aborts, drains and the end of a process are not.

- `TurnLease`: a granted await resumes and every holder releases, because Gateway and
  Router release in `finally`.
- `DelegationQueue` (`delegation_live`): workers, turns, deliveries. Nothing fails there, since
  the code gives up on purpose after a failed save (the target or the job is blocked
  until the next process). `DelegationPromise` asks only that each accepted job is
  answered.
- `StateLock`: file operations return; a holder need not let go.
- `GatewayProcess`: processes run, launchd respawns; `SF` on `FinishPart`, because a piece of
  work moves between components and each part of it ends although it is not enabled
  all the time.
- `SystemRejections`: saves and broker calls come back, timers fire, a closed process is
  followed by another; plans become late only if they do.
- `CodexTurns`: continuations, answers or their timeouts, the watchdog; no notification is
  sure to come. `AppServerClient`: one `WF` over its timers and awaited steps, each of which
  is taken a bounded number of times. `ClaudeTurns`: the timer of a request, the process that
  waits for nothing; no human answers. `PermissionApprovals`: the timer of a request.

### Findings

1. `ParentWaitsForChildren`: `docs/architecture.md` 477-479 has parents wait for
   children before returning a final result. A send captured in a parent's turn and
   admitted after that turn was cut short becomes a pending child of a job that has
   already its result (`mcp/runtime-service.ts` 578).
2. `HandledResultNotProjectedTwice`: `docs/operations.md` 260-262 says handled results
   are not projected twice after a restart. A process that ends after the published
   continuation and before the saved removal (`mcp/runtime-service.ts` 1545) leaves a
   fenced job, whose raw result the next process posts to the same thread. The
   continuation itself is not run again (`AtMostOnce` holds).
3. `OneStepPerContinuation`: `docs/architecture.md` 651-653 says a second sibling send
   of one delayed-result turn is rejected. The continuation is derived after the
   approval (`mcp/runtime-service.ts` 510): a send whose turn has closed by then
   belongs to no continuation and is admitted.
4. `GrantIsFinal`: a visible approval must not authorize work until it is durably
   finalized (comment at `permissions/approval-coordinator.ts` 287). A click that
   overtakes the save of the card's route, which then fails, gives a session grant
   nothing durable records (`slack/permission-card-tracker.ts` 164, 176). The caller
   of that request does not go on (`AllowedIsFinal` holds); later requests of the same
   scope do.
5. `SavedStateLoads`: `docs/configuration.md` 160-163 says that a deleted declared thread
   does not stop the Gateway, and that the Koe stays in thread scope from then on. Only
   the root of the message that found out leaves the declared session; when two other
   roots are bound to it, the saved tables have a thread-scoped session with two roots,
   which `hydrate` refuses (`core/registry.ts` 727): no later start succeeds.

## 4. Proofs

### The lease

`TurnLeaseProofs` proves, for any sets of agents, turns and drains, from the one
assumption that `NoTurn` is not a turn:

- `TablesAgree`: `Spec => []LeaseTableAgrees`;
- `TurnsExclude`: `Spec => []LeaseIsExclusive`;
- `HandOffIsFifo`: `Spec => HandOffInOrder`;
- `DrainIsWoken`: `Spec => []NoMissedDrain`.

Exclusion alone is not inductive: a hand-off gives the lease to the head of a FIFO,
so one must know that the head is a waiter of that agent, that it is there only
once (or a later release would hand the lease to a turn that has it or is done),
and that the table names the turn that believes it holds the lease (or a second
release would free a lease of somebody else). `LeaseTableAgrees` is these facts
with the type invariant. Its proof has a lemma per kind of step (`HandOffAgrees`,
`ReleaseAgrees`, `WaitAgrees`, `AbortAgrees` with `RemoveAtFacts` about the library's
splice, ...), which `AgreesInductive` combines, one case per action. Exclusion
follows by logic. For the FIFO order, a step that changes the lease of an agent with
waiters can only be a release by its holder, because `WaitersBehindLease` says the
lease is held. The drain needs that every step that empties the tables resolves the
registered waiters.

### The promise of agent.send

`DelegationPromiseProofs` proves `FamilyIsAnsweredFirst` for any set of jobs: when a job has
been answered, so has every job it started, at every depth of one step. "A job is
answered only after its children" is a guard of the abstract `Answer`; that it stays
true afterwards needs that an answered job starts nothing any more, which is what
the inductive invariant `PromiseIInv` adds to the types. That the queue implements this
promise, and so has its consequence, is proved as well (`QueueKeepsPromise`, below);
that every accepted job is answered is liveness and stays with TLC (`ImplementsPromise` in
`delegation_live`).

### The queue

`DelegationQueueProofs` proves, for any sets of Koe, any `MaxJobs`, `MaxPerTarget`, and any
number of failed saves and restarts, with every environment step the runs turn
on or off:

- `QueueTypes`: `SafetySpec => []TypeOK`;
- `GivenAtMostOnce`: `SafetySpec => []AtMostOnce`;
- `FencedBeforeGiven`: `SafetySpec => []FencedOnDisk`;
- `AcceptedStays`: `SafetySpec => []AcceptedIsDurable`;
- `NotMistaken`: `SafetySpec => []NeverMistakenForHandled`.

`AtMostOnce` speaks of what was done; what prevents a second time is in three lists:
the one in memory, the one a failed save puts back (`prev`), and the one the next
process reads (`disk`). A fence in two of them is not enough. The inductive invariant
`QueueIInv` therefore says of a message that is out that all three show it
(`RanEverywhere`), of a result likewise (`FencedEverywhere`), and of every worker and
delivery what it still knows at its program counter after other handlers have run
(`WorkerKnows`, `DeliveryKnows`): a worker about to give a message has seen that nobody
did, and only a mutation of its own can have changed that. `ListsAgree` keeps the
lists closed under parents and says that a result joined to its parent is recorded
as such in every saved list; `AcceptedIsListed` is `AcceptedIsDurable` for all three lists.

The proof has two layers. What a change does to a record and to a list is stated once
(`Follows`, `ListFollows`: a bound job stays bound, a fence stays, no job goes back to
its first turn) and proved for every change (`AdmissionFollows`, `RunningFollows`,
`EndFollows`, `DeliveryFollows`, `RecoveryFollows`). Every action is then one of a few kinds of
step of the lists (they stay, a mutation begins, is written, is put back, the
process restarts), and each conjunct of the invariant is carried over by kind, with
a case per action only for the worker or the delivery that moves.

### Families of jobs

`DelegationFamilyProofs` goes on where `DelegationQueueProofs` ends, for any sets of Koe and
any bounds:

- `StepsAreUsedOnce`: `SafetySpec => []UsedOnce`;
- `ContinuationStepsOnce`: `~LateAdmission => (SafetySpec => []OneStepPerContinuation)`;
- `ParentsWait`: `~LateAdmission => (SafetySpec => [](diskFailures = 0 => ParentWaitsForChildren))`;
- `ToldOnce`: `SafetySpec => []ChildResultToldOnce`;
- `QueueKeepsPromise`: `NoFaults /\ ~LateAdmission => (SafetySpec => Promise!PromiseSafety)`;
- `FamiliesAreAnsweredFirst`: under the same assumptions, `[]Promise!AnswerIsComplete`.

The assumptions are those without which the code does otherwise:

- `~LateAdmission`: no call of `agent.send` goes on after its turn has ended. With it
  `OneStepPerContinuation` and `ParentWaitsForChildren` are findings 3 and 1. `UsedOnce`, which
  needs no assumption, says what is left of the first: the record in
  `usedContinuationDelegations` never admits two jobs; only a call that is no longer seen as
  one of the continuation gets past it.
- `diskFailures = 0` (part of the definition of `ChildResultToldOnce`): after a failed save, a
  parent that is picked while the join of its child is in flight, whose join is
  rolled back and whose turn is then declined, gets a result while that child is
  pending, since `#recordQueuedOutcome` does not look at the state of the job
  (`mcp/runtime-service.ts` 1434). Restarts are allowed.
- `NoFaults`: no failed save and no restart. A process that ends between the save of an
  admission and the answer of `agent.send` leaves a job that the next one runs although
  nobody was told it was accepted: a start of the promise without an acceptance.
  Slack failures, declined turns, full targets, drains and shutdowns are all in.

`UsedOnce` is inductive with `DerivedIsSource`, which keeps the continuation of a call
fixed once it is derived. The other invariants say what `QueueIInv` does not have to, because
a failed save takes it away:

- `StepsAgree`: each worker and delivery still has its job, in the list and in the state that
  its step implies (`JobAt`, `DeliveryAt`), after whatever the other handlers have done;
- `FamiliesWait`: a call in flight belongs to a turn that is open (`SendsAreOpen`), and in each
  of the three lists a job that is queued or has ended has no pending child
  (`Settles`). The first is what keeps the second when a job gets its result: nobody can
  add a child to it any more;
- `TellsAgree`: in each list a result that waits in a job is of a child of that job, is either
  among those still to be told or in the message of the turn that tells them, and its
  child is no longer listed (`JoinedOnce`); once it was told it is gone from all three
  lists (`GoneEverywhere`), and what a worker is about to tell has not been told
  (`WorkerTells`). That all three lists lose it is what keeps a parent queued again, after
  the next process or the next child, from telling it twice;
- `PromiseAgrees`: a listed job is a pending child of its parent, which is listed too
  (`Linked`); a job with children or results was given to its target (`StartedHaveChildren`);
  without restarts what is in a list was or is being accepted (`ListedAreAccepted`); and a
  result that has arrived in a parent is of a job that is over (`ArrivedAreOver`).

The refinement has one lemma for each kind of step of the promise: the end of the save of an
admission is `AcceptJob` (`AdmissionsAccept`), the first turn of a job is `StartJob` and its later
ones stutter (`TurnsStart`), a join to the parent or a first post to Slack is `AnswerJob`
(`AnswersFollow`, with `ChildrenHaveArrived` for its guard), and everything else leaves the mapped
variables alone (`StepOfShown`, `NothingAccepted`). `FamiliesAreAnsweredFirst` instantiates
`DelegationPromiseProofs` with the mapping.

TLC checked the invariants complete before their proofs: `UsedOnce`, `StepsAgree`, `FamiliesWait`
and `TellsAgree` on the bounds of `delegation_faults` with one restart (4,451,178 states), of
`delegation_live` with a failed save, a restart and failing deliveries (9,236,628), and of
`delegation_family` (941,060); `PromiseAgrees` with three jobs and failing deliveries (8,914,516).

### The approvals

`PermissionApprovalsProofs` proves, for any finite set of requests, any grant scopes,
and any number of failed saves, failed Slack calls and restarts:

- `ApprovalTypes`: `SafetySpec => []TypeOK`;
- `AllowedStaysFinal`: `SafetySpec => []AllowedIsFinal`;
- `CardsTellTheTruth`: `SafetySpec => []AllowedCardIsTrue`;
- `GrantsWereGiven`: `SafetySpec => []GrantWasGiven`.

The set must be finite because `close()` queues the settlements of all pending
requests. The inductive invariant `ApprovalIInv` has, besides the types and the
bookkeeping of the queue (everything in it has one caller that waits for it):

- `TablesAgree`: while a save is in flight, what it may put back has every card but
  the one that is being added;
- `SaysTrue`: wherever an allowance is written (a list, the list to put back, the disk,
  an update under way, the card), it was given and stands: the request is not
  pending and not denied;
- `AllowanceWaits`: an allowance whose settlement is not saved yet still has its card
  in the list, because the settlement precedes in the queue any removal of that
  card (`SettlementFirst`): the FIFO of mutations is what the property rests on;
- `AllowanceStands`: once it is saved, every one of the three lists has it settled as
  allowed, or the card is gone from the list and says allowed. `AllowedIsFinal` is its
  part about the disk.

The queue is a sequence, so the proof begins with lemmas about what the loss of a head
and growth at the end do to membership, uniqueness and order (`LoseHead`, `GrowEnd`,
`HeadGoes`), which every action cites.

### The process and its state

`ProcessProofs` has theorems about the other five modules of `processes`, for any values
of their constants. It extends `TurnLeaseProofs` for `RemoveAtFacts`.

- `HolderIsNamed`: `LockSpec => []HolderIsOnFile`;
- `WorkersRunAlone`: `GatewaySpec => []RunsAlone`;
- `DrainIsComplete`: `GatewaySpec => DrainedBeforeStop`;
- `ReplaysAreRecognized`: `ReceiptSpec => ReplayIsNotAskedAgain`;
- `RefusedIsGone`: `RuntimeSpec => []RefusedIsNotOnFile`;
- `OwedStaysInHand`: `RejectionSpec => [](RecordedIsOnFile /\ NoIntentIsForgotten)`.

The lock. `HolderIsNamed` is for any set of processes and any of the settings of
`KilledInRecovery`, from the assumption that `NoProc` is no process. The strengthening says
that a record in the file or read by somebody is of a process that has begun, and
that what is about to be unlinked was written by a process that has ended, which
owns nothing (`RemovedIsOfEnded`).

The gateway process. `GatewayIInv` says that only the worker spawned last is alive, and
only under a supervisor (`LastWorkerOnly`), and that from taking the lock to the end of its
runtime it is the lock's owner (`OwnsItsLock`). `RunsAlone` is the consequence the rest of the
project stands on, since every other module has one gateway at a time; no run
lists it. It rests on what `KillSupervisor` says of launchd, that the process group of a
job that died is ended with it; a gateway run by hand does not have that. For
`DrainIsComplete` the invariant says that a worker that drains is the last one and watched, and
the rest is in the steps: tasks move from one component to the next while the
rounds of `waitForIdle` go by, but of all steps only `DrainCheckpoint` leads from the drain to
the stop, and it looks at all four components at once.

Receipts. A mutation of the guard changes memory before the file and puts it back
when the save fails. `MutationIsOpen` says what this leaves between: without a mutation
memory is what the file says; with one, its `previous` is what the file says, memory
differs from it only by the mutation's own call, and that call is the one in
progress. Then a restart that went ahead has its receipt in the saved list
(`acknowledgeable`), and a call whose receipt is there asks nobody. Both lists have at most
one receipt of a call, as the code's `Map` has: `Without` removes one element, and
`WithoutFacts`, `AppendFacts` and `TrimFacts` say what is left.

The state. `RefusedIsGone` is for any sets of cards, receipts, other changes and PUTs. The
invariant relates memory, the file and every entry of the write queue to what the
callers were told: memory and each write have exactly what was told saved, and the
one change that is being saved; what a write puts back has exactly what was saved
(`WritesAgree`); there is at most one write of a section in the queue, because the
mutation queue waits for it, but any number of writes that undo a start.

Rejections. `IntentsAreSettled` is liveness; what it rests on is safety and proved. While its
plan is neither decided nor late, a rejection that Slack or the caller was told of is on
file (`RecordedIsOnFile`), and what is on file is not left behind: it has a retry timer, an
attempt that runs or a removal in the queue, unless the process is closing, after which the
next one begins with a timer for each (`NoIntentIsForgotten`). Neither is inductive
alone. `SavesOneChange` says that memory differs from the file by the one change being
saved, so that a rollback puts back what is on file; `RemovalsAreDue` that a removal belongs
to one attempt, which waits for it, and to a plan that is over, so that no save of
another plan's change and no attempt that finds its record gone (`NothingToAttempt`) can
drop an intent that is still owed. `NoWorkerIsForgotten` adds that a worker that waits in
`recordRejection` waits for a change or an attempt that is there.

TLC checked `GatewayIInv` and `RunsAlone` with one task, four workers and two crashes (3,807,456
states), `ReceiptIInv` with three calls, two receipts and three lives (105,904), and
`RejectionIInv` with three plans, a failure and two processes (1,939,372).

### The turns of a Koe

`KoeTurnProofs` proves, for any values of the constants (that bounds are numbers, and
that "no turn holds the lease" and "no thread" are none of the slots and roots):

- `ResultsReachTheirSession`: `SessionSpec => []ResultReachesUnlessReplaced`;
- `WhatIsSavedCanStart`: `SessionSpec => []StateLoadsUnlessFellBack`;
- `ThreadsAreIsolated`: `SessionSpec => []ThreadTurnsAreIsolated`;
- `NoTurnRunsUnwatched`: `CodexSpec => []NothingLeftRunning`;
- `ForeignStaysUntouched`: `CodexSpec => []ForeignTurnUntouched`;
- `ServerIsGone`: `AppServerSpec => []ClosedMeansGone`;
- `StoppedIsNeverGranted`: `ClaudeSpec => StoppedAskIsNotGranted`;
- `HiddenWaitsAreFound`: `MonitorSpec => []HiddenWaitIsReported`;
- `ChangesAreNumbered`: `MonitorSpec => EachChangeAnnouncedOnce`.

Sessions. The three properties hold together or not at all. `SessionIInv` says of
every turn which session it knows at its step (`KnowsItsSession`, `IsFenced`: a result
knows the one that asked, unless that was declared and is gone), of the lease that
all turns but its holder have not begun or wait (`LeaseIsHeld`), and of the tables, as
they are and as they were saved last, what a start with any scope may meet
(`TablesAreScoped`): with channel scope one session, with thread scope at most one
root for each session, and no other root has run in it. The session of a visit is the
case that needs most: nobody else has used it (`Unused`), and it is bound to the first
root that comes to it, possibly after a save that does not have it. A declared
session (`declared`) takes these facts away, and with them the scope, which is then "channel".

Codex turns. What runs at the app-server is what `sendMessage` watches
(`RunningIsWatched`) because it knows of no other turn than its own (`KnownTurns`) and
takes a turn to be over only when it is (`EndsAreSeen`): a completion that was kept
until the claim, the answer of an interrupt, an idle thread, a transport that
failed. `lateClaim` is the exception of `NothingLeftRunning`, and each part of the
invariant has to say what it does not cover.

The two adapters' ends. `ServerIsGone` needs that the end of a connection begins only
after the spawn, so that no process starts after it; `StoppedIsNeverGranted` that a
pending question was not stopped, since every stop settles the questions of its turn.

The monitor. `HiddenWaitIsReported` relates the requests of the adapter to an incident
number; between them is what the monitor knows: every open request, every overdue
one as late, and no card as visible that is not shown (`WaitsAreKnown`), while nothing
has misled it. Its helpers nest, so each of them has a lemma that says what it leaves
of the known waits (`SetStateKeeps`, `ObserveStatusKeeps`, ...), and `ReconcileAnnounces` is the
one lemma about the numbers. `EachChangeAnnouncedOnce` then needs that numbers on file are
those announced (`announced = incident` unless `unsavedEnd`).

TLC checked each of these invariants first: `SessionIInv` on the bounds of its run
(61,170 states) and on four sessions, four requests and three starts (735,475),
`CodexIInv` and `MonitorIInv` (284,833) on those of `koe_turns`.

### The interactions

`InteractionProofs` proves, for any values of the constants (`SlackEvents`, `AdminConfig` and
`SlackProjection` ask that bounds are numbers, `AdminConfig` also that the named settings and the kinds of values are told apart,
`AdminAssumption`):

- `TurnsAreOfMessages`: `EventSpec => []MessageStartsOneTurn`;
- `RequestsEndOnce`: `ChoiceSpec => []AnsweredOrContinued`;
- `ApprovalsAreWrittenFirst`: `GitSpec => []ApprovalIsPrivateFirst`;
- `AnsweredOnce`: `GitSpec => QuestionAnsweredOnce`;
- `TurnsAreTold`: `ProjectionSpec => []TurnIsTold`;
- `WhatIsSavedLoads`: `AdminSpec => []SavedSettingsLoad`;
- `UntouchedStays`: `AdminSpec => UntouchedSettingsKept`.

Messages. `EventIInv` says of each message, while no save has failed: its turns are at
most the ones that were cut and one more, and that one is in the saved ledger or its
handler is still between them, and then a restart that drains is not idle yet. The
handler is the only one because `seen` is set before its first await and the process
remembers it; the restart matters because it is the only end of a process that
waits.

Questions. `ChoiceIInv` has three parts besides the types. `EndsAreTrue`: whatever tells
of an end without an answer (an event in the queue, an update under way, a card, a
continuation, a handler that has taken it) is right, and stays so, because a request
that is not pending is not answered any more. `OfferedOnce`: at most one event offers
the continuation, because the app-server resolves a request once (`ended`); the offer,
the pending continuation and the handler that has begun it exclude each other. That is
the whole of "one new turn": `begin` alone would not do, for `#prune` and a second
offer could bring the continuation back.

Git approvals. `GitIInv`: nothing speaks of a question before it is bound to its plan
(`OnlyBoundAreShown`), and the plan stays; a question that was answered, or that is being
drained, is gone (`AnsweredIsGone`); a click that was recorded has what it says in the
private store, which is written once for a plan, and an execution or a continuation
is of a plan approved by a question that is gone (`ApprovalsArePrivate`). So no question
can begin the same execution again.

The thread of a turn. `TurnIsTold` is about the end; `ProjectionIInv` says of every stage what
has been told by then (`AnswerIsTold`, `ErrorIsTold`) and what each call that ended well has
told (`CallsAreTold`). The difficulty is the queue of writes: an activity message that shows the
answer must not be overwritten by a heartbeat that was queued before. `WritesInOrder` says
that heartbeats are ahead of the handler's one write and that none comes after the
progress is finalized, so that a write in progress and a published answer exclude each
other (`NoWriteAfterTheAnswer`); the queue is a sequence, and what an append and the loss of
its head do to this order are the lemmas `CallAppended`, `BeatAppended` and `HeadGone`.

Settings. `AdminIInv` relates the operator's file, the sidecar, what a page was loaded
with, and what a save has read: an override in the sidecar names the value it was
made against, and a save that is past its lock has the file it planned with
(`FilesAgree`, `TabAgrees`, `SaveAgrees`). What a save writes is settled by three lemmas on the
form: its settings are ones the schema takes (`ChoicesAreSound`), so is what is sent for it
(`SentIsSound`), and that differs from the page in touched or forced settings only
(`SentIsTouchedOrForced`).

Each of these was checked by TLC as an invariant before its proof: `GitIInv` on two
questions, two plans and two clicks (4.2 million states), `ChoiceIInv` on two handlers and
two questions (370,000) and, without its part on the receipt, on three handlers (9.6
million), `ProjectionIInv` on the bounds of its run (166,183).

### Only model-checked

- Liveness (`ImplementsPromise` with its liveness, `DeadLockIsRecovered`, `StopSettles`,
  `IntentsAreSettled`, `EverySendEnds`, `EveryQueryEnds`, `EveryCallReturns`,
  `EveryRequestEnds`): fairness and ENABLED are out of the prover's reach. Every other
  property of a passing run is a theorem.
- The promise with restarts or failed saves. With a restart the mapping would have to take
  a job found on disk for accepted, and `AcceptJob` for a job that nobody was told of.

## 5. Plan

Proofs, in the order of what they would add:

1. The promise over restarts, with a mapping that counts a job on disk as accepted.

Modelling:

1. The composition of `DelegationQueue` with `TurnLease` (its `wait` becomes the lease) and
   with `GatewayProcess` (its drain and stop become the steps of the process).
2. The Git recovery card, `GitApprovals` being about the first approval.
3. The recorder of system rejections inside the Slack frontend.
4. The controls of a running turn and `POST /api/restart`.

## 6. Not modelled

Everything marked "-" in section 1. By reason:

- content no property tells apart: Slack blocks and text, MCP schemas, dispatch and
  authentication, the translation of Claude's messages, notices and the resumption
  of Codex threads, the syntax of the YAML settings, migrations;
- pure I/O: attachments, Slack files;
- pure functions better tested: the permission policy engine;
- observers: connection health and the parts of the diagnostics besides the monitor;
- retired or legacy code: the workspace Git automation, the synchronous `agent.send`
  (`mcp/runtime-service.ts` 613).

Within the modelled parts: `requestKey` deduplication of `agent.send`, and approvals asked
by a delegated turn whose projection blocks it.

Hazards without a property, all in `PROJECT.json` with their line: a parent that expires
while it is queued with its children's results (`mcp/runtime-service.ts` 1115), and a
shutdown that aborts the lease wait of a job that has not run (1131), both of which
lose a result on purpose, the code's own promise being only that nothing runs twice;
a deadline that passes during the private approval (`adapters/codex/adapter.ts` 4029,
`NoSyntheticRejection`); and a generation computed before its PUT has its turn
(`runtime.ts` 718, `GenerationNamesOnePolicy`, `AdoptedIsSaved`). The model has the last two and
breaks the properties named there.
