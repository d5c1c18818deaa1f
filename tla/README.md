# Formal models of Breeze RMM

TLA+ models, TLC runs and TLAPS proofs for the parts of Breeze in which an
operator's request becomes work on a device, the outcome becomes a row an
operator can trust, and the agent stays alive, reachable and authorised. The
models are written from the code in `apps/api` (the TypeScript API) and `agent`
(the Go agent). `PROJECT.json` maps every definition to the lines it models.

## The system

Breeze manages devices for service providers. The API (Hono on Node, Postgres,
Redis with BullMQ) serves operators and agents. An agent on every device keeps
a WebSocket to the API, sends a heartbeat by REST every minute, runs commands on
a worker pool, and is watched by a second process, the watchdog. A helper in the
user's session gets its token from the agent over local IPC.

| Part | Code | Modelled in |
| --- | --- | --- |
| Command queue and delivery | `services/commandQueue.ts`, `commandDispatch.ts`, `routes/agents/commands.ts` | `CommandQueue`, `CommandLedger` |
| Stale command reaper | `jobs/staleCommandReaper.ts` | `CommandQueue`, `ScriptExecution` (two of five domains) |
| Agent WebSocket endpoint | `routes/agentWs.ts` | `AgentConnection`, `CommandQueue`, `ScriptExecution` (partly) |
| Device status, offline detector | `routes/agents/heartbeat.ts`, `jobs/offlineDetector.ts` | `AgentConnection` |
| Script execution and batches | `services/scriptExecution.ts`, `routes/scripts.ts` | `ScriptExecution`, `CommandLedger` |
| Agent worker pool | `agent/internal/workerpool/pool.go` | `WorkerPool`, `BoundedPool` |
| Agent command processing | `agent/internal/heartbeat/heartbeat.go` | `CommandQueue` (partly) |
| Watchdog | `agent/cmd/breeze-watchdog/main.go`, `agent/internal/watchdog` | `Watchdog` |
| Privileged access, approvals, tool calls | `routes/pam.ts`, `routes/approvals.ts`, `routes/devices/actuateElevation.ts`, `jobs/pamJobs.ts`, `jobs/approvalExpiryReaper.ts`, `services/aiAgent.ts`, `aiAgentSdk.ts` | `Elevation`, `OneGrant` (partly) |
| Device tokens | `routes/agents/token.ts`, `middleware/agentAuth.ts`, `heartbeat.go`, the helper's IPC client | `AgentToken` (partly) |

The full inventory, with a reason for every part that is left out, is the
`components` list of `PROJECT.json`.

How the parts interact: a route inserts a command row (often inside the
transaction of its request) and tries to push it over the agent's WebSocket;
otherwise a heartbeat or a poll of the agent claims it. The agent filters
duplicates, runs the command on its pool and answers on the socket and by REST.
Result handlers close the row with an UPDATE guarded by its status; so do the
caller's timeout, the cancel route and the reaper, in any order. An approved
elevation becomes such a command; a heartbeat's response also asks for a
rotation of the device's tokens. The watchdog restarts an agent that does not
answer and talks to the server in its place when restarting does not help.

## Modules

### CommandQueue, CommandLedger

State: the row (`kind`, `status`, `visible` once its transaction commits,
`executedAt`), the request that issued it (its stage, its send attempts, what it
told its caller), the messages to the agent, the agent's duplicate filter and running
handlers, the results in flight, and the reaper's snapshot. One action per step
between two awaits: `Insert`, `Claim`, `SendOk`, `SendFails`, `Release`,
`CommitTx`, `RollbackTx`, the waits of `executeCommand`, the claims by connection,
heartbeat and poll, `executeOnDevice`, `EvictSeen`, `DeviceFinishes`,
`DeviceRestarts`, `ProcessResult`, `CancelCommand`, `ReaperSelects`,
`ReaperUpdates`, `ApiCrashes`. Messages in both directions may be lost, delayed
and reordered, a POST may be retried, and the agent's duplicate filter may
forget an entry at any time. `kind` stands for the entry points of the service:
they differ in whether they wait, whether they push, which process they target,
and whether they run inside a transaction.

`CommandLedger` is the promise: an entry is opened once, closed once with one
verdict, as completed only after the command ran, and its command runs at most
once. A commit may open several entries together. `CommandQueue` implements it
through the mapping `Entry`; so does `ScriptExecution`, for the commands of a batch.

### AgentConnection

One agent's sockets as one API process sees them. State: each socket and the
progress of its `onOpen` and of the status update of its `onClose` or `onError`;
the map of active connections (`current`); the ping state, which is stored under the
agent id and therefore shared by all sockets of the agent; each socket's interval;
`devices.status` and the age of `lastSeenAt`; the detector's jobs. Every await is
a step boundary, every SELECT and UPDATE a step of its own, since the UPDATEs
carry no condition on the status.

### ScriptExecution

A request for several devices. State: the drafts inside its transaction, the
execution, command and batch rows, the scripts on the devices, the results on
both channels, the handler between closing the command row (outside the
transaction) and storing the execution, the cancel route between its check and
its UPDATE. Delivery itself is left to `CommandQueue`, which shows that a command
runs at most once; the commands of a batch, all inserted by one transaction,
are shown to keep the same promise (`CommandLedger`, with one entry for each
device). `counted` is a history variable: the executions the batch's
counters stand for.

### WorkerPool, BoundedPool

The pool with its submitters, workers and `Drain`. The three statements of `Submit`
are three steps; the WaitGroup is the set of tasks between Add and Done; the
queue is a set, because no property depends on its order.

`BoundedPool` is the promise to those who submit: at most as many tasks wait as the
queue has slots and at most as many run as there are workers; an accepted task runs
once, a refused one never. `WorkerPool` implements it through the mapping `Phase`. A
`Submit` under way has promised nothing, and one that panics (see below) never does.

### Watchdog

One iteration of the main select loop is one action: the case that was chosen
(`ProcessTick`, `PingTick`, `ConnectTick`, `HeartbeatTick`, `HandleIntent`,
`HandleToken`, `FailoverTick`), then the switch on the state that follows it.
`PongArrives` and `ReadLoopError` belong to the IPC reader. The state machine is the
table `Transitions`. The restarts are numbered in the order they are recorded, so the
history is a set of numbers, in memory (`mem`) and in its file (`disk`), and
`old` marks those that are more than 24 hours back. Writing the file may fail, and so may
reading it: `LoadHistory` then starts empty. The history variable `lost` says that the watchdog
has gone on without its history in either way. The watchdog may die at any point, also between
recording a restart and making it (`DiesInAttempt`). An attempt to connect to an agent that is up
succeeds; in the code the handshake reads without a deadline (`ipcclient.go:65`), so an agent
that accepted a connection and never answered would hold up the loop. The agent crashes, hangs, stops in order, announces that
stop, and is started by others; the service manager reports success or failure, and
a failed restart may leave the agent stopped. The commands the server gives in
failover restart, start and update the agent.

### Elevation, OneGrant

An elevation row, the execution row of the tool call it may belong to, and the
approval card on the phone, with everything that writes them but one write: the phone's
decision on an elevation (`approvals.ts:508-560`) needs a card of the bridge to the phones, and
none is ever stored (run `mobile_fan_out`). The writers are the ingest of an
intercepted UAC prompt with its transaction and the bridge to the phones, requests by
technicians, helper and chat tool calls, the respond, revoke and actuate
routes, the decision in the chat and on the phone, report-suspicious, the
polling tool call with its deadline, the two expiry jobs and the reaper of
approval requests. A handler that reads before it writes is two actions with an
entry of `ops` in between; one technician has one handler in flight.

A call of a chat may be approved in advance. Its session has an approval mode, can be paused and
resumed, and can have an action plan, which is active from its proposal on and whose steps
count once it is approved. Abort, pause and completion write the plan's row and only then make
the session forget its plan, so an approval can fall in between (`ending`). `Shortcut` is the
condition under which a call runs unasked; every other call goes through `ChatCalls` and waits.
Each call is modelled with its session up to the moment it is made. The order of a plan's steps
is left out: a call may be the next step or not while any step is left. A session has one
proposal at a time, and plan endings that overlap count as one. Tools of tier 1, which ask nobody,
are left out.

`OneGrant` is the promise: a request is decided at most once, by a rule or by a
technician other than its subject; what was refused or has ended is never
granted again; a grant becomes a device command at most once, while it lasts, and
only if a technician gave it. `Elevation` implements it by mapping the statuses with
`Phase`.

### AgentToken

A rotation replaces the agent's, the watchdog's and the helper's token together,
so a token is the number of the rotation that made it. State: the two stored
hashes and the grace period; every rotation request on its way through
authentication, the handler's read and its update; the agent's memory, disk and
the token it retains for the helper, if it has one; the helper's driver and session, whether the
session is that of the console, and the handler that pushes to it. The agent's wait, the request and the server's handler proceed
separately, since the client gives up after 30 seconds while the handler goes on.
Requests are lost, refused or answered late; saving and sending fail; the agent
restarts with what is on disk.

The agent gives its token only to a helper at the console. A session that is off the console when
a push is due is passed over and stays open (`withheld`), and its return to the console brings no
push. A helper that connects off the console, or with an unexpected binary, gets a permanent
reject, which ends its driver until the helper's process is launched again. The check of the
console and the read or the send that follows are one step.

`MC*` modules instantiate the others for TLC; `*Proofs` modules hold theorems.

## Runs

| Run | Shows | Instance |
| --- | --- | --- |
| `command_queue` | a command runs at most once; the caller saw what the row says, unless it was told that the device is unreachable; results of `executeCommand` find their row; commands run on the process they target; closed rows never change; the ledger is implemented; every committed command closes and every request ends | one command of every kind, one crash |
| `worker_pool` | Drain waits for the tasks accepted in time; `BoundedPool` is implemented; accepted tasks run; workers exit | three tasks, two workers, a queue of one |
| `agent_connection` | the connection that is up is the active one; no ping state without an interval; a connection marks the device offline at most once; a vanished peer is noticed once older handlers are through; intervals stop; late offline writes die out; a silent device ends offline | two sockets, one detector job, failing transactions |
| `script_execution` | each device is counted once; a finished batch is over; executions tell the outcome; the batch implements the ledger; every execution ends; the reaper of the last execution ends the batch | a batch of two |
| `watchdog` | the 24-hour budget holds across deaths of the watchdog that do not lose the history; the history keeps its cap; a restart counts as recovery only after a later heartbeat | a budget and a cap of one, one restart that ages, one commanded restart, one death |
| `watchdog_liveness` | a dead agent is started or handed to the server; a running agent without a connection is monitored again | a budget of two |
| `elevation` | no tool runs without an approval of its call, or in advance by the mode or a plan of an unpaused chat; the tables agree; `OneGrant` is implemented; grants, pending requests, tool calls and cards end | one request of any origin, two technicians |
| `agent_token` | the agent's token is accepted unless it missed an answer or restarted unsaved; the helper has what the agent retains unless a push was overtaken or withheld; one that stays at the console and is not rejected for good gets it; a due rotation is made | two rotations, one restart, one broken session |

Four runs show a disagreement between the code and one of its comments or docs;
`findings` in `PROJECT.json` quotes the lines:

| Run | What happens |
| --- | --- |
| `script_timeout` | a script that reported success by REST first is recorded as timed out |
| `watchdog_standby` | an agent that comes back while the watchdog stands by reconnects, which STANDBY ignores; after the timeout the watchdog stays in FAILOVER next to a healthy agent |
| `mobile_fan_out` | the bridge to the phones refers to an elevation that is not committed |
| `lost_rotation_answer` | an agent that missed the answer to a rotation is never asked again and is refused once the grace period is over |

### Statements the code does not keep

Six more statements are defined next to the properties, with the comment they
are taken from. No run checks them: each is violated in its model, which therefore
contains the behaviour, and the runs above check what holds in spite of it.

| Definition | Statement | What happens |
| --- | --- | --- |
| `CommandQueue!RowCommittedBeforeResult` | a follow-up command's row is committed before the agent can answer (`routes/agents/commands.ts:336`) | it is pushed inside the transaction that inserts it |
| `WorkerPool!NoSendAfterDrain` | wg.Add prevents a race with Drain (`pool.go:66`) | Submit passes its check before Drain and sends on the queue Drain has closed |
| `AgentConnection!StaleIsDetected` | pings detect stale connections (`agentWs.ts:1597`) | the close of a replaced connection deletes its successor's ping state |
| `AgentConnection!MarksOnlySilent` | the detector checks that the device has not reconnected (`offlineDetector.ts:203`) | a heartbeat after the check is overwritten |
| `ScriptExecution!CancelsOnlyOpen` | only open executions can be cancelled (`scripts.ts:1035`) | one that ended after the check becomes cancelled |
| `Elevation!RejectedStaysRejected` | a pending tool execution is approved or rejected (`aiAgent.ts:338`) | the UPDATE by id turns another technician's rejection into an approval |

### Bounds

Two actors are what the races need: a connection and its successor, two
technicians, a late rotation handler and the next one. One command with all its
channels contains every race on a row, because rows share no state except the
claim limit of a poll, and the proofs hold for any set of commands. Two sockets
allow the late handlers of an old connection beside the current one; a second
detector job only repeats the first one's write. Two devices are the smallest
batch. A history cap of one makes the cap and the budget meet after two
restarts. Crashes, deaths, restarts, rotations and broken sessions are bounded by the
constants named `Max...`, claims of a poll by `ClaimLimit`, send attempts by
`SEND_RETRY_ATTEMPTS` as in the code. Ages are two- or three-valued. The proofs
remove these bounds for the safety properties they cover.

### Fairness

Continuations and timers of Node's event loop run, and repeatable BullMQ jobs
run: hence weak fairness of request steps, handlers, intervals, the detector,
the reapers and the expiry jobs. Goroutines that can run do run, and tickers
fire. A socket the server closed gets a close event (the library has a close
timeout). A connected agent sends heartbeats, its HTTP client times out, and the
helper's driver reconnects until it returns. A helper that is pushed to again and again gets one push
in the end (the one strong fairness, in `AgentToken`). The service manager
restarts the watchdog. Time passes: windows, cards, deadlines, verifications and
standby end. Nothing is assumed of devices, of results, of people, of the console or of the network: in
particular a vanished peer is never reported by itself, nobody has to decide a request,
and a restart of the agent may fail for ever.

## Proofs

All theorems hold for every value of the constants.

- `CommandQueueProofs`. The argument is that the right to deliver a command is
  always in one place. `ExecutedAtMostOnce` alone is not inductive: one must know that
  a row can be claimed only while no message, no handler and no
  unreleased claim exists. `DeliveryInv` says so, as the single token (`TokenInv`), what a
  row's status allows (`RowInv`) and where messages can come from
  (`ChannelInv`), on top of the types. From it follow `AtMostOnce`,
  `CompletedRan`, `CallerAgrees`, `ExecuteFindsRow`, the action property
  `TerminalStable`, and `Refinement`, that the queue implements the ledger.
  `TargetRespected` needs `TargetInv` besides: a claimed command keeps to its
  process, and no dispatcher holds a command of the watchdog. At-most-once does
  not use the duplicate filter.
- `WorkerPoolProofs`. `PoolInv`: a task between Add and Done is in the WaitGroup, and once
  the wait has returned the tasks enqueued in time are finished; the running tasks are
  those the workers hold, each held by one. `DrainComplete` follows. `PoolRefinement` shows
  that every step is a step of `BoundedPool` or none of it: the taking worker holds
  nothing, so the running tasks, being the image of the other workers under `holds`, are fewer
  than the workers. `LimitsKept` states the two limits for the pool itself.
  `QueuedTasksHaveWorkers` is the safety part of the argument that accepted tasks run:
  a worker leaves only a closed and empty queue, to which nothing is added any more.
- `AgentConnectionProofs`. `LatestIsActive` and `PingStateIsSwept` are inductive together with
  the types. `MarksOfflineOnce` rests on `OfflineInv`: a connection whose status update is under way
  has closed, or is closing and no longer in the map, so neither its close nor another
  error starts a second update. The updates that can overwrite a reconnect are therefore at most as
  many as the connections that have ended.
- `ScriptExecutionProofs`. `ScriptInv` adds that nothing is counted before the commit,
  that a script a heartbeat can still claim has not run, and that the handler
  holds what the device reported. The step that ends a batch uses that a
  subset of the devices as large as the batch is the batch. `LastReapedEndsBatch`
  adds that every ended execution that was not cancelled is counted. `BatchRefinement` shows
  that the commit enters the commands of all devices together, that a push or a claim runs a
  command that has not run, and that every writer closes an open row.
- `WatchdogProofs`. `RestartBudget` counts restarts that may no longer be in the
  history, because the cap cuts it. `BudgetInv` says that a recent automatic
  restart is in the history, or was pushed out by as many more recent ones as
  the cap allows; with a budget that does not exceed the cap, the loop then
  sees that its budget is spent. It also says that the file is the memory as long as the
  history was not lost. `RecoveryIsVerified` rests on `VerificationInv`: a verification
  that has succeeded was preceded by a heartbeat. `WatchdogTypes` contains that the history
  stays within its cap: a record adds one number, larger than all others, and removes the
  smallest when the cap is exceeded. That there is a smallest one in every nonempty set of
  numbers (`SmallestElement`) is taken from the well-foundedness of the naturals.
- `ElevationLemmas`, `ElevationProofs`. `DecisionInv` relates the three tables, the sessions of
  the chats and the handlers in flight. `RowsAgree` says of one request, above all, that an
  approved row has not been used, that an approved execution has somebody's approval or one in
  advance, and that a listed step belongs to a plan that was approved; `ReadHolds` says of a handler
  in flight that its approval is not its subject's. The lemmas show that the agent's,
  the chat's and the shared steps keep it, the proofs do the rest. `WorkflowImplementsOneGrant` shows with it that every step is a step
  of `OneGrant` or leaves its variables alone.
- `AgentTokenProofs`. `RotationInv`: until an answer is missed or an unsaved token is lost,
  the agent has the current token, but for the answer under way, and the handler it
  waits for has read that token; so the hash the update moves to
  `previousTokenHash` is the agent's. `HelperInv`: pushes go to open sessions, and the
  last step of a rotation pushes what was just retained. `CallerAgrees`, `RestartsWithinBudget`,
  `AgentStaysAccepted` and `HelperFollowsTheAgent` have the exceptions their properties name.

Assumptions: `QueueSize` is positive, `Workers` and `Devices` are finite, the "no task", "no
socket", "no one" and "rule" values are not members of their sets, the watchdog's budget does
not exceed its history cap (5 and 50 in the code's defaults; a larger configured budget would never be
reached), and bounds are natural numbers; `CommandQueue` names its own.

Every invariant, action property and refinement that a passing run checks is also
proved. Only model-checked: the liveness properties, since fairness and `ENABLED` are outside
the prover's reach. Only proved: the inductive invariants (`DeliveryInv`, `TargetInv`, `PoolInv`,
`ScriptInv`, `BudgetInv`, `DecisionInv`, `RotationInv`, `HelperInv`) with the types they
contain, and what follows from them without being a property of a run: `CompletedWasExecuted`
(which the ledger implies), `WithinLimits` and `NoTaskStranded`.

## Abstractions

- Payloads, output and error texts are left out; a result is its status.
- A transaction becomes visible at its commit; statements that are guarded
  by the status are one step, since the guard is evaluated under the row's lock.
- One API process. With several, `activeConnections` is per process.
- Pongs that are still in flight when the peer leaves are ignored: they delay the
  timeout and do not prevent it.
- The rules of privileged access are reduced to their verdict, the service manager and the
  update installer to their outcome.
- Times are compared with the thresholds of the code, never counted. The grace period of a
  rotation (five minutes) outlasts the client's timeout (thirty seconds).

## Not modelled

The repository is large, and most of it is outside these models: the mapped
lines are a small share of the implementation. Three kinds of code are left out for
different reasons.

- Code without state of its own that a model could get wrong: collectors, platform
  probes, SNMP, user interfaces, packaging, formatting, CRUD routes.
- Code whose correctness is in another notation: row-level security (SQL policies),
  the audit hash chain and certificates (cryptography), the AI conversation (an
  external model).
- Workflows that would each need a module of this size: deployments, patch jobs and the
  reaper's domains for them, backup and disaster recovery, remote sessions and tunnels,
  refresh tokens of users, alerts, quotes and invoices, tickets. They use the command queue as
  the modelled routes do, but their own state is not covered.

Three hazards have no property. The watchdog's copy of its token, which only a restart or the
next rotation brings up to date (`cmd/breeze-watchdog/main.go:454`), is not modelled. The ping state
that a replaced connection deletes (`agentWs.ts:2099`) and the rejection that a decision in the chat
overwrites (`aiAgent.ts:373`) are in the models, and no property that holds excludes them.
