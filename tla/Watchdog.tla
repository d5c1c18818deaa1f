------------------------------ MODULE Watchdog ------------------------------
(***************************************************************************)
(* The watchdog process that supervises the agent                          *)
(* (agent/cmd/breeze-watchdog/main.go, agent/internal/watchdog): its state *)
(* machine, the checks of its select loop, the escalating restarts with    *)
(* their per-window and 24-hour budgets, and failover.                     *)
(*                                                                         *)
(* One iteration of the select loop is one action: the case that was       *)
(* chosen, then the state-driven switch that follows it.  The agent, the   *)
(* service manager and the passing of time are the environment.            *)
(*                                                                         *)
(* Restarts are numbered 1, 2, ... in the order they are recorded; those   *)
(* up to "old" are more than 24 hours back.                                *)
(***************************************************************************)
EXTENDS Naturals, FiniteSets

CONSTANTS
    MaxRecoveryAttempts, \* attempts within one cooldown window
    MaxRestartsPer24h,   \* the flap-detection budget
    HistoryCap,          \* restartHistoryCap
    IpcFailThreshold,    \* ipcFailThreshold
    InboxSize,           \* capacity of the ipcMessages channel
    MaxAged,             \* bound: restarts that become 24 hours old
    MaxCommanded,        \* bound: restarts the server commands
    MaxDeaths            \* bound: times the watchdog itself dies

ASSUME WatchdogAssumption ==
    /\ MaxRecoveryAttempts \in Nat /\ MaxRestartsPer24h \in Nat
    /\ HistoryCap \in Nat \ {0} /\ MaxRestartsPer24h <= HistoryCap
    /\ IpcFailThreshold \in Nat \ {0} /\ InboxSize \in Nat \ {0}
    /\ MaxAged \in Nat /\ MaxCommanded \in Nat /\ MaxDeaths \in Nat

VARIABLES
    \* the agent and its state file
    agent,      \* the agent process
    beat,       \* LastHeartbeat in the state file; "none" when there is no file
    \* the watchdog's memory
    wd,         \* the watchdog process
    state,      \* Watchdog.state
    pending,    \* pendingVerify: how long ago the restart was
    verified,   \* LastHeartbeat is after pendingVerify.startedAt + grace
    attempts,   \* RecoveryManager.attempts
    windowOver, \* the cooldown has passed since windowStart
    standbyOver,\* StandbyTimeout has passed since STANDBY was entered
    failover,   \* a FailoverClient exists
    hasToken,   \* the token holder is not empty
    \* the IPC client
    connected,  \* IPCClient.connected
    live,       \* the agent process at the other end of the connection exists
    pong,       \* lastPongAt is after lastPingAt, or nothing was sent yet
    fails,      \* HealthChecker.ipcFailCount
    inbox,      \* shutdown intents in the ipcMessages channel
    \* the restart history
    n,          \* restarts recorded so far
    old,        \* how many of them are older than 24 hours
    mem,        \* RecoveryManager.restartHistory
    disk,       \* the restart history file
    auto,       \* history: the restarts the recovery loop chose itself
    unsaved,    \* history: the last write of the history file failed
    lost,       \* history: the watchdog went on with less than the history it had
    beatSince,  \* history: a heartbeat came after the restart that is being verified
    deaths      \* how often the watchdog died

agentVars == <<agent, beat>>
loopVars  == <<wd, state, pending, verified, attempts, windowOver, standbyOver, failover, hasToken>>
ipcVars   == <<connected, live, pong, fails, inbox>>
histVars  == <<n, old, mem, disk, auto, unsaved, lost, beatSince, deaths>>
vars == <<agentVars, loopVars, ipcVars, histVars>>

States == {"CONNECTING", "MONITORING", "RECOVERING", "STANDBY", "FAILOVER"}

\* Mutant of Transitions: a reconnect does not end FAILOVER.
TransitionsNoReturn ==
    { <<"CONNECTING", "ipc_connected", "MONITORING">>,
      <<"CONNECTING", "agent_not_found", "RECOVERING">>,
      <<"CONNECTING", "agent_unhealthy", "RECOVERING">>,
      <<"MONITORING", "agent_unhealthy", "RECOVERING">>,
      <<"MONITORING", "shutdown_intent", "STANDBY">>,
      <<"RECOVERING", "agent_recovered", "MONITORING">>,
      <<"RECOVERING", "ipc_connected", "MONITORING">>,
      <<"RECOVERING", "recovery_exhausted", "FAILOVER">>,
      <<"STANDBY", "agent_recovered", "MONITORING">>,
      <<"STANDBY", "standby_timeout", "FAILOVER">>,
      <<"STANDBY", "start_agent", "RECOVERING">>,
      <<"FAILOVER", "agent_recovered", "MONITORING">> }

\* The transition table.
Transitions ==
    { <<"CONNECTING", "ipc_connected", "MONITORING">>,
      <<"CONNECTING", "agent_not_found", "RECOVERING">>,
      <<"CONNECTING", "agent_unhealthy", "RECOVERING">>,
      <<"MONITORING", "agent_unhealthy", "RECOVERING">>,
      <<"MONITORING", "shutdown_intent", "STANDBY">>,
      <<"RECOVERING", "agent_recovered", "MONITORING">>,
      <<"RECOVERING", "ipc_connected", "MONITORING">>,
      <<"RECOVERING", "recovery_exhausted", "FAILOVER">>,
      <<"STANDBY", "agent_recovered", "MONITORING">>,
      <<"STANDBY", "standby_timeout", "FAILOVER">>,
      <<"STANDBY", "start_agent", "RECOVERING">>,
      <<"FAILOVER", "agent_recovered", "MONITORING">>,
      <<"FAILOVER", "ipc_connected", "MONITORING">> }

\* HandleEvent: an event without a transition is ignored.
HandleEvent(s, event) ==
    IF \E t \in Transitions : t[1] = s /\ t[2] = event
    THEN (CHOOSE t \in Transitions : t[1] = s /\ t[2] = event)[3]
    ELSE s

-----------------------------------------------------------------------------
(* The restart history *)

Recent(S) == {i \in S : i > old}

\* Count24h: purges the entries that are older than 24 hours.
Count24h == Cardinality(Recent(mem))

Oldest(S) == {i \in S : \A j \in S : i <= j}

\* Mutant of Recorded: nothing is ever cut.
RecordedUncapped(S) == S

\* recordRestart: the oldest entry gives way when the cap is exceeded.
Recorded(S) == IF Cardinality(S) > HistoryCap THEN S \ Oldest(S) ELSE S

\* Mutant of Record: the history file is not written.
RecordInMemory(automatic) ==
    /\ n' = n + 1
    /\ mem' = Recorded(Recent(mem) \cup {n + 1})
    /\ UNCHANGED <<disk, unsaved>>
    /\ auto' = IF automatic THEN auto \cup {n + 1} ELSE auto

\* recordRestart with persistHistory, whose write may fail.
Record(automatic) ==
    /\ n' = n + 1
    /\ mem' = Recorded(Recent(mem) \cup {n + 1})
    /\ \/ disk' = Recorded(Recent(mem) \cup {n + 1}) /\ unsaved' = FALSE
       \/ disk' = disk /\ unsaved' = TRUE
    /\ auto' = IF automatic THEN auto \cup {n + 1} ELSE auto

NothingRecorded == UNCHANGED <<n, mem, disk, auto, unsaved>>

-----------------------------------------------------------------------------
(* The service manager (external) and the recovery attempt                 *)

\* A running agent that is told to stop announces it over IPC; the receive
\* callback drops the message when the channel is full.
Told(box, lv) == IF agent = "up" /\ lv /\ box < InboxSize THEN box + 1 ELSE box

Untouched(box, lv) == UNCHANGED agentVars /\ live' = lv /\ inbox' = box

\* A new agent process writes its state file without a heartbeat.
Started(box) ==
    /\ agent' = "up" /\ beat' = "zero"
    /\ live' = FALSE /\ inbox' = box

Killed(box) ==
    /\ agent' = "down" /\ UNCHANGED beat
    /\ live' = FALSE /\ inbox' = box

\* A stop in order: the state file is rewritten without LastHeartbeat.
StoppedInOrder(box, lv) ==
    /\ agent' = "down" /\ beat' = "zero"
    /\ live' = FALSE /\ inbox' = Told(box, lv)

RestartAgentService(box, lv, ok) ==
    \/ ok /\ Started(Told(box, lv))
    \/ ~ok /\ Untouched(box, lv)
    \/ ~ok /\ agent \in {"up", "stopping"} /\ StoppedInOrder(box, lv)
    \/ ~ok /\ agent = "hung" /\ Killed(box)

StartAgentService(box, lv, ok) ==
    \/ ok /\ agent = "down" /\ Started(box)
    \/ ok /\ agent # "down" /\ Untouched(box, lv)
    \/ ~ok /\ Untouched(box, lv)

KillAndStart(box, lv, ok) ==
    \/ agent = "down" /\ StartAgentService(box, lv, ok)
    \/ agent # "down" /\ ok /\ Started(box)
    \/ agent # "down" /\ ~ok /\ Killed(box)

\* RecoveryManager.Attempt: escalates with the attempts already made.  The
\* commands of the server pass no pid, so their second attempt kills nothing.
Attempt(made, pid, box, lv, ok, automatic) ==
    /\ attempts' = made + 1
    /\ Record(automatic)
    /\ \/ made = 0 /\ RestartAgentService(box, lv, ok)
       \/ made = 1 /\ pid /\ KillAndStart(box, lv, ok)
       \/ (made > 1 \/ (made = 1 /\ ~pid)) /\ StartAgentService(box, lv, ok)

-----------------------------------------------------------------------------
(* Commands of the server in failover *)

Commands == {"none", "restart_agent", "start_agent", "update_agent"}

\* One command of a failover heartbeat or poll ("none": no answer, or nothing
\* that touches the agent or the budgets; update_watchdog ends in WatchdogDies).
HandleFailoverCommand(cmd, box, lv) ==
    /\ \/ /\ cmd = "none"
          /\ Untouched(box, lv) /\ NothingRecorded
          /\ UNCHANGED <<attempts, windowOver>>
       \/ /\ cmd \in {"restart_agent", "start_agent"}
          /\ Cardinality((1..n) \ auto) < MaxCommanded
          /\ \E ok \in BOOLEAN :
                Attempt(IF cmd = "restart_agent" THEN 0 ELSE attempts, FALSE, box, lv, ok, FALSE)
          /\ windowOver' = (windowOver /\ cmd = "start_agent")
       \/ /\ cmd = "update_agent"
          /\ Untouched(box, lv) \/ Started(Told(box, lv))
          /\ NothingRecorded
          /\ UNCHANGED <<attempts, windowOver>>

-----------------------------------------------------------------------------
(* The state-driven switch at the end of an iteration.  st, box and lv are  *)
(* the state, the channel and the liveness of the connection as the select  *)
(* case left them.                                                          *)

\* Mutant of Verified: a process that runs verifies a restart.
VerifiedByProcess == agent # "down"

\* LastHeartbeat.After(verifyDeadline).
Verified == verified

\* RECOVERING while a restart waits for its verification.
AwaitVerification(st, box, lv) ==
    /\ st = "RECOVERING" /\ pending # "none"
    /\ \/ /\ Verified
          /\ state' = HandleEvent(st, "agent_recovered") /\ pending' = "none"
       \/ ~Verified /\ pending = "late" /\ state' = st /\ pending' = "none"
       \/ ~Verified /\ pending # "late" /\ state' = st /\ pending' = pending
    /\ Untouched(box, lv) /\ NothingRecorded
    /\ UNCHANGED <<attempts, windowOver, failover>>

AttemptsInWindow == IF windowOver THEN 0 ELSE attempts

CanRestart ==
    /\ Count24h < MaxRestartsPer24h
    /\ AttemptsInWindow < MaxRecoveryAttempts

\* RECOVERING with a budget used up.
GiveUp(st, box, lv) ==
    /\ st = "RECOVERING" /\ pending = "none" /\ ~CanRestart
    /\ state' = HandleEvent(st, "recovery_exhausted") /\ pending' = pending
    /\ IF Count24h >= MaxRestartsPer24h
       THEN UNCHANGED <<attempts, windowOver>>
       ELSE attempts' = AttemptsInWindow /\ windowOver' = FALSE
    /\ Untouched(box, lv) /\ NothingRecorded
    /\ UNCHANGED failover

\* RECOVERING: the next attempt.
Recover(st, box, lv) ==
    /\ st = "RECOVERING" /\ pending = "none" /\ CanRestart
    /\ \E ok \in BOOLEAN :
          /\ Attempt(AttemptsInWindow, beat # "none", box, lv, ok, TRUE)
          /\ pending' = IF ok THEN "grace" ELSE "none"
    /\ windowOver' = FALSE
    /\ state' = st
    /\ UNCHANGED failover

\* FAILOVER: the client is built from the token and sends its first heartbeat.
EnterFailover(st, box, lv) ==
    /\ st = "FAILOVER" /\ state' = st /\ pending' = "none"
    /\ failover' = (failover \/ hasToken)
    /\ \E cmd \in Commands :
          /\ failover \/ ~hasToken => cmd = "none"
          /\ HandleFailoverCommand(cmd, box, lv)

Standby(st, box, lv) ==
    /\ st = "STANDBY"
    /\ state' = IF standbyOver /\ state = "STANDBY" THEN HandleEvent(st, "standby_timeout") ELSE st
    /\ Untouched(box, lv) /\ NothingRecorded
    /\ UNCHANGED <<pending, attempts, windowOver, failover>>

Monitor(st, box, lv) ==
    /\ st = "MONITORING" /\ state' = st
    /\ pending' = "none" /\ failover' = FALSE
    /\ attempts' = 0 /\ windowOver' = FALSE
    /\ Untouched(box, lv) /\ NothingRecorded

Connecting(st, box, lv) ==
    /\ st = "CONNECTING" /\ state' = st
    /\ Untouched(box, lv) /\ NothingRecorded
    /\ UNCHANGED <<pending, attempts, windowOver, failover>>

StateDriven(st, box, lv) ==
    /\ \/ AwaitVerification(st, box, lv) \/ GiveUp(st, box, lv) \/ Recover(st, box, lv)
       \/ EnterFailover(st, box, lv) \/ Standby(st, box, lv)
       \/ Monitor(st, box, lv) \/ Connecting(st, box, lv)
    /\ verified' = (verified /\ pending' # "none")
    /\ beatSince' = (beatSince /\ pending # "none" /\ pending' # "none")
    /\ standbyOver' = (standbyOver /\ state' = "STANDBY" /\ state = "STANDBY")
    /\ UNCHANGED <<wd, old, lost, deaths>>

-----------------------------------------------------------------------------
(* The select loop *)

ClientUnchanged == UNCHANGED <<connected, pong, fails, hasToken>>

\* Mutant of ProcessTick: only MONITORING looks at the process.
ProcessTickIfConnected ==
    /\ wd = "up"
    /\ StateDriven(IF beat # "none" /\ agent = "down" /\ connected
                   THEN HandleEvent(state, "agent_unhealthy") ELSE state, inbox, live)
    /\ ClientUnchanged

\* processTicker.
ProcessTick ==
    /\ wd = "up"
    /\ StateDriven(IF beat # "none" /\ agent = "down"
                   THEN HandleEvent(state, "agent_unhealthy") ELSE state, inbox, live)
    /\ ClientUnchanged

\* ipcTicker with a connection: ping, and report the third failure in a row.
PingTick ==
    /\ wd = "up" /\ connected
    /\ LET good == live /\ pong
           f == IF good THEN 0 ELSE IF fails < IpcFailThreshold THEN fails + 1 ELSE fails
       IN  /\ fails' = f
           /\ StateDriven(IF f >= IpcFailThreshold THEN HandleEvent(state, "agent_unhealthy")
                          ELSE state, inbox, live)
    /\ pong' = FALSE
    /\ UNCHANGED <<connected, hasToken>>

\* ipcTicker without a connection: connect.  Only a running agent answers.
ConnectTick ==
    /\ wd = "up" /\ ~connected
    /\ connected' = (agent = "up")
    /\ fails' = IF agent = "up" THEN 0 ELSE fails
    /\ StateDriven(IF agent = "up" THEN HandleEvent(state, "ipc_connected") ELSE state,
                   inbox, agent = "up")
    /\ UNCHANGED <<pong, hasToken>>

\* heartbeatTicker: no state file is stale, a file without a heartbeat is not.
HeartbeatTick ==
    /\ wd = "up"
    /\ StateDriven(IF beat \in {"none", "stale"} THEN HandleEvent(state, "agent_unhealthy")
                   ELSE state, inbox, live)
    /\ ClientUnchanged

\* handleIPCMessage: shutdown_intent.
HandleIntent ==
    /\ wd = "up" /\ inbox > 0
    /\ StateDriven(HandleEvent(state, "shutdown_intent"), inbox - 1, live)
    /\ ClientUnchanged

\* handleIPCMessage: token_update.
HandleToken ==
    /\ wd = "up" /\ connected /\ live /\ agent = "up" /\ ~hasToken
    /\ hasToken' = TRUE
    /\ StateDriven(state, inbox, live)
    /\ UNCHANGED <<connected, pong, fails>>

\* failoverTicker: any other state, or no client, is left without an effect.
FailoverTick ==
    /\ wd = "up" /\ state = "FAILOVER" /\ failover
    /\ \E cmd \in Commands : HandleFailoverCommand(cmd, inbox, live)
    /\ state' = HandleEvent(state, "start_agent") /\ pending' = "none"
    /\ verified' = FALSE /\ standbyOver' = FALSE /\ beatSince' = FALSE
    /\ UNCHANGED <<wd, failover, old, lost, deaths>>
    /\ ClientUnchanged

-----------------------------------------------------------------------------
(* The watchdog process *)

\* What ends with the process; the history file is what it leaves behind.
MemoryGone ==
    /\ deaths < MaxDeaths /\ deaths' = deaths + 1
    /\ wd' = "down" /\ state' = "CONNECTING"
    /\ pending' = "none" /\ verified' = FALSE
    /\ attempts' = 0 /\ windowOver' = FALSE /\ standbyOver' = FALSE /\ failover' = FALSE
    /\ connected' = FALSE /\ live' = FALSE /\ pong' = TRUE /\ fails' = 0 /\ inbox' = 0
    /\ beatSince' = FALSE
    /\ UNCHANGED <<agentVars, hasToken, old>>

\* The watchdog is stopped, replaced by an update, or dies.
WatchdogDies ==
    /\ wd = "up"
    /\ MemoryGone
    /\ lost' = (lost \/ unsaved) /\ unsaved' = FALSE
    /\ mem' = {}
    /\ UNCHANGED <<n, disk, auto>>

\* The watchdog dies in Attempt, between the record and the service action.
DiesInAttempt ==
    /\ wd = "up" /\ state = "RECOVERING" /\ pending = "none" /\ CanRestart
    /\ MemoryGone
    /\ n' = n + 1 /\ auto' = auto \cup {n + 1}
    /\ mem' = {} /\ unsaved' = FALSE
    /\ \/ disk' = Recorded(Recent(mem) \cup {n + 1}) /\ lost' = lost
       \/ disk' = disk /\ lost' = TRUE

\* loadHistory starts empty when the file is missing, unreadable or corrupt.
\* What it purges is not looked at anywhere (Recent).
LoadHistory ==
    /\ mem' \in {disk, {}}
    /\ lost' = (lost \/ mem' # disk)

\* runWatchdog up to its loop.
WatchdogStarts ==
    /\ wd = "down"
    /\ wd' = "up"
    /\ LoadHistory
    /\ connected' = (agent = "up") /\ live' = (agent = "up")
    /\ state' = CASE agent = "up"   -> HandleEvent("CONNECTING", "ipc_connected")
                  [] agent = "down" -> HandleEvent("CONNECTING", "agent_not_found")
                  [] OTHER          -> "CONNECTING"
    /\ UNCHANGED <<agentVars, pending, verified, attempts, windowOver, standbyOver, failover, hasToken,
                   pong, fails, inbox, n, old, disk, auto, unsaved, beatSince, deaths>>

\* readLoop: the other end is gone.
ReadLoopError ==
    /\ wd = "up" /\ connected /\ ~live
    /\ connected' = FALSE
    /\ UNCHANGED <<agentVars, loopVars, live, pong, fails, inbox, histVars>>

\* A pong arrives; its message makes the loop run once more.
PongArrives ==
    /\ wd = "up" /\ connected /\ live /\ agent \in {"up", "stopping"} /\ ~pong
    /\ pong' = TRUE
    /\ StateDriven(state, inbox, live)
    /\ UNCHANGED <<connected, fails, hasToken>>

-----------------------------------------------------------------------------
(* The agent *)

\* The agent reports to the server and stamps its state file.
Heartbeat ==
    /\ agent = "up"
    /\ beat' = "fresh" /\ beatSince' = (pending # "none")
    /\ verified' = (verified \/ pending \in {"watch", "late"})
    /\ UNCHANGED <<agent, wd, state, pending, attempts, windowOver, standbyOver, failover,
                   hasToken, ipcVars, n, old, mem, disk, auto, unsaved, lost, deaths>>

AgentCrashes ==
    /\ agent # "down"
    /\ agent' = "down" /\ live' = FALSE
    /\ UNCHANGED <<beat, loopVars, connected, pong, fails, inbox, histVars>>

AgentHangs ==
    /\ agent = "up"
    /\ agent' = "hung"
    /\ UNCHANGED <<beat, loopVars, ipcVars, histVars>>

\* shutdownAgent: the stopping state, then the intent over IPC.
AgentAnnouncesStop ==
    /\ agent = "up"
    /\ agent' = "stopping" /\ beat' = "zero"
    /\ inbox' = Told(inbox, live /\ wd = "up")
    /\ UNCHANGED <<loopVars, connected, live, pong, fails, histVars>>

AgentExits ==
    /\ agent = "stopping"
    /\ agent' = "down" /\ live' = FALSE
    /\ UNCHANGED <<beat, loopVars, connected, pong, fails, inbox, histVars>>

\* Someone else starts the agent: an operator, an installer, the boot.
AgentStarts ==
    /\ agent = "down"
    /\ agent' = "up" /\ beat' = "zero" /\ live' = FALSE
    /\ UNCHANGED <<loopVars, connected, pong, fails, inbox, histVars>>

-----------------------------------------------------------------------------
(* Time *)

\* The heartbeat passes the staleness threshold.
BeatAges ==
    /\ beat = "fresh" /\ beat' = "stale"
    /\ UNCHANGED <<agent, loopVars, ipcVars, histVars>>

\* The grace, then the timeout of a verification pass.
VerificationAges ==
    /\ pending \in {"grace", "watch"}
    /\ pending' = IF pending = "grace" THEN "watch" ELSE "late"
    /\ UNCHANGED <<agentVars, wd, state, verified, attempts, windowOver, standbyOver, failover,
                   hasToken, ipcVars, histVars>>

CooldownPasses ==
    /\ attempts > 0 /\ ~windowOver /\ windowOver' = TRUE
    /\ UNCHANGED <<agentVars, wd, state, pending, verified, attempts, standbyOver, failover,
                   hasToken, ipcVars, histVars>>

StandbyPasses ==
    /\ state = "STANDBY" /\ ~standbyOver /\ standbyOver' = TRUE
    /\ UNCHANGED <<agentVars, wd, state, pending, verified, attempts, windowOver, failover,
                   hasToken, ipcVars, histVars>>

\* The oldest restart becomes 24 hours old.
RestartAges ==
    /\ old < n /\ old < MaxAged /\ old' = old + 1
    /\ UNCHANGED <<agentVars, loopVars, ipcVars, n, mem, disk, auto, unsaved, lost, beatSince, deaths>>

-----------------------------------------------------------------------------
\* The watchdog is about to start, next to an agent or before its first run.
Init ==
    /\ agent \in {"down", "up"} /\ beat = IF agent = "up" THEN "zero" ELSE "none"
    /\ wd = "down" /\ state = "CONNECTING" /\ pending = "none" /\ verified = FALSE
    /\ attempts = 0 /\ windowOver = FALSE /\ standbyOver = FALSE /\ failover = FALSE
    /\ hasToken \in BOOLEAN
    /\ connected = FALSE /\ live = FALSE /\ pong = TRUE
    /\ fails = 0 /\ inbox = 0
    /\ n = 0 /\ old = 0 /\ mem = {} /\ disk = {} /\ auto = {}
    /\ unsaved = FALSE /\ lost = FALSE /\ beatSince = FALSE /\ deaths = 0

Loop ==
    \/ ProcessTick \/ PingTick \/ ConnectTick \/ HeartbeatTick
    \/ HandleIntent \/ HandleToken \/ FailoverTick \/ PongArrives

Next ==
    \/ Loop
    \/ WatchdogDies \/ DiesInAttempt \/ WatchdogStarts \/ ReadLoopError
    \/ Heartbeat \/ AgentCrashes \/ AgentHangs \/ AgentAnnouncesStop \/ AgentExits
    \/ AgentStarts
    \/ BeatAges \/ VerificationAges \/ CooldownPasses \/ StandbyPasses \/ RestartAges

Spec == Init /\ [][Next]_vars

\* Tickers fire, queued messages are received, time passes, the service
\* manager starts the watchdog and a running agent answers pings; nothing is
\* assumed of the agent or of the server otherwise.
FairSpec ==
    /\ Spec
    /\ WF_vars(ProcessTick) /\ WF_vars(PingTick) /\ WF_vars(ConnectTick)
    /\ WF_vars(HeartbeatTick) /\ WF_vars(HandleIntent) /\ WF_vars(PongArrives)
    /\ WF_vars(ReadLoopError) /\ WF_vars(WatchdogStarts) /\ WF_vars(AgentExits)
    /\ WF_vars(VerificationAges) /\ WF_vars(StandbyPasses)

-----------------------------------------------------------------------------
\* The variables have the types the code gives them, and the restart history
\* in memory and in its file never exceeds restartHistoryCap.
TypeOK ==
    /\ agent \in {"up", "hung", "stopping", "down"}
    /\ beat \in {"none", "zero", "fresh", "stale"}
    /\ wd \in {"up", "down"} /\ state \in States
    /\ pending \in {"none", "grace", "watch", "late"} /\ verified \in BOOLEAN
    /\ attempts \in Nat /\ windowOver \in BOOLEAN /\ standbyOver \in BOOLEAN
    /\ failover \in BOOLEAN /\ hasToken \in BOOLEAN
    /\ connected \in BOOLEAN /\ live \in BOOLEAN /\ pong \in BOOLEAN
    /\ fails \in 0..IpcFailThreshold
    /\ inbox \in 0..InboxSize
    /\ n \in Nat /\ old \in 0..n /\ auto \subseteq 1..n
    /\ mem \subseteq 1..n /\ disk \subseteq 1..n
    /\ Cardinality(mem) <= HistoryCap /\ Cardinality(disk) <= HistoryCap
    /\ unsaved \in BOOLEAN /\ lost \in BOOLEAN /\ beatSince \in BOOLEAN /\ deaths \in Nat

\* The flap-detection budget holds across crashes and restarts of the
\* watchdog and whatever the server commands: in any 24 hours the recovery
\* loop restarts the agent at most MaxRestartsPer24h times, unless the
\* history file could not be written before the watchdog went down, or could
\* not be read when it came back: then it counts from what it has.
RestartBudget ==
    ~lost => Cardinality(Recent(auto)) <= MaxRestartsPer24h

HistoryOK ==
    /\ n \in Nat /\ old \in 0..n
    /\ mem \subseteq 1..n /\ disk \subseteq 1..n /\ auto \subseteq 1..n
    /\ wd \in {"up", "down"}

\* The history the next decision will be based on.
Kept == IF wd = "up" THEN mem ELSE disk

\* Why the budget holds: as long as no history was lost, the file is the history
\* in memory, and a recent automatic restart is in it or was pushed out by
\* HistoryCap restarts that are all more recent.
BudgetInv ==
    /\ HistoryOK
    /\ wd = "up" /\ ~unsaved /\ ~lost => disk = mem
    /\ ~lost => \A a \in auto :
          a > old => \/ a \in Kept
                     \/ /\ Cardinality(Recent(Kept)) >= HistoryCap
                        /\ \A m \in Kept : m > a
    /\ RestartBudget

\* Leaving RECOVERING without a new IPC connection takes a heartbeat that the
\* agent sent after the last automatic restart: a service manager that
\* reports success, or a heartbeat from before, is not enough.
VerifiedByHeartbeat ==
    [][(state = "RECOVERING" /\ state' = "MONITORING" /\ wd = "up" /\ ~(connected' /\ ~connected))
         => beatSince]_vars

\* A dead agent does not go unnoticed: it is started again, or the watchdog
\* hands the device to the server in FAILOVER, through missed intents and
\* timeouts.
DeadAgentHandled ==
    (agent = "down") ~> (agent # "down" \/ state = "FAILOVER")

\* An agent that runs while the watchdog has no connection brings it back to
\* MONITORING from RECOVERING and FAILOVER, unless one of the two goes down.
ReconnectRecovers ==
    (wd = "up" /\ state \in {"CONNECTING", "RECOVERING", "FAILOVER"} /\ ~connected /\ agent = "up")
        ~> (state = "MONITORING" \/ agent # "up" \/ wd = "down")

\* features/watchdog.mdx: in STANDBY the watchdog is "waiting for it to come
\* back", and "STANDBY - agent recovered -> MONITORING": an agent that came
\* back while the watchdog stands by, and stays, is monitored again.
StandbyEndsInMonitoring ==
    (wd = "up" /\ state = "STANDBY" /\ agent = "up")
        ~> (state = "MONITORING" \/ agent # "up" \/ wd = "down")
=============================================================================
