---------------------------- MODULE CommandQueue ----------------------------
(***************************************************************************)
(* The life of the rows of device_commands for one device: how a caller    *)
(* of the API inserts a command, how exactly one of the dispatcher, the    *)
(* WebSocket welcome and the two polling consumers claims it, how the      *)
(* agent (or the watchdog) runs it, and how the row is closed by a result, *)
(* by the caller's timeout, by a cancellation or by the stale-command      *)
(* reaper.  Sources: apps/api services/commandQueue.ts,                    *)
(* services/commandDispatch.ts, routes/agentWs.ts,                         *)
(* routes/agents/commands.ts, jobs/staleCommandReaper.ts and the agent's   *)
(* internal/heartbeat/heartbeat.go.                                        *)
(*                                                                         *)
(* A row inserted inside the caller's Postgres transaction is seen by its  *)
(* owner only until the transaction commits: visible says whether the      *)
(* others see it.  All the updates of the row are single guarded UPDATE    *)
(* statements, so each of them is one step.                                *)
(***************************************************************************)
EXTENDS Naturals, FiniteSets

CONSTANTS
    Commands,             \* the commands callers may issue
    Kinds,                \* the ways of issuing them that a run considers
    SEND_RETRY_ATTEMPTS,  \* sends executeCommand tries before it gives up
    ClaimLimit,           \* rows one poll claims at most (10 in the code)
    MaxCrashes            \* bound on crashes of the API process

(***************************************************************************)
(* The ways of issuing a command.                                          *)
(*   execute      executeCommand, committed insert, sent over WebSocket    *)
(*   interactive  the same, for a type of INTERACTIVE_COMMAND_TYPES        *)
(*   poll         executeCommand with preferHeartbeat                      *)
(*   watchdog     executeCommand with targetRole = watchdog                *)
(*   queue        queueCommandForExecution, inside the caller's            *)
(*                transaction (the scripts service does the same)          *)
(*   backupStop   queueBackupStopCommand: queue, or delete if not sent     *)
(*   queueOnly    queueCommand alone, inside the caller's transaction      *)
(***************************************************************************)
AllKinds == {"execute", "interactive", "poll", "watchdog",
             "queue", "backupStop", "queueOnly"}

ASSUME ConstantsAssumption ==
    /\ Kinds \subseteq AllKinds
    /\ SEND_RETRY_ATTEMPTS \in Nat \ {0}
    /\ ClaimLimit \in Nat \ {0}
    /\ MaxCrashes \in Nat

InTransaction == {"queue", "backupStop", "queueOnly"}
dispatchViaWs == {"execute", "interactive", "queue", "backupStop"}
Waits         == {"execute", "interactive", "poll", "watchdog"}

targetRole(k) == IF k = "watchdog" THEN "watchdog" ELSE "agent"

\* The sends a dispatcher tries: only executeCommand retries.
Attempts(k) == IF k \in Waits THEN SEND_RETRY_ATTEMPTS ELSE 1

\* ACCEPTED_COMMAND_RESULT_STATUSES; every closing UPDATE has this guard.
Open     == {"pending", "sent"}
Terminal == {"completed", "failed", "cancelled"}

VARIABLES
    kind,        \* how the command was issued ("none": not issued yet)
    status,      \* device_commands.status as its owner sees it ("none": no row)
    visible,     \* the row is committed
    executedAt,  \* the claim the row carries: "null", "dispatcher" or "poll"
    disp,        \* where the issuing request stands
    attempts,    \* sends that failed so far
    outcome,     \* what executeCommand returned to its caller
    connected,   \* activeConnections has an entry for the agent
    toAgent,     \* deliveries on their way to the device
    seen,        \* the agent's seenCommands
    running,     \* deliveries the device is executing
    results,     \* results on their way to the API
    reaperSeen,  \* the row's status in the reaper's SELECT ("none": not selected)
    crashes,     \* crashes of the API process so far
    handed,      \* history: times the command was handed to a channel
    executed     \* history: times a handler ran the command

rowVars    == <<kind, status, visible, executedAt>>
callerVars == <<disp, attempts, outcome>>
agentVars  == <<toAgent, seen, running, results, executed>>
vars == <<rowVars, callerVars, connected, agentVars, reaperSeen, crashes, handed>>

Vias       == {"ws", "welcome", "heartbeat", "watchdog"}
Deliveries == [cmd : Commands, via : Vias]
Results    == [cmd : Commands, chan : {"ws", "rest"},
               role : {"agent", "watchdog"}, status : {"completed", "failed"}]

Init ==
    /\ kind       = [c \in Commands |-> "none"]
    /\ status     = [c \in Commands |-> "none"]
    /\ visible    = [c \in Commands |-> FALSE]
    /\ executedAt = [c \in Commands |-> "null"]
    /\ disp       = [c \in Commands |-> "idle"]
    /\ attempts   = [c \in Commands |-> 0]
    /\ outcome    = [c \in Commands |-> "none"]
    /\ connected  = FALSE
    /\ toAgent    = {}
    /\ seen       = {}
    /\ running    = {}
    /\ results    = {}
    /\ reaperSeen = [c \in Commands |-> "none"]
    /\ crashes    = 0
    /\ handed     = [c \in Commands |-> 0]
    /\ executed   = [c \in Commands |-> 0]

-----------------------------------------------------------------------------
(***************************************************************************)
(* The caller's request.                                                   *)
(***************************************************************************)

\* Where a request goes on once its row has been offered to the WebSocket:
\* executeCommand polls for the result, the others end their transaction.
AfterDispatch(k) == IF k \in Waits THEN "waiting" ELSE "committing"

\* An interactive command fails fast, without a row, when the agent has no
\* connection.
FastFail(c) ==
    /\ disp[c] = "idle"
    /\ "interactive" \in Kinds
    /\ ~connected
    /\ kind'    = [kind EXCEPT ![c] = "interactive"]
    /\ disp'    = [disp EXCEPT ![c] = "done"]
    /\ outcome' = [outcome EXCEPT ![c] = "unreachable"]
    /\ UNCHANGED <<status, visible, executedAt, attempts, connected, agentVars,
                   reaperSeen, crashes, handed>>

\* Mutant of Insert: executeCommand inserts inside the caller's transaction too.
InsertInTransaction(c, k) ==
    /\ disp[c] = "idle"
    /\ k = "interactive" => connected
    /\ kind'   = [kind EXCEPT ![c] = k]
    /\ status' = [status EXCEPT ![c] = "pending"]
    /\ disp'   = [disp EXCEPT ![c] = IF k \in dispatchViaWs THEN "inserted"
                                                            ELSE AfterDispatch(k)]
    /\ UNCHANGED <<visible, executedAt, attempts, outcome, connected, agentVars,
                   reaperSeen, crashes, handed>>

\* INSERT with status pending: committed at once by executeCommand, part of
\* the open transaction otherwise.
Insert(c, k) ==
    /\ disp[c] = "idle"
    /\ k = "interactive" => connected
    /\ kind'    = [kind EXCEPT ![c] = k]
    /\ status'  = [status EXCEPT ![c] = "pending"]
    /\ visible' = [visible EXCEPT ![c] = k \notin InTransaction]
    /\ disp'    = [disp EXCEPT ![c] = IF k \in dispatchViaWs THEN "inserted"
                                                             ELSE AfterDispatch(k)]
    /\ UNCHANGED <<executedAt, attempts, outcome, connected, agentVars,
                   reaperSeen, crashes, handed>>

\* claimPendingCommandForDelivery: a conditional UPDATE that fails when a
\* poll has claimed the committed row first.
Claim(c) ==
    /\ disp[c] = "inserted"
    /\ IF status[c] = "pending"
         THEN /\ status'     = [status EXCEPT ![c] = "sent"]
              /\ executedAt' = [executedAt EXCEPT ![c] = "dispatcher"]
              /\ disp'       = [disp EXCEPT ![c] = "sending"]
         ELSE /\ disp' = [disp EXCEPT ![c] = AfterDispatch(kind[c])]
              /\ UNCHANGED <<status, executedAt>>
    /\ UNCHANGED <<kind, visible, attempts, outcome, connected, agentVars,
                   reaperSeen, crashes, handed>>

\* sendCommandToAgent with a live entry in activeConnections.
SendOk(c) ==
    /\ disp[c] = "sending"
    /\ connected
    /\ toAgent' = toAgent \cup {[cmd |-> c, via |-> "ws"]}
    /\ handed'  = [handed EXCEPT ![c] = @ + 1]
    /\ disp'    = [disp EXCEPT ![c] = AfterDispatch(kind[c])]
    /\ UNCHANGED <<rowVars, attempts, outcome, connected, seen, running, results,
                   executed, reaperSeen, crashes>>

\* Mutant of SendFails: the attempts are not counted.
SendFailsUncounted(c) ==
    /\ disp[c] = "sending"
    /\ connected' = FALSE
    /\ UNCHANGED <<rowVars, callerVars, agentVars, reaperSeen, crashes, handed>>

\* sendCommandToAgent returns false: no connection, or send threw and the
\* entry is removed.  The last failure leads to the release of the claim.
SendFails(c) ==
    /\ disp[c] = "sending"
    /\ connected' = FALSE
    /\ attempts'  = [attempts EXCEPT ![c] = @ + 1]
    /\ disp'      = [disp EXCEPT ![c] = IF attempts[c] + 1 >= Attempts(kind[c])
                                          THEN "releasing" ELSE "sending"]
    /\ UNCHANGED <<rowVars, outcome, agentVars, reaperSeen, crashes, handed>>

\* The row is still the one this dispatcher claimed.
OwnClaim(c) == status[c] = "sent" /\ executedAt[c] = "dispatcher"

\* releaseClaimedCommandDelivery, and what its caller does next: a backup
\* stop deletes its row, an interactive command reports the device
\* unreachable and leaves its row pending.
Release(c) ==
    /\ disp[c] = "releasing"
    /\ status' = [status EXCEPT ![c] =
                    IF ~OwnClaim(c) THEN @
                    ELSE IF kind[c] = "backupStop" THEN "none" ELSE "pending"]
    /\ executedAt' = [executedAt EXCEPT ![c] = IF OwnClaim(c) THEN "null" ELSE @]
    /\ disp' = [disp EXCEPT ![c] =
                  CASE kind[c] = "interactive" -> "done"
                    [] kind[c] = "backupStop"  -> "done"
                    [] OTHER -> AfterDispatch(kind[c])]
    /\ outcome' = [outcome EXCEPT ![c] =
                     IF kind[c] = "interactive" THEN "unreachable" ELSE @]
    /\ UNCHANGED <<kind, visible, attempts, connected, agentVars, reaperSeen,
                   crashes, handed>>

\* The caller's transaction commits, after everything the request did.
CommitTx(c) ==
    /\ disp[c] = "committing"
    /\ visible' = [visible EXCEPT ![c] = TRUE]
    /\ disp'    = [disp EXCEPT ![c] = "done"]
    /\ UNCHANGED <<kind, status, executedAt, attempts, outcome, connected,
                   agentVars, reaperSeen, crashes, handed>>

\* A later step of the same request throws: the row is gone, a command that
\* was sent is not.
RollbackTx(c) ==
    /\ disp[c] = "committing"
    /\ status'     = [status EXCEPT ![c] = "none"]
    /\ executedAt' = [executedAt EXCEPT ![c] = "null"]
    /\ disp'       = [disp EXCEPT ![c] = "done"]
    /\ UNCHANGED <<kind, visible, attempts, outcome, connected, agentVars,
                   reaperSeen, crashes, handed>>

\* waitForCommandResult, a poll that finds the row closed.  A cancelled row is
\* not one of the statuses the loop looks for.
WaitReturns(c) ==
    /\ disp[c] = "waiting"
    /\ status[c] \in {"completed", "failed"}
    /\ outcome' = [outcome EXCEPT ![c] = status[c]]
    /\ disp'    = [disp EXCEPT ![c] = "done"]
    /\ UNCHANGED <<rowVars, attempts, connected, agentVars, reaperSeen, crashes,
                   handed>>

\* The deadline of waitForCommandResult passes: close the row if it is open.
WaitTimesOut(c) ==
    /\ disp[c] = "waiting"
    /\ status' = [status EXCEPT ![c] = IF @ \in Open THEN "failed" ELSE @]
    /\ disp'   = [disp EXCEPT ![c] = "rereading"]
    /\ UNCHANGED <<kind, visible, executedAt, attempts, outcome, connected,
                   agentVars, reaperSeen, crashes, handed>>

\* ... and return whatever the row holds now.
WaitRereads(c) ==
    /\ disp[c] = "rereading"
    /\ outcome' = [outcome EXCEPT ![c] = status[c]]
    /\ disp'    = [disp EXCEPT ![c] = "done"]
    /\ UNCHANGED <<rowVars, attempts, connected, agentVars, reaperSeen, crashes,
                   handed>>

-----------------------------------------------------------------------------
(***************************************************************************)
(* The other claimants.                                                    *)
(***************************************************************************)

\* Mutants of Claimable: without the condition on the status, and without the
\* condition on the role.
ClaimableAnyOpen(role) == {c \in Commands : /\ visible[c]
                                            /\ status[c] \in Open
                                            /\ targetRole(kind[c]) = role}
ClaimableAnyRole(role) == {c \in Commands : visible[c] /\ status[c] = "pending"}

\* What claimPendingCommandsForDevice may return: at most ClaimLimit of the
\* committed pending rows of a role.  FOR UPDATE SKIP LOCKED may leave out any
\* row another transaction holds.
Claimable(role) == {c \in Commands : /\ visible[c]
                                     /\ status[c] = "pending"
                                     /\ targetRole(kind[c]) = role}

claimPendingCommandsForDevice(role, S, via) ==
    /\ S \subseteq Claimable(role)
    /\ Cardinality(S) <= ClaimLimit
    /\ status'     = [c \in Commands |-> IF c \in S THEN "sent" ELSE status[c]]
    /\ executedAt' = [c \in Commands |-> IF c \in S THEN "poll" ELSE executedAt[c]]
    /\ handed'     = [c \in Commands |-> IF c \in S THEN handed[c] + 1 ELSE handed[c]]
    /\ toAgent'    = toAgent \cup [cmd : S, via : {via}]

\* onOpen: store the connection, claim, send the welcome message.
AgentConnects(S) ==
    /\ connected' = TRUE
    /\ claimPendingCommandsForDevice("agent", S, "welcome")
    /\ UNCHANGED <<kind, visible, callerVars, seen, running, results, executed,
                   reaperSeen, crashes>>

\* onClose or onError of the current connection.
AgentDisconnects ==
    /\ connected
    /\ connected' = FALSE
    /\ UNCHANGED <<rowVars, callerVars, agentVars, reaperSeen, crashes, handed>>

\* A heartbeat (or GET /commands) of the agent or of the watchdog.
Polls(role, S) ==
    /\ S # {}
    /\ claimPendingCommandsForDevice(role, S, IF role = "watchdog" THEN "watchdog"
                                                                   ELSE "heartbeat")
    /\ UNCHANGED <<kind, visible, callerVars, connected, seen, running, results,
                   executed, reaperSeen, crashes>>

-----------------------------------------------------------------------------
(***************************************************************************)
(* The device.                                                             *)
(***************************************************************************)

\* A frame or a heartbeat response is lost; a welcome message is read by
\* handleConnectedMessage, which ignores its pendingCommands.
DeliveryIsLost(m) ==
    /\ m \in toAgent
    /\ toAgent' = toAgent \ {m}
    /\ UNCHANGED <<rowVars, callerVars, connected, seen, running, results, executed,
                   reaperSeen, crashes, handed>>

\* executeCommand of the agent: the first sight of the id runs the handler,
\* another one is a duplicate and yields nothing.  The watchdog has no such
\* table.
executeOnDevice(m) ==
    /\ m \in toAgent
    /\ m.via # "welcome"
    /\ toAgent' = toAgent \ {m}
    /\ IF m.via # "watchdog" /\ m.cmd \in seen
         THEN UNCHANGED <<seen, running, executed>>
         ELSE /\ seen'     = IF m.via = "watchdog" THEN seen ELSE seen \cup {m.cmd}
              /\ running'  = running \cup {m}
              /\ executed' = [executed EXCEPT ![m.cmd] = @ + 1]
    /\ UNCHANGED <<rowVars, callerVars, connected, results, reaperSeen, crashes,
                   handed>>

\* The results a delivery produces: a command that came over WebSocket answers
\* on the socket and, in a goroutine, by REST; the others by REST only.
ResultsOf(m, s, chans) ==
    [cmd : {m.cmd}, chan : IF m.via = "ws" THEN chans ELSE {"rest"},
     role : {IF m.via = "watchdog" THEN "watchdog" ELSE "agent"}, status : {s}]

\* A WebSocket command is refused: the agent is shutting down (answer on the
\* socket only) or its worker pool is full (answer on both channels).  A
\* command refused in a heartbeat is dropped, which is DeliveryIsLost.
AgentRefuses(m, chans) ==
    /\ m \in toAgent
    /\ m.via = "ws"
    /\ toAgent' = toAgent \ {m}
    /\ results' = results \cup ResultsOf(m, "failed", chans)
    /\ UNCHANGED <<rowVars, callerVars, connected, seen, running, executed,
                   reaperSeen, crashes, handed>>

\* The handler returns, or a shutdown answers for it.
DeviceFinishes(m, s) ==
    /\ m \in running
    /\ running' = running \ {m}
    /\ results' = results \cup ResultsOf(m, s, {"ws", "rest"})
    /\ UNCHANGED <<rowVars, callerVars, connected, toAgent, seen, executed,
                   reaperSeen, crashes, handed>>

\* markCommandSeen of some later command drops an entry that is two minutes old:
\* the table has more than fifty entries, those of other commands.
EvictSeen(c) ==
    /\ c \in seen
    /\ seen' = seen \ {c}
    /\ UNCHANGED <<rowVars, callerVars, connected, toAgent, running, results, executed,
                   reaperSeen, crashes, handed>>

\* The agent and the watchdog lose what they hold in memory.
DeviceRestarts ==
    /\ seen'    = {}
    /\ running' = {}
    /\ UNCHANGED <<rowVars, callerVars, connected, toAgent, results, executed,
                   reaperSeen, crashes, handed>>

-----------------------------------------------------------------------------
(***************************************************************************)
(* Closing the row.                                                        *)
(***************************************************************************)

\* A result is lost on its way, or the retries of a POST are exhausted.
ResultIsLost(r) ==
    /\ r \in results
    /\ results' = results \ {r}
    /\ UNCHANGED <<rowVars, callerVars, connected, toAgent, seen, running, executed,
                   reaperSeen, crashes, handed>>

\* Mutant of Accepts: the UPDATE has lost its condition on the status.
AcceptsClosed(r) == visible[r.cmd] /\ r.role = targetRole(kind[r.cmd])

\* The SELECT of processCommandResult and of the POST handler finds the row and
\* the guarded UPDATE applies.  Between the two only another closing UPDATE can
\* intervene, and then the second guard fails as the first one would.
Accepts(r) ==
    /\ visible[r.cmd]
    /\ status[r.cmd] \in Open
    /\ r.role = targetRole(kind[r.cmd])

\* processCommandResult (WebSocket) and POST /commands/:commandId/result.  A
\* critical result that does not parse is stored as failed; a result without a
\* row or for a closed row is dropped.  A POST whose response is lost is
\* retried, so it may stay in flight.
ProcessResult(r, malformed, again) ==
    /\ r \in results
    /\ again => r.chan = "rest"
    /\ results' = IF again THEN results ELSE results \ {r}
    /\ status'  = [status EXCEPT ![r.cmd] =
                     IF ~Accepts(r) THEN @
                     ELSE IF malformed THEN "failed" ELSE r.status]
    /\ UNCHANGED <<kind, visible, executedAt, callerVars, connected, toAgent, seen,
                   running, executed, reaperSeen, crashes, handed>>

\* Mutant of CancelCommand: the UPDATE has lost its condition on the status.
CancelCommandAnyStatus(c) ==
    /\ visible[c]
    /\ kind[c] = "queue"
    /\ status' = [status EXCEPT ![c] = "cancelled"]
    /\ UNCHANGED <<kind, visible, executedAt, callerVars, connected, agentVars,
                   reaperSeen, crashes, handed>>

\* The cancel route of scripts: pending rows only.
CancelCommand(c) ==
    /\ visible[c]
    /\ kind[c] = "queue"
    /\ status[c] = "pending"
    /\ status' = [status EXCEPT ![c] = "cancelled"]
    /\ UNCHANGED <<kind, visible, executedAt, callerVars, connected, agentVars,
                   reaperSeen, crashes, handed>>

\* Mutant of ReaperSelects: only rows that were sent are selected.
ReaperSelectsSent(c) ==
    /\ visible[c]
    /\ status[c] = "sent"
    /\ disp[c] \notin {"inserted", "sending", "releasing"}
    /\ reaperSeen[c] = "none"
    /\ reaperSeen' = [reaperSeen EXCEPT ![c] = status[c]]
    /\ UNCHANGED <<rowVars, callerVars, connected, agentVars, crashes, handed>>

\* reapStaleDeviceCommands: the SELECT.  A row is selected once it is older than
\* its timeout (five minutes at least), when its dispatcher is long done.
ReaperSelects(c) ==
    /\ visible[c]
    /\ status[c] \in Open
    /\ disp[c] \notin {"inserted", "sending", "releasing"}
    /\ reaperSeen[c] = "none"
    /\ reaperSeen' = [reaperSeen EXCEPT ![c] = status[c]]
    /\ UNCHANGED <<rowVars, callerVars, connected, agentVars, crashes, handed>>

\* Mutant of ReaperUpdates: the UPDATE trusts the status the SELECT saw.
ReaperUpdatesUnguarded(c) ==
    /\ reaperSeen[c] # "none"
    /\ status' = [status EXCEPT ![c] = "failed"]
    /\ reaperSeen' = [reaperSeen EXCEPT ![c] = "none"]
    /\ UNCHANGED <<kind, visible, executedAt, callerVars, connected, agentVars,
                   crashes, handed>>

\* ... and, later in the loop over the selected rows, the guarded UPDATE.
ReaperUpdates(c) ==
    /\ reaperSeen[c] # "none"
    /\ status' = [status EXCEPT ![c] = IF @ \in Open THEN "failed" ELSE @]
    /\ reaperSeen' = [reaperSeen EXCEPT ![c] = "none"]
    /\ UNCHANGED <<kind, visible, executedAt, callerVars, connected, agentVars,
                   crashes, handed>>

\* The API process dies: open transactions roll back, requests and the
\* connection table are gone, the reaper starts over.
ApiCrashes ==
    /\ crashes < MaxCrashes
    /\ crashes' = crashes + 1
    /\ connected' = FALSE
    /\ status' = [c \in Commands |-> IF visible[c] THEN status[c] ELSE "none"]
    /\ executedAt' = [c \in Commands |-> IF visible[c] THEN executedAt[c] ELSE "null"]
    /\ disp' = [c \in Commands |-> IF disp[c] = "idle" THEN "idle" ELSE "done"]
    /\ reaperSeen' = [c \in Commands |-> "none"]
    /\ UNCHANGED <<kind, visible, attempts, outcome, agentVars, handed>>

-----------------------------------------------------------------------------
Caller(c) ==
    \/ FastFail(c)
    \/ \E k \in Kinds : Insert(c, k)
    \/ Claim(c)
    \/ SendOk(c)
    \/ SendFails(c)
    \/ Release(c)
    \/ CommitTx(c)
    \/ RollbackTx(c)
    \/ WaitReturns(c)
    \/ WaitTimesOut(c)
    \/ WaitRereads(c)

Claimants ==
    \/ \E S \in SUBSET Commands : AgentConnects(S)
    \/ AgentDisconnects
    \/ \E role \in {"agent", "watchdog"}, S \in SUBSET Commands : Polls(role, S)

Device ==
    \/ \E m \in toAgent : DeliveryIsLost(m)
    \/ \E m \in toAgent : executeOnDevice(m)
    \/ \E m \in toAgent, chans \in {{"ws"}, {"ws", "rest"}} : AgentRefuses(m, chans)
    \/ \E m \in running, s \in {"completed", "failed"} : DeviceFinishes(m, s)
    \/ \E c \in Commands : EvictSeen(c)
    \/ DeviceRestarts

Closing ==
    \/ \E r \in results : ResultIsLost(r)
    \/ \E r \in results, malformed, again \in BOOLEAN : ProcessResult(r, malformed, again)
    \/ \E c \in Commands : CancelCommand(c) \/ ReaperSelects(c) \/ ReaperUpdates(c)

Next == (\E c \in Commands : Caller(c)) \/ Claimants \/ Device \/ Closing \/ ApiCrashes

Spec == Init /\ [][Next]_vars

(***************************************************************************)
(* Fairness.  Requests are promises driven by Node's event loop and timers *)
(* (retry delay, poll interval, deadline), so a request that can move does *)
(* move; the reaper is a repeatable BullMQ job that runs every two minutes.*)
(* Nothing is assumed of the device, of the network or of its connection.  *)
(***************************************************************************)
RequestStep(c) ==
    \/ Claim(c) \/ SendOk(c) \/ SendFails(c) \/ Release(c)
    \/ CommitTx(c) \/ RollbackTx(c)
    \/ WaitReturns(c) \/ WaitTimesOut(c) \/ WaitRereads(c)

Fairness == \A c \in Commands : /\ WF_vars(RequestStep(c))
                                /\ WF_vars(ReaperSelects(c))
                                /\ WF_vars(ReaperUpdates(c))

FairSpec == Spec /\ Fairness

-----------------------------------------------------------------------------
(***************************************************************************)
(* Properties.                                                             *)
(***************************************************************************)

\* Every variable has its type.
TypeOK ==
    /\ kind \in [Commands -> AllKinds \cup {"none"}]
    /\ status \in [Commands -> Open \cup Terminal \cup {"none"}]
    /\ visible \in [Commands -> BOOLEAN]
    /\ executedAt \in [Commands -> {"null", "dispatcher", "poll"}]
    /\ disp \in [Commands -> {"idle", "inserted", "sending", "releasing",
                              "committing", "waiting", "rereading", "done"}]
    /\ attempts \in [Commands -> Nat]
    /\ outcome \in [Commands -> Open \cup Terminal \cup {"none", "unreachable"}]
    /\ connected \in BOOLEAN
    /\ toAgent \subseteq Deliveries
    /\ seen \subseteq Commands
    /\ running \subseteq Deliveries
    /\ results \subseteq Results
    /\ reaperSeen \in [Commands -> Open \cup {"none"}]
    /\ crashes \in 0..MaxCrashes
    /\ handed \in [Commands -> Nat]
    /\ executed \in [Commands -> Nat]

\* The device runs a command at most once.  No claim, release, reconnect,
\* lost response, restart of the agent (which empties seenCommands), eviction from
\* that table or crash of the API makes two channels deliver the same command.
ExecutedAtMostOnce == \A c \in Commands : executed[c] <= 1

\* A row that says completed belongs to a command a handler ran, on the process
\* the command was addressed to: no late, repeated or misdirected result
\* completes another command.
CompletedWasExecuted ==
    \A c \in Commands : status[c] = "completed" => executed[c] > 0

\* What executeCommand returned is how the row was closed, now and for ever
\* after: a result that races the caller's timeout is either what the caller saw
\* or is dropped.  One answer is exempt, the failure with
\* DEVICE_UNREACHABLE_ERROR that an interactive command gets when no send
\* succeeds: its row is released to the polls, and the command may run and
\* complete after its caller was told that it failed.
CallerAgreesWithRow ==
    \A c \in Commands : outcome[c] # "none" =>
        \/ outcome[c] \in Terminal /\ status[c] = outcome[c]
        \/ outcome[c] = "unreachable" /\ kind[c] = "interactive"

\* When executeCommand is used, every result finds the committed row of its
\* command: the reason for inserting outside the caller's transaction.
ExecuteResultsFindRow ==
    \A r \in results : kind[r.cmd] \in Waits => visible[r.cmd]

\* The watchdog never runs a command of the agent nor the agent one of the
\* watchdog: the role filter of the claim holds on every path to a process.
RunsOnItsTarget ==
    \A m \in running : (m.via = "watchdog") <=> (targetRole(kind[m.cmd]) = "watchdog")

KeepsTerminal ==
    \A c \in Commands :
        visible[c] /\ status[c] \in Terminal => status'[c] = status[c] /\ visible'[c]

\* A closed row is never reopened, rewritten or deleted, whichever of the six
\* writers comes late.
TerminalIsStable == [][KeepsTerminal]_vars

\* What the ledger shows of a command: a row is in it once it is committed.
Entry(c) == IF ~visible[c] THEN "absent"
            ELSE IF status[c] \in Open THEN "open" ELSE status[c]

\* The abstract specification over the rows and the runs of this one.
Ledger == INSTANCE CommandLedger WITH
    entry <- [c \in Commands |-> Entry(c)],
    runs  <- executed

\* The queue implements the ledger.
ImplementsLedger == Ledger!Spec

\* Every committed command is closed in the end, whatever happens to the device,
\* the connection and the messages.
EveryCommandCloses ==
    \A c \in Commands : visible[c] ~> (status[c] \in Terminal)

\* Every request ends: no caller of executeCommand waits for ever.
EveryRequestEnds ==
    \A c \in Commands : (disp[c] # "idle") ~> (disp[c] = "done")

-----------------------------------------------------------------------------
(***************************************************************************)
(* The inductive invariant behind these properties.  The right to deliver  *)
(* a command is a token that is in exactly one place: with the pending     *)
(* row, with the dispatcher that claimed it, or, for good, with the one    *)
(* channel the command was handed to.                                      *)
(***************************************************************************)

\* A request that has not reached the end of its dispatch.
Dispatching == {"inserted", "sending", "releasing"}

\* The token of c: a pending row or a dispatcher about to send has handed
\* nothing over yet, the two exclude each other, and a run spends the token.
TokenInv(c) ==
    /\ handed[c] <= 1
    /\ executed[c] <= handed[c]
    /\ status[c] = "pending" => handed[c] = 0
    /\ disp[c] \in {"sending", "releasing"} => handed[c] = 0 /\ status[c] # "pending"
    /\ disp[c] = "idle" => handed[c] = 0

\* Who sees the row of c at each point of its request.
RowInv(c) ==
    /\ disp[c] = "idle" => kind[c] = "none" /\ status[c] = "none" /\ ~visible[c]
    /\ visible[c] => status[c] # "none"
    /\ reaperSeen[c] # "none" => visible[c]
    /\ disp[c] \in Dispatching \cup {"committing"} =>
          (visible[c] <=> kind[c] \in Waits)
    /\ disp[c] = "committing" => kind[c] \notin Waits /\ status[c] \in Open
    /\ disp[c] \in Dispatching => status[c] # "none"
    /\ disp[c] \in Dispatching /\ kind[c] \notin Waits => status[c] \in Open
    /\ disp[c] \in {"waiting", "rereading"} => visible[c]
    /\ disp[c] = "rereading" => status[c] \in Terminal
    /\ kind[c] \in Waits /\ handed[c] = 1 => visible[c]
    /\ outcome[c] # "none" =>
          \/ visible[c] /\ outcome[c] \in Terminal /\ status[c] = outcome[c]
          \/ outcome[c] = "unreachable" /\ kind[c] = "interactive"
    /\ status[c] = "completed" => executed[c] > 0

\* A command in a channel has its token spent and has not run, and it is in no
\* other channel; what runs has run, and what answers was handed over.
ChannelInv ==
    /\ \A m \in toAgent : handed[m.cmd] = 1 /\ executed[m.cmd] = 0
    /\ \A m, n \in toAgent : m.cmd = n.cmd => m = n
    /\ \A m \in running : executed[m.cmd] > 0
    /\ \A r \in results : /\ handed[r.cmd] = 1
                          /\ r.status = "completed" => executed[r.cmd] > 0

\* The single token, the visibility of the rows and the channels, together.
DeliveryInv == ChannelInv /\ \A c \in Commands : TokenInv(c) /\ RowInv(c)

\* What RunsOnItsTarget rests on: a command keeps to its process from the claim
\* on, and no dispatcher holds a command of the watchdog.
TargetInv ==
    /\ \A m \in toAgent \cup running :
          (m.via = "watchdog") <=> (targetRole(kind[m.cmd]) = "watchdog")
    /\ \A c \in Commands : disp[c] \in Dispatching => targetRole(kind[c]) = "agent"

\* "Break out of the request-scoped transaction so the follow-up command row is
\* committed before the agent can submit its result" (routes/agents/commands.ts
\* on its call of queueCommandForExecution): every result that is on its way
\* belongs to a committed row.
RowCommittedBeforeResult == \A r \in results : visible[r.cmd]
=============================================================================
