--------------------------- MODULE ScriptExecution ---------------------------
(***************************************************************************)
(* One request that runs a script on several devices                       *)
(* (services/scriptExecution.ts): an execution row and a command row per   *)
(* device, and the batch row that counts how the executions end.  The      *)
(* execution rows are closed by the WebSocket result handler               *)
(* (routes/agentWs.ts), the cancel route (routes/scripts.ts) and the       *)
(* reaper (jobs/staleCommandReaper.ts).                                    *)
(*                                                                         *)
(* How a command row is claimed, sent and answered is CommandQueue; here a *)
(* script reaches its device at most once.                                 *)
(***************************************************************************)
EXTENDS Naturals, FiniteSets

CONSTANT Devices    \* executableDevices of the request

ASSUME DevicesAssumption == IsFiniteSet(Devices)

VARIABLES
    request,    \* the transaction of the request: open, committed or rolled back
    draft,      \* the execution rows inside that transaction
    exec,       \* scriptExecutions.status, as committed
    command,    \* deviceCommands.status, as committed
    batch,      \* scriptExecutionBatches.status, as committed
    devicesCompleted,
    devicesFailed,
    script,     \* the script on the device: absent, running, or how it ended
    via,        \* how the command reached the device
    results,    \* result messages on their way to the API
    handling,   \* the result handleScriptResult is about to store
    cancel,     \* the cancel route has read an open execution
    counted     \* history: executions the counters of the batch stand for

rowVars == <<exec, command, batch, devicesCompleted, devicesFailed, counted>>
deviceVars == <<script, via, results>>
vars == <<request, draft, rowVars, deviceVars, handling, cancel>>

\* ['pending', 'queued', 'running']; no code stores 'queued' in an execution.
OpenExecution == {"pending", "running"}

\* ACCEPTED_COMMAND_RESULT_STATUSES, and what the reaper of commands closes.
OpenCommand == {"pending", "sent"}

Outcomes == {"completed", "failed", "timeout"}

Init ==
    /\ request = "open"
    /\ draft = [d \in Devices |-> "none"]
    /\ exec = [d \in Devices |-> "none"]
    /\ command = [d \in Devices |-> "none"]
    /\ batch = "none"
    /\ devicesCompleted = 0
    /\ devicesFailed = 0
    /\ script = [d \in Devices |-> "absent"]
    /\ via = [d \in Devices |-> "none"]
    /\ results = {}
    /\ handling = [d \in Devices |-> "none"]
    /\ cancel = {}
    /\ counted = {}

-----------------------------------------------------------------------------
\* The loop of executeScriptOnDevices for one device: both rows are inserted,
\* and the command is pushed if the agent is connected, else left pending.
ExecuteOnDevice(d, sent) ==
    /\ request = "open"
    /\ draft[d] = "none"
    /\ draft' = [draft EXCEPT ![d] = IF sent THEN "running" ELSE "pending"]
    /\ IF sent
       THEN /\ script' = [script EXCEPT ![d] = "running"]
            /\ via' = [via EXCEPT ![d] = "ws"]
       ELSE UNCHANGED <<script, via>>
    /\ UNCHANGED <<request, rowVars, results, handling, cancel>>

\* The batch is set to 'queued' and the request's transaction commits: the rows
\* of all devices appear at once.
CommitRequest ==
    /\ request = "open"
    /\ \A d \in Devices : draft[d] # "none"
    /\ request' = "committed"
    /\ exec' = draft
    /\ command' = [d \in Devices |-> IF draft[d] = "running" THEN "sent" ELSE "pending"]
    /\ batch' = IF Cardinality(Devices) > 1 THEN "queued" ELSE "none"
    /\ UNCHANGED <<draft, devicesCompleted, devicesFailed, counted, deviceVars, handling,
                   cancel>>

\* A failed insert or a crash of the API undoes the rows; scripts that were
\* pushed run all the same.
RollbackRequest ==
    /\ request = "open"
    /\ request' = "rolledBack"
    /\ UNCHANGED <<draft, rowVars, deviceVars, handling, cancel>>

\* A heartbeat claims the pending command and delivers it in its response.
HeartbeatClaims(d) ==
    /\ command[d] = "pending"
    /\ command' = [command EXCEPT ![d] = "sent"]
    /\ script' = [script EXCEPT ![d] = "running"]
    /\ via' = [via EXCEPT ![d] = "heartbeat"]
    /\ UNCHANGED <<request, draft, exec, batch, devicesCompleted, devicesFailed, counted,
                   results, handling, cancel>>

-----------------------------------------------------------------------------
\* handleScript returns (or the agent answers 'failed' for it because it shuts
\* down).  A pushed command is answered on the socket and by REST, a command
\* from a heartbeat by REST alone.
ScriptEnds(d, o) ==
    /\ script[d] = "running"
    /\ script' = [script EXCEPT ![d] = o]
    /\ results' = results \cup [dev : {d}, chan : IF via[d] = "ws" THEN {"ws", "rest"} ELSE {"rest"}]
    /\ UNCHANGED <<request, draft, rowVars, via, handling, cancel>>

\* The connection drops or the retries of the POST run out.
ResultIsLost(r) ==
    /\ r \in results
    /\ results' = results \ {r}
    /\ UNCHANGED <<request, draft, rowVars, script, via, handling, cancel>>

\* The guarded UPDATE of the command row by a result, outside any transaction.
StoresResult(r) ==
    /\ r \in results
    /\ results' = results \ {r}
    /\ command[r.dev] \in OpenCommand
    /\ command' = [command EXCEPT ![r.dev] =
                     IF script[r.dev] = "completed" THEN "completed" ELSE "failed"]
    /\ UNCHANGED <<request, draft, exec, batch, devicesCompleted, devicesFailed, counted,
                   script, via, cancel>>

\* POST result: the command row is closed; nothing is done for a script.
RestResult(r) == r.chan = "rest" /\ StoresResult(r) /\ UNCHANGED handling

\* processCommandResult: the command row is closed, handleScriptResult follows.
WsResult(r) ==
    /\ r.chan = "ws"
    /\ StoresResult(r)
    /\ handling' = [handling EXCEPT ![r.dev] = script[r.dev]]

\* A result that finds no open command row is dropped, on either channel.
StaleResult(r) ==
    /\ r \in results
    /\ command[r.dev] \notin OpenCommand
    /\ results' = results \ {r}
    /\ UNCHANGED <<request, draft, rowVars, script, via, handling, cancel>>

\* One more device in the counters of the batch, in the transaction that closed
\* its execution.
Count(d, completed) ==
    IF batch = "none"
    THEN UNCHANGED <<devicesCompleted, devicesFailed, counted>>
    ELSE /\ devicesCompleted' = devicesCompleted + (IF completed THEN 1 ELSE 0)
         /\ devicesFailed' = devicesFailed + (IF completed THEN 0 ELSE 1)
         /\ counted' = counted \cup {d}

\* Mutant of HandleScriptResult: the UPDATE has lost its condition on the status.
HandleScriptResultAnyStatus(d) ==
    /\ handling[d] # "none"
    /\ handling' = [handling EXCEPT ![d] = "none"]
    /\ exec' = [exec EXCEPT ![d] = handling[d]]
    /\ Count(d, handling[d] = "completed")
    /\ UNCHANGED <<request, draft, command, batch, deviceVars, cancel>>

\* Mutant of HandleScriptResult: only a success is counted.
HandleScriptResultUncounted(d) ==
    /\ handling[d] # "none"
    /\ handling' = [handling EXCEPT ![d] = "none"]
    /\ IF exec[d] \in OpenExecution
       THEN /\ exec' = [exec EXCEPT ![d] = handling[d]]
            /\ IF handling[d] = "completed" THEN Count(d, TRUE)
               ELSE UNCHANGED <<devicesCompleted, devicesFailed, counted>>
       ELSE UNCHANGED <<exec, devicesCompleted, devicesFailed, counted>>
    /\ UNCHANGED <<request, draft, command, batch, deviceVars, cancel>>

\* Mutant of HandleScriptResult: every result that was stored is a success.
HandleScriptResultAsCompleted(d) ==
    /\ handling[d] # "none"
    /\ handling' = [handling EXCEPT ![d] = "none"]
    /\ IF exec[d] \in OpenExecution
       THEN exec' = [exec EXCEPT ![d] = "completed"] /\ Count(d, TRUE)
       ELSE UNCHANGED <<exec, devicesCompleted, devicesFailed, counted>>
    /\ UNCHANGED <<request, draft, command, batch, deviceVars, cancel>>

\* handleScriptResult: an open execution gets the result and is counted.
HandleScriptResult(d) ==
    /\ handling[d] # "none"
    /\ handling' = [handling EXCEPT ![d] = "none"]
    /\ IF exec[d] \in OpenExecution
       THEN exec' = [exec EXCEPT ![d] = handling[d]] /\ Count(d, handling[d] = "completed")
       ELSE UNCHANGED <<exec, devicesCompleted, devicesFailed, counted>>
    /\ UNCHANGED <<request, draft, command, batch, deviceVars, cancel>>

-----------------------------------------------------------------------------
\* The cancel route: its SELECT and its check of the status.
CancelReads(d) ==
    /\ exec[d] \in OpenExecution
    /\ cancel' = cancel \cup {d}
    /\ UNCHANGED <<request, draft, rowVars, deviceVars, handling>>

\* Mutant of CancelWrites: the command is cancelled whatever became of it.
CancelWritesAnyCommand(d) ==
    /\ d \in cancel
    /\ cancel' = cancel \ {d}
    /\ exec' = [exec EXCEPT ![d] = "cancelled"]
    /\ command' = [command EXCEPT ![d] = "cancelled"]
    /\ UNCHANGED <<request, draft, batch, devicesCompleted, devicesFailed, counted,
                   deviceVars, handling>>

\* The cancel route: its UPDATE by execution id alone, and the UPDATE of the
\* pending command, in the transaction of the request.
CancelWrites(d) ==
    /\ d \in cancel
    /\ cancel' = cancel \ {d}
    /\ exec' = [exec EXCEPT ![d] = "cancelled"]
    /\ command' = [command EXCEPT ![d] = IF @ = "pending" THEN "cancelled" ELSE @]
    /\ UNCHANGED <<request, draft, batch, devicesCompleted, devicesFailed, counted,
                   deviceVars, handling>>

\* Mutant of ReapExecution: running executions are left to the agent.
ReapExecutionPending(d) ==
    /\ exec[d] = "pending"
    /\ exec' = [exec EXCEPT ![d] = "timeout"]
    /\ Count(d, FALSE)
    /\ batch' = IF batch # "none" /\ devicesCompleted' + devicesFailed' >= Cardinality(Devices)
                THEN (IF devicesFailed' > 0 THEN "failed" ELSE "completed") ELSE batch
    /\ UNCHANGED <<request, draft, command, deviceVars, handling, cancel>>

\* Mutant of ReapExecution: the batch is closed one execution too early.
ReapExecutionOffByOne(d) ==
    /\ exec[d] \in OpenExecution
    /\ exec' = [exec EXCEPT ![d] = "timeout"]
    /\ Count(d, FALSE)
    /\ batch' = IF batch # "none" /\ devicesCompleted' + devicesFailed' + 1 >= Cardinality(Devices)
                THEN (IF devicesFailed' > 0 THEN "failed" ELSE "completed") ELSE batch
    /\ UNCHANGED <<request, draft, command, deviceVars, handling, cancel>>

\* reapStaleScriptExecutions for one execution that is ten minutes old: the
\* execution times out, is counted, and the batch ends when all are counted.
ReapExecution(d) ==
    /\ exec[d] \in OpenExecution
    /\ exec' = [exec EXCEPT ![d] = "timeout"]
    /\ Count(d, FALSE)
    /\ batch' = IF batch # "none" /\ devicesCompleted' + devicesFailed' >= Cardinality(Devices)
                THEN (IF devicesFailed' > 0 THEN "failed" ELSE "completed") ELSE batch
    /\ UNCHANGED <<request, draft, command, deviceVars, handling, cancel>>

\* reapStaleDeviceCommands closes the command row; a script has no source to
\* propagate the timeout to.
ReapCommand(d) ==
    /\ command[d] \in OpenCommand
    /\ command' = [command EXCEPT ![d] = "failed"]
    /\ UNCHANGED <<request, draft, exec, batch, devicesCompleted, devicesFailed, counted,
                   deviceVars, handling, cancel>>

\* The API process dies: what its handlers held in memory is gone.
ApiCrashes ==
    /\ request # "open"
    /\ handling' = [d \in Devices |-> "none"]
    /\ cancel' = {}
    /\ UNCHANGED <<request, draft, rowVars, deviceVars>>

-----------------------------------------------------------------------------
Dispatch == (\E d \in Devices, sent \in BOOLEAN : ExecuteOnDevice(d, sent))
            \/ CommitRequest \/ RollbackRequest

Result(r) == ResultIsLost(r) \/ RestResult(r) \/ WsResult(r) \/ StaleResult(r)

OnDevice(d) ==
    \/ HeartbeatClaims(d) \/ (\E o \in Outcomes : ScriptEnds(d, o))
    \/ HandleScriptResult(d) \/ CancelReads(d) \/ CancelWrites(d)
    \/ ReapExecution(d) \/ ReapCommand(d)

Next == Dispatch \/ (\E d \in Devices : OnDevice(d)) \/ (\E r \in results : Result(r))
        \/ ApiCrashes

Spec == Init /\ [][Next]_vars

(***************************************************************************)
(* Only the reaper is relied on, a repeatable job.  Scripts may run for    *)
(* ever, and results, devices and handlers may be lost.                    *)
(***************************************************************************)
FairSpec == Spec /\ \A d \in Devices : WF_vars(ReapExecution(d))

-----------------------------------------------------------------------------
\* Every variable has its type.
TypeOK ==
    /\ request \in {"open", "committed", "rolledBack"}
    /\ draft \in [Devices -> {"none"} \cup OpenExecution]
    /\ exec \in [Devices -> {"none", "cancelled"} \cup OpenExecution \cup Outcomes]
    /\ command \in [Devices -> {"none", "completed", "failed", "cancelled"} \cup OpenCommand]
    /\ batch \in {"none", "queued", "completed", "failed"}
    /\ devicesCompleted \in Nat
    /\ devicesFailed \in Nat
    /\ script \in [Devices -> {"absent", "running"} \cup Outcomes]
    /\ via \in [Devices -> {"none", "ws", "heartbeat"}]
    /\ results \subseteq [dev : Devices, chan : {"ws", "rest"}]
    /\ handling \in [Devices -> {"none"} \cup Outcomes]
    /\ cancel \subseteq Devices
    /\ counted \subseteq Devices

Over(d) == exec[d] \notin {"none"} \cup OpenExecution

\* The counters of the batch stand for different executions, all of them over:
\* no race of a result, a cancellation and the reaper counts a device twice.
CountedOnce ==
    /\ devicesCompleted + devicesFailed = Cardinality(counted)
    /\ \A d \in counted : Over(d)

\* A batch that is completed or failed has no open execution.
FinishedBatchIsOver ==
    batch \in {"completed", "failed"} => \A d \in Devices : Over(d)

\* What an execution says of its script is what the script did: 'completed' and
\* 'failed' come from the device, whichever channel, crash or reaper intervened.
ExecutionTellsTheOutcome ==
    \A d \in Devices : exec[d] \in {"completed", "failed"} => script[d] = exec[d]

\* The inductive invariant behind the three: before the commit there is nothing to
\* count, a script that a heartbeat can still claim has not run, and what is being
\* stored is what the device reported.
ScriptInv ==
    /\ TypeOK
    /\ CountedOnce
    /\ FinishedBatchIsOver
    /\ ExecutionTellsTheOutcome
    /\ request # "committed" =>
          /\ counted = {} /\ batch = "none"
          /\ \A d \in Devices : exec[d] = "none" /\ command[d] = "none"
    /\ \A d \in Devices :
          /\ request = "open" /\ draft[d] # "running" => script[d] = "absent"
          /\ command[d] = "pending" => script[d] = "absent"
          /\ handling[d] # "none" => script[d] = handling[d]
    /\ \A r \in results : script[r.dev] \in Outcomes
    /\ cancel # {} => request = "committed"

\* Every execution of a committed request is over in the end.
EveryExecutionEnds == \A d \in Devices : (exec[d] \in OpenExecution) ~> Over(d)

\* What ReaperEndsBatch rests on: in a batch, what ended unless by cancellation
\* was counted.
EndedIsCounted ==
    batch # "none" => \A d \in Devices : exec[d] \in Outcomes => d \in counted

LastReapEndsBatch ==
    \A d \in Devices :
        /\ exec[d] \in OpenExecution /\ exec'[d] = "timeout" /\ handling'[d] = handling[d]
        /\ batch # "none" /\ \A e \in Devices : exec'[e] \in Outcomes
        => batch' \in {"completed", "failed"}

\* The last execution to end ends the batch if the reaper ends it and none was
\* cancelled: the results that came before, whatever their order, were counted.
\* (A batch whose last execution ends by a result stays queued.)
ReaperEndsBatch == [][LastReapEndsBatch]_vars

\* The command of a device as the ledger shows it: a row is in it once the request
\* has committed.
Entry(d) == IF command[d] = "none" THEN "absent"
            ELSE IF command[d] \in OpenCommand THEN "open" ELSE command[d]

Ledger == INSTANCE CommandLedger WITH
    Commands <- Devices,
    entry    <- [d \in Devices |-> Entry(d)],
    runs     <- [d \in Devices |-> IF script[d] = "absent" THEN 0 ELSE 1]

\* The rows of a batch keep the promises of the command queue, although they are
\* inserted and pushed by other code: a command runs at most once, its row is
\* closed once, by whichever of the two result routes, the cancel route and the
\* reaper comes first, and as completed only after the script ran.
BatchImplementsLedger == Ledger!Spec

\* "Can only cancel pending, queued, or running executions" (cancel route): an
\* execution that is over does not become cancelled.
CancelsOnlyOpen ==
    [][\A d \in Devices : exec'[d] = "cancelled" =>
          exec[d] \in OpenExecution \cup {"cancelled"}]_vars

\* "timeout: Script exceeded its timeoutSeconds limit and was killed"
\* (features/scripts.mdx): an execution does not time out after the device's
\* report of success was stored in its command row.
TimeoutMeansNoSuccess ==
    [][\A d \in Devices : exec'[d] = "timeout" /\ exec[d] # "timeout" =>
          command[d] # "completed"]_vars
==============================================================================
