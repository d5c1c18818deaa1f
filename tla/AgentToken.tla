----------------------------- MODULE AgentToken -----------------------------
(***************************************************************************)
(* Rotation of a device's bearer tokens, end to end: the heartbeat route   *)
(* asks for it, the agent requests it, the rotate-token route replaces the *)
(* stored hashes and keeps the old ones valid for a grace period, and the  *)
(* agent saves the new tokens and hands one to the helper.                 *)
(*                                                                         *)
(* A rotation replaces the agent's, the watchdog's and the helper's token  *)
(* together, so a token is its generation: 0 at enrollment, a for the      *)
(* tokens that rotation a makes.  A request, the agent's wait for it and   *)
(* the handler that serves it go on separately: the agent may stop waiting *)
(* while the handler still runs.                                           *)
(***************************************************************************)
EXTENDS Integers

CONSTANTS
    MaxRotations,   \* bound: rotation requests
    MaxRestarts,    \* bound: restarts of the agent
    MaxDrops        \* bound: helper sessions that break and helper processes that end

ASSUME AgentTokenAssumption ==
    MaxRotations \in Nat /\ MaxRestarts \in Nat /\ MaxDrops \in Nat

Rotations == 1..MaxRotations
Generations == 0..MaxRotations

\* A token that is not there: the empty string of the agent, None of the helper.
NoToken == -1

VARIABLES
    cur,        \* devices.agentTokenHash
    prev,       \* devices.previousTokenHash
    grace,      \* previousTokenExpiresAt is in the future
    due,        \* the token is too old, or the device has no watchdog token
    stage,      \* how far each rotation request is
    carries,    \* the token a request authenticates with
    base,       \* the hash its handler has read
    told,       \* a heartbeat response with RotateToken, not handled yet
    pc,         \* handleTokenRotation
    rotating,   \* the rotation it is at
    mem,        \* secureToken
    disk,       \* the tokens in secrets.yaml
    first,      \* HelperAuthToken as enrollment wrote it; older agents have none
    retained,   \* helperToken, kept for the helper's next connection
    console,    \* the helper runs in the active console session
    driver,     \* the helper's reconnect driver has not returned
    session,    \* the helper's IPC session is open
    push,       \* the handler of a freshly authenticated session
    pushes,     \* the token that handler has read
    helper,     \* the token the helper has
    overtaken,  \* history: the helper got a newer token before the one it has
    withheld,   \* history: the last push due to this session found it off the console
    reverted,   \* history: a restart found older tokens on disk
    restarts,
    drops

serverVars == <<cur, prev, grace, due>>
requestVars == <<stage, carries, base>>
agentVars == <<told, pc, rotating, mem, retained>>
helperVars == <<first, console, driver, session, push, pushes, helper, overtaken, withheld>>
faultVars == <<reverted, restarts, drops>>
vars == <<serverVars, requestVars, agentVars, disk, helperVars, faultVars>>

Init ==
    /\ cur = 0 /\ prev = 0 /\ grace = FALSE
    /\ due \in BOOLEAN
    /\ stage = [a \in Rotations |-> "none"]
    /\ carries = [a \in Rotations |-> 0]
    /\ base = [a \in Rotations |-> 0]
    /\ told = FALSE /\ pc = "idle" /\ rotating = 0
    /\ mem = 0 /\ disk = 0
    /\ first \in {0, NoToken} /\ retained = first
    /\ console \in BOOLEAN /\ driver = TRUE
    /\ session = FALSE /\ push = "none" /\ pushes = 0 /\ helper = NoToken
    /\ overtaken = FALSE /\ withheld = FALSE /\ reverted = FALSE
    /\ restarts = 0 /\ drops = 0

-----------------------------------------------------------------------------
(* The server. *)

\* matchAgentTokenHash: the current token, and the previous one for a while.
Accepted(t) == t = cur \/ (grace /\ t = prev)

\* The current token reaches its maximal age, long after any grace period.
RotationFallsDue ==
    /\ ~due /\ ~grace
    /\ due' = TRUE
    /\ UNCHANGED <<cur, prev, grace, requestVars, agentVars, disk, helperVars, faultVars>>

\* Five minutes have passed since the last rotation.  The agent's client gives
\* up after thirty seconds, so no answer is awaited that long.
GracePasses ==
    /\ grace
    /\ ~(pc = "wait" /\ stage[rotating] = "answered")
    /\ grace' = FALSE
    /\ UNCHANGED <<cur, prev, due, requestVars, agentVars, disk, helperVars, faultVars>>

\* The heartbeat route: it asks for a rotation when one is due, but not an
\* agent that uses the previous token.
Heartbeat ==
    /\ mem = cur /\ due
    /\ ~told
    /\ told' = TRUE
    /\ UNCHANGED <<serverVars, requestVars, pc, rotating, mem, retained, disk, helperVars, faultVars>>

\* agentAuthMiddleware on a rotate-token request.  It may refuse a good token
\* too: the rate limit, a suspended tenant or token, a failing database.
Authenticate(a, answer) ==
    /\ stage[a] = "sent"
    /\ answer = "authed" => Accepted(carries[a])
    /\ stage' = [stage EXCEPT ![a] = answer]
    /\ UNCHANGED <<serverVars, carries, base, agentVars, disk, helperVars, faultVars>>

\* The request never reaches the server.
RequestLost(a) ==
    /\ stage[a] = "sent"
    /\ stage' = [stage EXCEPT ![a] = "lost"]
    /\ UNCHANGED <<serverVars, carries, base, agentVars, disk, helperVars, faultVars>>

\* The route reads the device's hashes ...
ReadDevice(a) ==
    /\ stage[a] = "authed"
    /\ stage' = [stage EXCEPT ![a] = "read"]
    /\ base' = [base EXCEPT ![a] = cur]
    /\ UNCHANGED <<serverVars, carries, agentVars, disk, helperVars, faultVars>>

\* Mutant of UpdateDevice: previousTokenHash is set to the new hash.
UpdateDeviceForgets(a) ==
    /\ stage[a] = "read"
    /\ stage' = [stage EXCEPT ![a] = "answered"]
    /\ cur' = a /\ prev' = a /\ grace' = TRUE
    /\ due' = FALSE
    /\ UNCHANGED <<carries, base, agentVars, disk, helperVars, faultVars>>

\* ... and replaces them, whatever they are by now.
UpdateDevice(a) ==
    /\ stage[a] = "read"
    /\ stage' = [stage EXCEPT ![a] = "answered"]
    /\ cur' = a /\ prev' = base[a] /\ grace' = TRUE
    /\ due' = FALSE
    /\ UNCHANGED <<carries, base, agentVars, disk, helperVars, faultVars>>

\* The update fails and the agent is answered with a 500.
UpdateFails(a) ==
    /\ stage[a] = "read"
    /\ stage' = [stage EXCEPT ![a] = "refused"]
    /\ UNCHANGED <<serverVars, carries, base, agentVars, disk, helperVars, faultVars>>

-----------------------------------------------------------------------------
(* The agent. *)

\* handleTokenRotation, when none runs: the request goes out.
StartRotation(a) ==
    /\ told /\ pc = "idle"
    /\ stage[a] = "none" /\ \A b \in Rotations : b < a => stage[b] # "none"
    /\ told' = FALSE
    /\ pc' = "wait" /\ rotating' = a
    /\ stage' = [stage EXCEPT ![a] = "sent"]
    /\ carries' = [carries EXCEPT ![a] = mem]
    /\ UNCHANGED <<serverVars, base, mem, retained, disk, helperVars, faultVars>>

\* handleTokenRotation, when one runs already: tokenRotating is set.
AlreadyRotating ==
    /\ told /\ pc # "idle"
    /\ told' = FALSE
    /\ UNCHANGED <<serverVars, requestVars, pc, rotating, mem, retained, disk, helperVars, faultVars>>

\* Mutant of RotationFails: a client without a timeout.
RotationFailsIfAnswered ==
    /\ pc = "wait" /\ stage[rotating] = "refused"
    /\ pc' = "idle" /\ rotating' = 0
    /\ UNCHANGED <<serverVars, requestVars, told, mem, retained, disk, helperVars, faultVars>>

\* RotateToken returns an error: the server's, a broken connection, or the
\* client's timeout.  Nothing is retried before a heartbeat asks again.
RotationFails ==
    /\ pc = "wait"
    /\ pc' = "idle" /\ rotating' = 0
    /\ UNCHANGED <<serverVars, requestVars, told, mem, retained, disk, helperVars, faultVars>>

\* The new tokens arrive, replace the old ones and are saved, if that works.
RotationSucceeds(saved) ==
    /\ pc = "wait" /\ stage[rotating] = "answered"
    /\ stage' = [stage EXCEPT ![rotating] = "received"]
    /\ mem' = rotating
    /\ disk' = IF saved THEN rotating ELSE disk
    /\ pc' = "retain"
    /\ UNCHANGED <<serverVars, carries, base, told, rotating, retained, helperVars, faultVars>>

\* setHelperToken.
SetHelperToken ==
    /\ pc = "retain"
    /\ retained' = rotating
    /\ pc' = "push"
    /\ UNCHANGED <<serverVars, requestVars, told, rotating, mem, disk, helperVars, faultVars>>

\* The session is gone, and with it the handler that pushes to it.
SessionEnds ==
    /\ session' = FALSE /\ push' = "none" /\ pushes' = 0
    /\ overtaken' = FALSE /\ withheld' = FALSE

\* Mutant of PushFails: the error is only logged.
PushFailsLogsOnly ==
    /\ push' = "none" /\ pushes' = 0
    /\ UNCHANGED <<session, overtaken, withheld>>

\* pushHelperToken, when the send fails: it closes the session.
PushFails == SessionEnds

\* sendHelperTokenUpdate, and the end of handleTokenRotation.  A session off
\* the console is passed over and stays open.
SendHelperTokenUpdate(sent) ==
    /\ pc = "push"
    /\ \/ /\ session /\ console /\ sent
          /\ helper' = rotating /\ overtaken' = FALSE /\ withheld' = FALSE
          /\ UNCHANGED <<session, push, pushes>>
       \/ /\ session /\ console /\ ~sent
          /\ PushFails
          /\ UNCHANGED helper
       \/ /\ session /\ ~console /\ sent
          /\ withheld' = TRUE
          /\ UNCHANGED <<session, push, pushes, helper, overtaken>>
       \/ /\ ~session /\ sent
          /\ UNCHANGED <<session, push, pushes, helper, overtaken, withheld>>
    /\ pc' = "idle" /\ rotating' = 0
    /\ UNCHANGED <<serverVars, requestVars, told, mem, retained, disk, first, console, driver, faultVars>>

\* The agent stops at any point and starts with the tokens on disk.
AgentRestarts ==
    /\ restarts < MaxRestarts
    /\ restarts' = restarts + 1
    /\ told' = FALSE /\ pc' = "idle" /\ rotating' = 0
    /\ mem' = disk /\ retained' = IF disk = 0 THEN first ELSE disk
    /\ reverted' = (reverted \/ disk # mem)
    /\ SessionEnds
    /\ UNCHANGED <<serverVars, requestVars, disk, first, console, driver, helper, drops>>

-----------------------------------------------------------------------------
(* The helper. *)

\* Another user takes the console, or the helper's user gets it back.  Only
\* Windows has such sessions; elsewhere the helper is always at the console.
ConsoleSwitches ==
    /\ console' = ~console
    /\ UNCHANGED <<serverVars, requestVars, agentVars, disk, first, driver, session, push, pushes,
                   helper, overtaken, withheld, faultVars>>

\* Mutant of HelperConnects: the driver stops after a broken session.
HelperConnectsOnce(admitted) ==
    /\ ~session /\ driver /\ drops = 0
    /\ admitted => console
    /\ session' = admitted /\ driver' = admitted
    /\ push' = IF admitted THEN "due" ELSE "none"
    /\ UNCHANGED <<serverVars, requestVars, agentVars, disk, first, console, pushes, helper, overtaken,
                   withheld, faultVars>>

\* An attempt of the driver that reaches the broker.  The broker registers the
\* session and starts its handler, or it rejects the helper for good: off the
\* console always, and wherever its version, binary or identity is not the
\* expected one.  A permanent reject ends the driver.
HelperConnects(admitted) ==
    /\ ~session /\ driver
    /\ admitted => console
    /\ session' = admitted /\ driver' = admitted
    /\ push' = IF admitted THEN "due" ELSE "none"
    /\ UNCHANGED <<serverVars, requestVars, agentVars, disk, first, console, pushes, helper, overtaken,
                   withheld, faultVars>>

\* handleHelperSessionAuthenticated reads the retained token, unless the
\* session is off the console by now or there is no token ...
AuthenticatedReads ==
    /\ push = "due"
    /\ push' = IF console /\ retained # NoToken THEN "read" ELSE "none"
    /\ pushes' = IF console /\ retained # NoToken THEN retained ELSE pushes
    /\ withheld' = ~console
    /\ UNCHANGED <<serverVars, requestVars, agentVars, disk, first, console, driver, session, helper,
                   overtaken, faultVars>>

\* ... and pushes it, perhaps after a rotation has pushed a newer one.
AuthenticatedPushes(sent) ==
    /\ push = "read"
    /\ \/ /\ sent
          /\ push' = "none" /\ pushes' = 0 /\ helper' = pushes
          /\ overtaken' = (pushes # retained /\ (pc # "push" \/ overtaken))
          /\ UNCHANGED <<session, withheld>>
       \/ ~sent /\ PushFails /\ UNCHANGED helper
    /\ UNCHANGED <<serverVars, requestVars, agentVars, disk, first, console, driver, faultVars>>

\* The session breaks.
HelperDrops ==
    /\ session
    /\ drops < MaxDrops
    /\ drops' = drops + 1
    /\ SessionEnds
    /\ UNCHANGED <<serverVars, requestVars, agentVars, disk, first, console, driver, helper, reverted, restarts>>

\* The helper's process ends and is launched again: its token was in memory
\* only, and a driver that had returned runs again.
HelperRestarts ==
    /\ drops < MaxDrops
    /\ drops' = drops + 1
    /\ SessionEnds
    /\ helper' = NoToken /\ driver' = TRUE
    /\ UNCHANGED <<serverVars, requestVars, agentVars, disk, first, console, reverted, restarts>>

-----------------------------------------------------------------------------

RotationStep ==
    \/ \E a \in Rotations : StartRotation(a)
    \/ RotationFails \/ SetHelperToken
    \/ \E ok \in BOOLEAN : RotationSucceeds(ok) \/ SendHelperTokenUpdate(ok)

HelperStep ==
    \/ AuthenticatedReads
    \/ \E ok \in BOOLEAN : HelperConnects(ok) \/ AuthenticatedPushes(ok)

Next ==
    \/ RotationFallsDue \/ GracePasses \/ Heartbeat
    \/ \E a \in Rotations :
        \/ \E answer \in {"authed", "refused"} : Authenticate(a, answer)
        \/ RequestLost(a) \/ ReadDevice(a) \/ UpdateDevice(a) \/ UpdateFails(a)
    \/ RotationStep \/ AlreadyRotating \/ AgentRestarts
    \/ HelperStep \/ ConsoleSwitches \/ HelperDrops \/ HelperRestarts

Spec == Init /\ [][Next]_vars

\* The agent goes on sending heartbeats, its client times out, its goroutines
\* run, and the helper's driver, until it returns, goes on connecting.  Sends do
\* not fail for ever.  Nothing is assumed of the console or of helper processes.
FairSpec ==
    /\ Spec
    /\ WF_vars(Heartbeat)
    /\ WF_vars(RotationStep)
    /\ WF_vars(HelperStep)
    /\ SF_vars(AuthenticatedPushes(TRUE))

-----------------------------------------------------------------------------
(* Properties. *)

Stages == {"none", "sent", "lost", "authed", "read", "answered", "refused", "received"}

RotationTypes ==
    /\ cur \in Generations /\ prev \in Generations
    /\ grace \in BOOLEAN /\ due \in BOOLEAN
    /\ stage \in [Rotations -> Stages]
    /\ carries \in [Rotations -> Generations] /\ base \in [Rotations -> Generations]
    /\ told \in BOOLEAN
    /\ pc \in {"idle", "wait", "retain", "push"}
    /\ rotating \in Generations /\ (rotating = 0 <=> pc = "idle")
    /\ mem \in Generations /\ disk \in Generations
    /\ reverted \in BOOLEAN /\ restarts \in 0..MaxRestarts

HelperTypes ==
    /\ first \in {0, NoToken} /\ retained \in Generations \cup {NoToken}
    /\ console \in BOOLEAN /\ driver \in BOOLEAN
    /\ session \in BOOLEAN /\ push \in {"none", "due", "read"}
    /\ pushes \in Generations /\ helper \in Generations \cup {NoToken}
    /\ overtaken \in BOOLEAN /\ withheld \in BOOLEAN
    /\ drops \in 0..MaxDrops

\* The variables have their types; a handler at work belongs to a rotation.
TypeOK == RotationTypes /\ HelperTypes

\* A rotation that the server has made and whose answer the agent does not
\* wait for any more.
AnswerMissed == \E a \in Rotations : stage[a] = "answered" /\ rotating # a

\* The server accepts the token the agent uses, at every moment of any number
\* of rotations, of requests that get lost or fail, and of restarts -- unless
\* the agent has missed the answer to a rotation, or a restart has brought
\* back a token that could not be replaced on disk.
AgentAccepted == AnswerMissed \/ reverted \/ Accepted(mem)

\* Strengthening of AgentAccepted: until then the agent has the current token,
\* but for the answer under way, and the handler it waits for has read that
\* token.
RotationInv ==
    /\ TypeOK
    /\ pc = "wait" => stage[rotating] \notin {"none", "received"}
    /\ pc \in {"retain", "push"} => stage[rotating] = "received"
    /\ ~AnswerMissed /\ ~reverted =>
        /\ pc = "wait" /\ stage[rotating] = "answered" => cur = rotating /\ prev = mem /\ grace
        /\ ~(pc = "wait" /\ stage[rotating] = "answered") => mem = cur
        /\ pc = "wait" /\ stage[rotating] = "read" => base[rotating] = cur

\* The helper has what the agent has for it, or one of two things has happened
\* to the session: the push of its connection was overtaken by the push of a
\* rotation, or a push was withheld because the session was off the console.
\* Nothing makes up for either before the next rotation or connection, not even
\* the return of the session to the console.
UpToDate == helper = retained \/ retained = NoToken \/ overtaken \/ withheld

\* A helper whose session has had its push has the token the agent retains,
\* through failed sends, broken sessions, restarts of agent and helper, console
\* switches and rotations under way, but for the two cases of UpToDate.
HelperFollows ==
    session /\ push = "none" /\ pc # "push" => UpToDate

\* Strengthening of HelperFollows: pushes go to open sessions only, the last
\* step of a rotation pushes the token just retained, and a session is that of
\* a running driver.
HelperInv ==
    /\ TypeOK
    /\ HelperFollows
    /\ push # "none" => session
    /\ pc = "push" => retained = rotating
    /\ session => driver

\* A helper that lacks the retained token gets it in the end, but for those
\* cases, if it stays at the console and is not rejected for good.
HelperCatchesUp == <>[](console /\ driver) => []<>UpToDate

\* A rotation that is due is made, as often as requests fail or get lost, as
\* long as the agent has the current token (and the bound allows requests).
DueIsRotated ==
    due ~> (~due \/ mem # cur \/ \A a \in Rotations : stage[a] # "none")

\* Rotation has "no downtime": an agent that goes on sending heartbeats is
\* accepted again and again.
NoDowntime == []<>Accepted(mem)
=============================================================================
