--------------------------- MODULE AgentConnection ---------------------------
(***************************************************************************)
(* One agent's WebSocket connections as one API process sees them          *)
(* (routes/agentWs.ts): the map of active connections, the server-side     *)
(* ping timers, and the status column of the device, which the connection  *)
(* handlers, the REST heartbeat and the offline detector                   *)
(* (jobs/offlineDetector.ts) all write.                                    *)
(*                                                                         *)
(* The handlers are asynchronous: every await is a step boundary.  Each    *)
(* connection is a socket of its own, so a reconnect overlaps the closing  *)
(* of its predecessor.  Ages are abstracted to fresh and stale.            *)
(***************************************************************************)
EXTENDS Naturals

CONSTANTS
    Sockets,    \* the connections the agent makes, one after the other
    NoSocket,
    Jobs,       \* the mark-offline jobs that are in the queue at one time
    DbFails     \* whether a database transaction of the handlers may fail

ASSUME ConnectionAssumption == NoSocket \notin Sockets /\ DbFails \in BOOLEAN

VARIABLES
    conn,       \* each socket: unused, up, gone (the peer left unnoticed),
                \* closing (the server closed it), closed (onClose has run)
    opening,    \* where each socket's onOpen stands
    offlining,  \* where the status update of onClose or onError stands
    current,    \* activeConnections.get(agentId)
    latest,     \* history: the socket that connected last
    ping,       \* agentPingStates.get(agentId): the socket that stored it
    pong,       \* age of its lastPongAt
    timer,      \* each socket's setInterval is running
    status,     \* devices.status
    seen,       \* age of devices.lastSeenAt against the offline threshold
    job         \* where each mark-offline job stands

connVars == <<conn, opening, offlining, current, latest>>
pingVars == <<ping, pong, timer>>
deviceVars == <<status, seen>>
vars == <<connVars, pingVars, deviceVars, job>>

Init ==
    /\ conn = [s \in Sockets |-> "unused"]
    /\ opening = [s \in Sockets |-> "none"]
    /\ offlining = [s \in Sockets |-> "none"]
    /\ current = NoSocket
    /\ latest = NoSocket
    /\ ping = NoSocket
    /\ pong = "fresh"
    /\ timer = [s \in Sockets |-> FALSE]
    /\ status = "offline"
    /\ seen = "fresh"
    /\ job = [j \in Jobs |-> "none"]

AgentUp == \E s \in Sockets : conn[s] = "up"

\* clearInterval of the stored ping state, and its removal from the map.
DropPingState ==
    /\ ping' = NoSocket
    /\ timer' = [s \in Sockets |-> timer[s] /\ s # ping]
    /\ UNCHANGED pong

-----------------------------------------------------------------------------
\* onOpen up to its first await.  The client dials again only after its last
\* connection is gone on its side (external: reconnectLoop of the agent).
OnOpen(s) ==
    /\ conn[s] = "unused"
    /\ ~AgentUp
    /\ conn' = [conn EXCEPT ![s] = "up"]
    /\ opening' = [opening EXCEPT ![s] = "storing"]
    /\ current' = s
    /\ latest' = s
    /\ DropPingState
    /\ UNCHANGED <<offlining, deviceVars, job>>

\* onOpen: updateDeviceStatus('online') commits; the pending commands it claims
\* are the business of CommandQueue.  A failed transaction rejects onOpen.
OnOpenStores(s) ==
    /\ opening[s] = "storing"
    /\ \/ /\ opening' = [opening EXCEPT ![s] = "announcing"]
          /\ status' = "online"
          /\ seen' = "fresh"
       \/ /\ DbFails
          /\ opening' = [opening EXCEPT ![s] = "failed"]
          /\ UNCHANGED deviceVars
    /\ UNCHANGED <<conn, offlining, current, latest, pingVars, job>>

\* onOpen after its last await: the welcome message, then the ping timer.  A
\* send on a socket that is no longer open may throw, which ends onOpen here.
OnOpenWelcomes(s) ==
    /\ opening[s] = "announcing"
    /\ \/ /\ opening' = [opening EXCEPT ![s] = "done"]
          /\ timer' = [timer EXCEPT ![s] = TRUE]
          /\ ping' = s
          /\ pong' = "fresh"
       \/ /\ conn[s] \in {"closing", "closed"}
          /\ opening' = [opening EXCEPT ![s] = "failed"]
          /\ UNCHANGED pingVars
    /\ UNCHANGED <<conn, offlining, current, latest, deviceVars, job>>

-----------------------------------------------------------------------------
\* The server closes s: the close event follows, from the peer's answer or
\* from the library's close timeout.
Closes(s) == conn' = IF conn[s] \in {"up", "gone"}
                     THEN [conn EXCEPT ![s] = "closing"] ELSE conn

\* Mutant of PingTick: the timeout stops the timer and keeps the state.
PingTickKeepsState(s) ==
    /\ timer[s]
    /\ timer' = [timer EXCEPT ![s] = FALSE]
    /\ IF ping = NoSocket
       THEN UNCHANGED <<ping, conn>>
       ELSE /\ pong = "stale"
            /\ UNCHANGED ping
            /\ Closes(s)
    /\ UNCHANGED <<opening, offlining, current, latest, pong, deviceVars, job>>

\* Mutant of PingTick: the timeout forgets the state and keeps the socket.
PingTickKeepsSocket(s) ==
    /\ timer[s]
    /\ timer' = [timer EXCEPT ![s] = FALSE]
    /\ \/ ping = NoSocket
       \/ pong = "stale"
    /\ ping' = NoSocket
    /\ UNCHANGED <<conn, opening, offlining, current, latest, pong, deviceVars, job>>

\* Mutant of PingTick: the interval does not clear itself without a state.
PingTickRunsOn(s) ==
    /\ timer[s]
    /\ ping # NoSocket
    /\ pong = "stale"
    /\ timer' = [timer EXCEPT ![s] = FALSE]
    /\ ping' = NoSocket
    /\ Closes(s)
    /\ UNCHANGED <<opening, offlining, current, latest, pong, deviceVars, job>>

\* The interval callback of s: without a state it stops itself, after a pong
\* timeout it drops the state and closes its own socket, and a ping that cannot
\* be sent drops the state.  (A ping that is sent changes nothing here.)
PingTick(s) ==
    /\ timer[s]
    /\ timer' = [timer EXCEPT ![s] = FALSE]
    /\ ping' = NoSocket
    /\ \/ ping = NoSocket /\ UNCHANGED conn
       \/ ping # NoSocket /\ pong = "stale" /\ Closes(s)
       \/ /\ ping # NoSocket
          /\ pong = "fresh"
          /\ conn[s] \in {"closing", "closed"}
          /\ UNCHANGED conn
    /\ UNCHANGED <<opening, offlining, current, latest, pong, deviceVars, job>>

\* A pong or a heartbeat message: the state of the agent, whatever its socket.
Pong(s) ==
    /\ conn[s] = "up"
    /\ ping # NoSocket
    /\ pong' = "fresh"
    /\ UNCHANGED <<connVars, ping, timer, deviceVars, job>>

\* More than AGENT_PING_INTERVAL_MS + AGENT_PONG_TIMEOUT_MS since lastPongAt.
PongAges ==
    /\ ping # NoSocket
    /\ pong' = "stale"
    /\ UNCHANGED <<connVars, ping, timer, deviceVars, job>>

-----------------------------------------------------------------------------
\* The peer drops the connection, or vanishes; the server is not told yet.
PeerLeaves(s) ==
    /\ conn[s] = "up"
    /\ conn' = [conn EXCEPT ![s] = "gone"]
    /\ UNCHANGED <<opening, offlining, current, latest, pingVars, deviceVars, job>>

\* disconnectAgent: close the active connection, leave the map alone.
disconnectAgent ==
    /\ current # NoSocket
    /\ Closes(current)
    /\ UNCHANGED <<opening, offlining, current, latest, pingVars, deviceVars, job>>

\* sendCommandToAgent, its catch: a send that throws removes the connection.
SendThrows ==
    /\ current # NoSocket
    /\ conn[current] \in {"closing", "closed"}
    /\ current' = NoSocket
    /\ UNCHANGED <<conn, opening, offlining, latest, pingVars, deviceVars, job>>

\* Mutant of OnClose: the entry is removed whoever holds it.
OnCloseAnySocket(s) ==
    /\ conn[s] \in {"gone", "closing"}
    /\ conn' = [conn EXCEPT ![s] = "closed"]
    /\ DropPingState
    /\ current' = NoSocket
    /\ offlining' = [offlining EXCEPT ![s] = "reading"]
    /\ UNCHANGED <<opening, latest, deviceVars, job>>

\* onClose up to its await: the agent's ping state goes, the map entry only if
\* it is this socket's, and then the status is updated too.
OnClose(s) ==
    /\ conn[s] \in {"gone", "closing"}
    /\ conn' = [conn EXCEPT ![s] = "closed"]
    /\ DropPingState
    /\ IF current = s
       THEN current' = NoSocket /\ offlining' = [offlining EXCEPT ![s] = "reading"]
       ELSE UNCHANGED <<current, offlining>>
    /\ UNCHANGED <<opening, latest, deviceVars, job>>

\* Mutant of OnError: the entry is left to the close event.
OnErrorKeepsEntry(s) ==
    /\ conn[s] \in {"up", "gone"}
    /\ conn' = [conn EXCEPT ![s] = "closing"]
    /\ DropPingState
    /\ offlining' = [offlining EXCEPT ![s] = "reading"]
    /\ UNCHANGED <<opening, current, latest, deviceVars, job>>

\* onError up to its await; the status is updated whether or not this socket
\* is the active one.  The close event follows.
OnError(s) ==
    /\ conn[s] \in {"up", "gone"}
    /\ conn' = [conn EXCEPT ![s] = "closing"]
    /\ DropPingState
    /\ current' = IF current = s THEN NoSocket ELSE current
    /\ offlining' = [offlining EXCEPT ![s] = "reading"]
    /\ UNCHANGED <<opening, latest, deviceVars, job>>

\* The SELECT of onClose and onError: 'updating' is preserved.  When the SELECT
\* fails, its transaction is aborted and the UPDATE that follows fails with it.
OfflineReads(s) ==
    /\ offlining[s] = "reading"
    /\ \/ /\ status = "updating" \/ DbFails
          /\ offlining' = [offlining EXCEPT ![s] = "none"]
       \/ /\ status # "updating"
          /\ offlining' = [offlining EXCEPT ![s] = "writing"]
    /\ UNCHANGED <<conn, opening, current, latest, pingVars, deviceVars, job>>

\* updateDeviceStatus('offline'): an UPDATE by agent id alone.
OfflineWrites(s) ==
    /\ offlining[s] = "writing"
    /\ offlining' = [offlining EXCEPT ![s] = "none"]
    /\ status' = "offline"
    /\ seen' = "fresh"
    /\ UNCHANGED <<conn, opening, current, latest, pingVars, job>>

-----------------------------------------------------------------------------
\* Mutant of Heartbeat: the status is left alone.
HeartbeatKeepsStatus ==
    /\ seen' = "fresh"
    /\ UNCHANGED <<connVars, pingVars, status, job>>

\* POST heartbeat of the main agent: online and seen now, unconditionally.
Heartbeat ==
    /\ status' = "online"
    /\ seen' = "fresh"
    /\ UNCHANGED <<connVars, pingVars, job>>

\* An update_status message: the agent is about to replace itself.
UpdateStatus(s) ==
    /\ conn[s] = "up"
    /\ status' = "updating"
    /\ seen' = "fresh"
    /\ UNCHANGED <<connVars, pingVars, job>>

\* The offline threshold passes without a sign of life.
SeenAges ==
    /\ seen' = "stale"
    /\ UNCHANGED <<connVars, pingVars, status, job>>

Silent == status \in {"online", "updating"} /\ seen = "stale"

\* Mutant of DetectOffline: 'updating' devices are left out.
DetectOfflineOnline(j) ==
    /\ job[j] = "none"
    /\ status = "online" /\ seen = "stale"
    /\ job' = [job EXCEPT ![j] = "queued"]
    /\ UNCHANGED <<connVars, pingVars, deviceVars>>

\* processDetectOffline: a silent device gets a mark-offline job, every time it
\* is found so.
DetectOffline(j) ==
    /\ job[j] = "none"
    /\ Silent
    /\ job' = [job EXCEPT ![j] = "queued"]
    /\ UNCHANGED <<connVars, pingVars, deviceVars>>

\* processMarkOffline, its SELECT and the check whether the device is back.
MarkChecks(j) ==
    /\ job[j] = "queued"
    /\ job' = [job EXCEPT ![j] = IF Silent THEN "checked" ELSE "none"]
    /\ UNCHANGED <<connVars, pingVars, deviceVars>>

\* processMarkOffline, its UPDATE by device id alone.
MarkWrites(j) ==
    /\ job[j] = "checked"
    /\ job' = [job EXCEPT ![j] = "none"]
    /\ status' = "offline"
    /\ UNCHANGED <<connVars, pingVars, seen>>

-----------------------------------------------------------------------------
Socket(s) ==
    \/ OnOpen(s) \/ OnOpenStores(s) \/ OnOpenWelcomes(s)
    \/ PingTick(s) \/ Pong(s) \/ PeerLeaves(s)
    \/ OnClose(s) \/ OnError(s) \/ OfflineReads(s) \/ OfflineWrites(s)
    \/ UpdateStatus(s)

Detector(j) == DetectOffline(j) \/ MarkChecks(j) \/ MarkWrites(j)

Next == (\E s \in Sockets : Socket(s)) \/ PongAges \/ disconnectAgent \/ SendThrows
        \/ Heartbeat \/ SeenAges \/ (\E j \in Jobs : Detector(j))

Spec == Init /\ [][Next]_vars

(***************************************************************************)
(* The event loop runs its continuations and its intervals, the scheduled  *)
(* detector and its worker run, a socket the server closed gets its close  *)
(* event, and a pong grows old when no peer is left to send one.  A        *)
(* connected agent sends heartbeats.  Nothing is assumed of a peer that    *)
(* vanished: the network need not report it.                               *)
(***************************************************************************)
Fairness ==
    /\ \A s \in Sockets :
          /\ WF_vars(OnOpenStores(s)) /\ WF_vars(OnOpenWelcomes(s))
          /\ WF_vars(PingTick(s))
          /\ WF_vars(conn[s] = "closing" /\ OnClose(s))
          /\ WF_vars(OfflineReads(s)) /\ WF_vars(OfflineWrites(s))
    /\ WF_vars(~AgentUp /\ PongAges)
    /\ WF_vars(\E j \in Jobs : DetectOffline(j))
    /\ \A j \in Jobs : WF_vars(MarkChecks(j)) /\ WF_vars(MarkWrites(j))
    /\ WF_vars(AgentUp /\ Heartbeat)

FairSpec == Spec /\ Fairness

-----------------------------------------------------------------------------
\* Every variable has its type.
TypeOK ==
    /\ conn \in [Sockets -> {"unused", "up", "gone", "closing", "closed"}]
    /\ opening \in [Sockets -> {"none", "storing", "announcing", "done", "failed"}]
    /\ offlining \in [Sockets -> {"none", "reading", "writing"}]
    /\ current \in Sockets \cup {NoSocket}
    /\ latest \in Sockets \cup {NoSocket}
    /\ ping \in Sockets \cup {NoSocket}
    /\ pong \in {"fresh", "stale"}
    /\ timer \in [Sockets -> BOOLEAN]
    /\ status \in {"online", "offline", "updating"}
    /\ seen \in {"fresh", "stale"}
    /\ job \in [Jobs -> {"none", "queued", "checked"}]

\* "A reconnecting agent may have already replaced us in the map — deleting the
\* new connection's entry would make the agent unreachable" (onClose): the
\* connection an agent made last is the active one as long as it is up, however
\* late the handlers of its predecessors run.
LatestIsActive ==
    \A s \in Sockets : conn[s] = "up" => latest = s /\ current = s

\* A ping state in the map belongs to a running interval, so that none stays
\* behind unswept when intervals of several connections share the entry.
PingStateIsSwept == ping # NoSocket => timer[ping]

\* No handler of s that is still to come updates the status.
Ended(s) == conn[s] = "closed" \/ (conn[s] = "closing" /\ current # s)

\* A connection marks the device offline at most once, whether it ends by an error,
\* a close, a ping timeout or a forced disconnect, and in whatever order these
\* come: once its update is under way, or was left to a successor, no other starts.
OneOfflineUpdate ==
    [][\A s \in Sockets :
          offlining[s] # "none" \/ Ended(s) =>
              Ended(s)' /\ (offlining'[s] = "reading" => offlining[s] = "reading")]_vars

\* When every connection of an agent is closed its intervals stop, those an
\* onOpen started only after its socket had closed included.
TimersStop ==
    LET AllClosed == \A s \in Sockets : conn[s] \in {"unused", "closed"}
    IN  AllClosed ~> (~AllClosed \/ \A s \in Sockets : ~timer[s])

\* "Start server-side ping/pong for stale connection detection" (onOpen): an
\* active connection whose peer vanished is taken out of the map of connections.
StaleIsDetected ==
    \A s \in Sockets : (current = s /\ conn[s] = "gone") ~> (current # s)

\* Without such an overlap it is: once the handlers and timers of the other
\* connections are through, the ping timer takes an active connection whose peer vanished
\* out of the map, also after reconnects and failed transactions.
WatchedStaleIsDetected ==
    \A s \in Sockets :
        LET Settled(t) == /\ conn[t] \in {"unused", "closed"} /\ ~timer[t]
                          /\ opening[t] \in {"none", "done", "failed"}
        IN  (current = s /\ conn[s] = "gone" /\ ping = s /\ \A t \in Sockets \ {s} : Settled(t))
                ~> current # s

\* A device whose agent stays connected and keeps being seen does not stay
\* offline: the late updates of its old connections and of the detector die out.
ConnectedIsNotOffline ==
    <>[](AgentUp /\ seen = "fresh") => <>[](status # "offline")

\* A device that is never heard of again ends offline, one that was 'updating'
\* included, as onClose leaves to the detector.
SilentBecomesOffline ==
    <>[](seen = "stale") => <>[](status = "offline")

\* "Check if device has reconnected since job was queued" (processMarkOffline):
\* the job marks a device offline only when it has not been heard of.
MarksOnlySilent ==
    [][\A j \in Jobs : job[j] = "checked" /\ job'[j] = "none" => seen = "stale"]_vars
==============================================================================
