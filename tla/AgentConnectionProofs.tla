------------------------ MODULE AgentConnectionProofs ------------------------
(***************************************************************************)
(* Proofs about AgentConnection for any number of connections and jobs.    *)
(***************************************************************************)
EXTENDS AgentConnection, TLAPS

\* The inductive invariant: the two properties, over well-typed states.
ConnectionInv == TypeOK /\ LatestIsActive /\ PingStateIsSwept

\* No connection and no ping state at the start.
LEMMA ConnectionInit == Init => ConnectionInv
<1> SUFFICES ASSUME Init PROVE ConnectionInv
  OBVIOUS
<1>1. timer \in [Sockets -> BOOLEAN]
  BY Zenon DEF Init
<1> QED
  BY <1>1, ConnectionAssumption DEF Init, ConnectionInv, TypeOK, LatestIsActive, PingStateIsSwept

\* Every handler, timer, heartbeat and job keeps the invariant.
LEMMA ConnectionStep == ConnectionInv /\ [Next]_vars => ConnectionInv'
<1> SUFFICES ASSUME ConnectionInv, [Next]_vars PROVE ConnectionInv'
  OBVIOUS
<1> USE ConnectionAssumption DEF ConnectionInv, TypeOK, LatestIsActive, PingStateIsSwept,
        connVars, pingVars, deviceVars
<1>1. ASSUME NEW s \in Sockets, OnOpen(s) PROVE ConnectionInv'
  BY <1>1 DEF OnOpen, AgentUp, DropPingState
<1>2. ASSUME NEW s \in Sockets, OnOpenStores(s) PROVE ConnectionInv'
  BY <1>2 DEF OnOpenStores
<1>3. ASSUME NEW s \in Sockets, OnOpenWelcomes(s) PROVE ConnectionInv'
  <2>1. timer' \in [Sockets -> BOOLEAN]
    BY <1>3, Zenon DEF OnOpenWelcomes
  <2> QED
    BY <1>3, <2>1 DEF OnOpenWelcomes
<1>4. ASSUME NEW s \in Sockets, PingTick(s) PROVE ConnectionInv'
  BY <1>4 DEF PingTick, Closes
<1>5. ASSUME NEW s \in Sockets, Pong(s) PROVE ConnectionInv'
  BY <1>5 DEF Pong
<1>6. ASSUME NEW s \in Sockets, PeerLeaves(s) PROVE ConnectionInv'
  BY <1>6 DEF PeerLeaves
<1>7. ASSUME NEW s \in Sockets, OnClose(s) PROVE ConnectionInv'
  BY <1>7 DEF OnClose, DropPingState
<1>8. ASSUME NEW s \in Sockets, OnError(s) PROVE ConnectionInv'
  BY <1>8 DEF OnError, DropPingState
<1>9. ASSUME NEW s \in Sockets, OfflineReads(s) PROVE ConnectionInv'
  BY <1>9 DEF OfflineReads
<1>10. ASSUME NEW s \in Sockets, OfflineWrites(s) PROVE ConnectionInv'
  BY <1>10 DEF OfflineWrites
<1>11. ASSUME NEW s \in Sockets, UpdateStatus(s) PROVE ConnectionInv'
  BY <1>11 DEF UpdateStatus
<1>12. ASSUME PongAges PROVE ConnectionInv'
  BY <1>12 DEF PongAges
<1>13. ASSUME disconnectAgent PROVE ConnectionInv'
  BY <1>13 DEF disconnectAgent, Closes
<1>14. ASSUME SendThrows PROVE ConnectionInv'
  BY <1>14 DEF SendThrows
<1>15. ASSUME Heartbeat PROVE ConnectionInv'
  BY <1>15 DEF Heartbeat
<1>16. ASSUME SeenAges PROVE ConnectionInv'
  BY <1>16 DEF SeenAges
<1>17. ASSUME NEW j \in Jobs, DetectOffline(j) PROVE ConnectionInv'
  BY <1>17 DEF DetectOffline, Silent
<1>18. ASSUME NEW j \in Jobs, MarkChecks(j) PROVE ConnectionInv'
  BY <1>18 DEF MarkChecks, Silent
<1>19. ASSUME NEW j \in Jobs, MarkWrites(j) PROVE ConnectionInv'
  BY <1>19 DEF MarkWrites
<1>20. ASSUME UNCHANGED vars PROVE ConnectionInv'
  BY <1>20 DEF vars
<1> QED
  BY Zenon, <1>1, <1>2, <1>3, <1>4, <1>5, <1>6, <1>7, <1>8, <1>9, <1>10,
     <1>11, <1>12, <1>13, <1>14, <1>15, <1>16, <1>17, <1>18, <1>19, <1>20
     DEF Next, Socket, Detector

\* The state of the handlers is well-typed.
THEOREM ConnectionTypes == Spec => []TypeOK
<1>1. ConnectionInv => TypeOK
  BY DEF ConnectionInv
<1> QED
  BY <1>1, ConnectionInit, ConnectionStep, PTL DEF Spec

\* A reconnected agent stays reachable: no late handler of an older connection,
\* no failed send and no forced disconnect removes the entry of the connection
\* that is up.
THEOREM ReconnectedIsReachable == Spec => []LatestIsActive
<1>1. ConnectionInv => LatestIsActive
  BY DEF ConnectionInv
<1> QED
  BY <1>1, ConnectionInit, ConnectionStep, PTL DEF Spec

\* A ping state in the map always has a running interval that will examine it.
THEOREM PingStateSwept == Spec => []PingStateIsSwept
<1>1. ConnectionInv => PingStateIsSwept
  BY DEF ConnectionInv
<1> QED
  BY <1>1, ConnectionInit, ConnectionStep, PTL DEF Spec

-----------------------------------------------------------------------------
(* One offline update for each connection *)

\* A connection whose update is under way starts no other.
OfflineInv == \A s \in Sockets : offlining[s] # "none" => Ended(s)

\* What one step may do to a connection that has ended.
StaysEnded(s) == Ended(s)' /\ (offlining'[s] = "reading" => offlining[s] = "reading")

\* Only the error of an open connection, or the close of the active one, starts an
\* update; both leave a connection that has ended.
LEMMA OfflineStep ==
    ASSUME TypeOK, [Next]_vars
    PROVE  /\ \A t \in Sockets : Ended(t) => StaysEnded(t)
           /\ OfflineInv => OfflineInv'
<1> DEFINE Goal == \A t \in Sockets :
               /\ Ended(t) => StaysEnded(t)
               /\ offlining'[t] # "none" => offlining[t] # "none" \/ Ended(t)'
<1> SUFFICES Goal
  BY DEF OfflineInv, StaysEnded
<1> USE DEF TypeOK, Ended, StaysEnded
<1>1. ASSUME NEW s \in Sockets, OnOpen(s) PROVE Goal
  BY <1>1, ConnectionAssumption DEF OnOpen
<1>2. ASSUME NEW s \in Sockets, PingTick(s) PROVE Goal
  BY <1>2 DEF PingTick, Closes
<1>3. ASSUME NEW s \in Sockets, PeerLeaves(s) PROVE Goal
  BY <1>3 DEF PeerLeaves
<1>4. ASSUME NEW s \in Sockets, OnClose(s) PROVE Goal
  BY <1>4, ConnectionAssumption DEF OnClose
<1>5. ASSUME NEW s \in Sockets, OnError(s) PROVE Goal
  BY <1>5, ConnectionAssumption DEF OnError
<1>6. ASSUME NEW s \in Sockets, OfflineReads(s) \/ OfflineWrites(s) PROVE Goal
  BY <1>6 DEF OfflineReads, OfflineWrites
<1>7. ASSUME disconnectAgent \/ SendThrows PROVE Goal
  BY <1>7, ConnectionAssumption DEF disconnectAgent, SendThrows, Closes
<1>8. ASSUME UNCHANGED <<conn, offlining, current>> PROVE Goal
  BY <1>8
<1>9. ASSUME NEW s \in Sockets, OnOpenStores(s) \/ OnOpenWelcomes(s) \/ Pong(s) \/ UpdateStatus(s)
      PROVE  UNCHANGED <<conn, offlining, current>>
  BY <1>9 DEF OnOpenStores, OnOpenWelcomes, Pong, UpdateStatus, connVars
<1>10. ASSUME NEW j \in Jobs, Detector(j) PROVE UNCHANGED <<conn, offlining, current>>
  BY <1>10 DEF Detector, DetectOffline, MarkChecks, MarkWrites, connVars
<1>11. ASSUME PongAges \/ Heartbeat \/ SeenAges \/ UNCHANGED vars
       PROVE  UNCHANGED <<conn, offlining, current>>
  BY <1>11 DEF PongAges, Heartbeat, SeenAges, vars, connVars
<1> HIDE DEF Goal
<1> QED
  BY <1>1, <1>2, <1>3, <1>4, <1>5, <1>6, <1>7, <1>8, <1>9, <1>10, <1>11 DEF Next, Socket

\* For any number of connections, each marks the device offline at most once: the
\* late updates that can overwrite a reconnect are as many as the connections
\* that have ended.
THEOREM MarksOfflineOnce == Spec => OneOfflineUpdate
<1>1. Init => OfflineInv
  BY DEF Init, OfflineInv
<1>2. TypeOK /\ OfflineInv /\ [Next]_vars => OfflineInv'
  BY OfflineStep
<1>3. TypeOK /\ OfflineInv /\ [Next]_vars =>
          [\A s \in Sockets :
              offlining[s] # "none" \/ Ended(s) =>
                  Ended(s)' /\ (offlining'[s] = "reading" => offlining[s] = "reading")]_vars
  BY OfflineStep DEF OfflineInv, StaysEnded
<1> QED
  BY <1>1, <1>2, <1>3, ConnectionTypes, PTL DEF Spec, OneOfflineUpdate
==============================================================================
