-------------------------- MODULE AgentTokenProofs --------------------------
(* Proofs about AgentToken, for every number of rotations and of faults. *)
EXTENDS AgentToken, TLAPS

\* The generations are the rotations and the enrollment's 0.
LEMMA Ranges ==
    /\ 0 \in Generations /\ NoToken \notin Generations
    /\ \A a \in Rotations : a \in Generations /\ a # 0
    /\ \A g \in Generations : g # 0 => g \in Rotations
    /\ 0 \in 0..MaxRestarts /\ 0 \in 0..MaxDrops
    /\ \A n \in 0..MaxRestarts : n < MaxRestarts => n + 1 \in 0..MaxRestarts
    /\ \A n \in 0..MaxDrops : n < MaxDrops => n + 1 \in 0..MaxDrops
  BY AgentTokenAssumption DEF Generations, Rotations, NoToken

-----------------------------------------------------------------------------
(* The agent's token. *)

\* Whoever holds the current token, or the previous one during its grace
\* period, is accepted, so the strengthened invariant gives the plain one.
LEMMA InvImpliesAccepted == RotationInv => AgentAccepted
  BY DEF RotationInv, AgentAccepted, Accepted

LEMMA RotationInvInit == Init => RotationInv
<1> SUFFICES ASSUME Init
             PROVE  RotationInv
  OBVIOUS
<1>1. RotationTypes
  BY Ranges, Zenon DEF Init, RotationTypes, Stages
<1>2. HelperTypes
  BY Ranges, Zenon DEF Init, HelperTypes
<1>3. ~AnswerMissed
  BY Ranges DEF Init, AnswerMissed
<1>4. QED
  BY <1>1, <1>2, <1>3 DEF Init, RotationInv, TypeOK

\* Every step keeps the rotation's variables in their types.
LEMMA RotationTypesStep == TypeOK /\ [Next]_vars => RotationTypes'
<1> SUFFICES ASSUME TypeOK, [Next]_vars
             PROVE  RotationTypes'
  OBVIOUS
<1> RotationTypes
  BY DEF TypeOK
<1> USE Ranges DEF RotationTypes, Stages
<1>1. CASE RotationFallsDue
  BY <1>1 DEF RotationFallsDue, requestVars, agentVars, helperVars, faultVars
<1>2. CASE GracePasses
  BY <1>2, Zenon DEF GracePasses, requestVars, agentVars, helperVars, faultVars
<1>3. CASE Heartbeat
  BY <1>3 DEF Heartbeat, serverVars, requestVars, helperVars, faultVars
<1>4. ASSUME NEW a \in Rotations, NEW answer \in {"authed", "refused"}, Authenticate(a, answer)
      PROVE  RotationTypes'
  BY <1>4 DEF Authenticate, serverVars, agentVars, helperVars, faultVars
<1>5. ASSUME NEW a \in Rotations, RequestLost(a)
      PROVE  RotationTypes'
  BY <1>5 DEF RequestLost, serverVars, agentVars, helperVars, faultVars
<1>6. ASSUME NEW a \in Rotations, ReadDevice(a)
      PROVE  RotationTypes'
  BY <1>6 DEF ReadDevice, serverVars, agentVars, helperVars, faultVars
<1>7. ASSUME NEW a \in Rotations, UpdateDevice(a)
      PROVE  RotationTypes'
  BY <1>7, Zenon DEF UpdateDevice, agentVars, helperVars, faultVars
<1>8. ASSUME NEW a \in Rotations, UpdateFails(a)
      PROVE  RotationTypes'
  BY <1>8 DEF UpdateFails, serverVars, agentVars, helperVars, faultVars
<1>9. ASSUME NEW a \in Rotations, StartRotation(a)
      PROVE  RotationTypes'
  BY <1>9, Zenon DEF StartRotation, serverVars, helperVars, faultVars
<1>10. CASE RotationFails
  BY <1>10 DEF RotationFails, serverVars, requestVars, helperVars, faultVars
<1>11. CASE SetHelperToken
  BY <1>11 DEF SetHelperToken, serverVars, requestVars, helperVars, faultVars
<1>12. ASSUME NEW ok \in BOOLEAN, RotationSucceeds(ok)
       PROVE  RotationTypes'
  BY <1>12 DEF RotationSucceeds, serverVars, helperVars, faultVars
<1>13. ASSUME NEW ok \in BOOLEAN, SendHelperTokenUpdate(ok)
       PROVE  RotationTypes'
  BY <1>13, Zenon DEF SendHelperTokenUpdate, PushFails, SessionEnds, serverVars, requestVars, faultVars
<1>14. CASE AlreadyRotating
  BY <1>14, Zenon DEF AlreadyRotating, serverVars, requestVars, helperVars, faultVars
<1>15. CASE AgentRestarts
  BY <1>15, Zenon DEF AgentRestarts, SessionEnds, serverVars, requestVars
<1>16. ASSUME NEW ok \in BOOLEAN, HelperConnects(ok)
       PROVE  RotationTypes'
  BY <1>16, Zenon DEF HelperConnects, serverVars, requestVars, agentVars, faultVars
<1>17. CASE AuthenticatedReads
  BY <1>17 DEF AuthenticatedReads, serverVars, requestVars, agentVars, faultVars
<1>18. ASSUME NEW ok \in BOOLEAN, AuthenticatedPushes(ok)
       PROVE  RotationTypes'
  BY <1>18, Zenon DEF AuthenticatedPushes, PushFails, SessionEnds, serverVars, requestVars, agentVars, faultVars
<1>19. CASE HelperDrops
  BY <1>19, Zenon DEF HelperDrops, SessionEnds, serverVars, requestVars, agentVars
<1>20. CASE ConsoleSwitches
  BY <1>20 DEF ConsoleSwitches, serverVars, requestVars, agentVars, faultVars
<1>21. CASE HelperRestarts
  BY <1>21, Zenon DEF HelperRestarts, SessionEnds, serverVars, requestVars, agentVars
<1>22. CASE UNCHANGED vars
  BY <1>22 DEF vars, serverVars, requestVars, agentVars, helperVars, faultVars
<1>23. QED
  BY Zenon, <1>1, <1>2, <1>3, <1>4, <1>5, <1>6, <1>7, <1>8, <1>9, <1>10, <1>11, <1>12, <1>13, <1>14,
     <1>15, <1>16, <1>17, <1>18, <1>19, <1>20, <1>21, <1>22 DEF Next, RotationStep, HelperStep

\* Every step keeps the helper's variables in their types.
LEMMA HelperTypesStep == TypeOK /\ [Next]_vars => HelperTypes'
<1> SUFFICES ASSUME TypeOK, [Next]_vars
             PROVE  HelperTypes'
  OBVIOUS
<1> HelperTypes
  BY DEF TypeOK
<1> USE Ranges DEF HelperTypes
<1>1. CASE UNCHANGED <<retained, helperVars, drops>>
  BY <1>1 DEF helperVars
<1>2. CASE RotationFallsDue \/ GracePasses \/ Heartbeat \/ AlreadyRotating \/ RotationFails
  BY <1>1, <1>2 DEF RotationFallsDue, GracePasses, Heartbeat, AlreadyRotating, RotationFails,
     agentVars, faultVars
<1>3. ASSUME NEW a \in Rotations,
             \/ \E answer \in {"authed", "refused"} : Authenticate(a, answer)
             \/ RequestLost(a) \/ ReadDevice(a) \/ UpdateDevice(a) \/ UpdateFails(a)
             \/ StartRotation(a)
      PROVE  HelperTypes'
  BY <1>1, <1>3 DEF Authenticate, RequestLost, ReadDevice, UpdateDevice, UpdateFails, StartRotation,
     agentVars, faultVars
<1>4. ASSUME NEW ok \in BOOLEAN, RotationSucceeds(ok)
      PROVE  HelperTypes'
  BY <1>1, <1>4 DEF RotationSucceeds, faultVars
<1>5. CASE SetHelperToken
  BY <1>5 DEF SetHelperToken, TypeOK, RotationTypes, helperVars, faultVars
<1>6. ASSUME NEW ok \in BOOLEAN, SendHelperTokenUpdate(ok)
      PROVE  HelperTypes'
  BY <1>6, Zenon DEF SendHelperTokenUpdate, PushFails, SessionEnds, TypeOK, RotationTypes, faultVars
<1>7. CASE AgentRestarts
  BY <1>7, Zenon DEF AgentRestarts, SessionEnds, TypeOK, RotationTypes
<1>8. ASSUME NEW ok \in BOOLEAN, HelperConnects(ok)
      PROVE  HelperTypes'
  BY <1>8, Zenon DEF HelperConnects, agentVars, faultVars
<1>9. CASE AuthenticatedReads
  BY <1>9 DEF AuthenticatedReads, agentVars, faultVars
<1>10. ASSUME NEW ok \in BOOLEAN, AuthenticatedPushes(ok)
       PROVE  HelperTypes'
  BY <1>10, Zenon DEF AuthenticatedPushes, PushFails, SessionEnds, agentVars, faultVars
<1>11. CASE ConsoleSwitches
  BY <1>11 DEF ConsoleSwitches, agentVars, faultVars
<1>12. CASE HelperDrops \/ HelperRestarts
  BY <1>12, Zenon DEF HelperDrops, HelperRestarts, SessionEnds, agentVars
<1>13. CASE UNCHANGED vars
  BY <1>1, <1>13 DEF vars, agentVars, faultVars
<1>14. QED
  BY Zenon, <1>2, <1>3, <1>4, <1>5, <1>6, <1>7, <1>8, <1>9, <1>10, <1>11, <1>12, <1>13
  DEF Next, RotationStep, HelperStep

\* Every step keeps the variables in their types.
LEMMA TypeStep == TypeOK /\ [Next]_vars => TypeOK'
  BY RotationTypesStep, HelperTypesStep DEF TypeOK

\* Every step of the server, the agent and the helper preserves RotationInv.
LEMMA RotationInvStep == RotationInv /\ [Next]_vars => RotationInv'
<1> SUFFICES ASSUME RotationInv, [Next]_vars
             PROVE  RotationInv'
  OBVIOUS
<1> TypeOK'
  BY TypeStep DEF RotationInv
<1> USE Ranges DEF RotationInv, TypeOK, RotationTypes, AnswerMissed
<1>1. CASE RotationFallsDue
  BY <1>1 DEF RotationFallsDue, requestVars, agentVars, helperVars, faultVars
<1>2. CASE GracePasses
  BY <1>2 DEF GracePasses, requestVars, agentVars, helperVars, faultVars
<1>3. CASE Heartbeat
  BY <1>3 DEF Heartbeat, serverVars, requestVars, helperVars, faultVars
<1>4. ASSUME NEW a \in Rotations, NEW answer \in {"authed", "refused"}, Authenticate(a, answer)
      PROVE  RotationInv'
  BY <1>4 DEF Authenticate, serverVars, agentVars, helperVars, faultVars
<1>5. ASSUME NEW a \in Rotations, RequestLost(a)
      PROVE  RotationInv'
  BY <1>5 DEF RequestLost, serverVars, agentVars, helperVars, faultVars
<1>6. ASSUME NEW a \in Rotations, ReadDevice(a)
      PROVE  RotationInv'
  BY <1>6 DEF ReadDevice, serverVars, agentVars, helperVars, faultVars
<1>7. ASSUME NEW a \in Rotations, UpdateDevice(a)
      PROVE  RotationInv'
  BY <1>7 DEF UpdateDevice, agentVars, helperVars, faultVars
<1>8. ASSUME NEW a \in Rotations, UpdateFails(a)
      PROVE  RotationInv'
  BY <1>8 DEF UpdateFails, serverVars, agentVars, helperVars, faultVars
<1>9. ASSUME NEW a \in Rotations, StartRotation(a)
      PROVE  RotationInv'
  BY <1>9 DEF StartRotation, serverVars, helperVars, faultVars
<1>10. CASE RotationFails
  BY <1>10 DEF RotationFails, serverVars, requestVars, helperVars, faultVars
<1>11. CASE SetHelperToken
  BY <1>11 DEF SetHelperToken, serverVars, requestVars, helperVars, faultVars
<1>12. ASSUME NEW ok \in BOOLEAN, RotationSucceeds(ok)
       PROVE  RotationInv'
  BY <1>12 DEF RotationSucceeds, serverVars, helperVars, faultVars
<1>13. ASSUME NEW ok \in BOOLEAN, SendHelperTokenUpdate(ok)
       PROVE  RotationInv'
  BY <1>13 DEF SendHelperTokenUpdate, PushFails, SessionEnds, serverVars, requestVars, faultVars
<1>14. CASE AlreadyRotating
  BY <1>14 DEF AlreadyRotating, serverVars, requestVars, helperVars, faultVars
<1>15. CASE AgentRestarts
  BY <1>15, Zenon DEF AgentRestarts, SessionEnds, serverVars, requestVars
<1>16. ASSUME NEW ok \in BOOLEAN, HelperConnects(ok)
       PROVE  RotationInv'
  BY <1>16 DEF HelperConnects, serverVars, requestVars, agentVars, faultVars
<1>17. CASE AuthenticatedReads
  BY <1>17 DEF AuthenticatedReads, serverVars, requestVars, agentVars, faultVars
<1>18. ASSUME NEW ok \in BOOLEAN, AuthenticatedPushes(ok)
       PROVE  RotationInv'
  BY <1>18 DEF AuthenticatedPushes, PushFails, SessionEnds, serverVars, requestVars, agentVars, faultVars
<1>19. CASE HelperDrops
  BY <1>19 DEF HelperDrops, SessionEnds, serverVars, requestVars, agentVars
<1>20. CASE ConsoleSwitches
  BY <1>20 DEF ConsoleSwitches, serverVars, requestVars, agentVars, faultVars
<1>21. CASE HelperRestarts
  BY <1>21 DEF HelperRestarts, SessionEnds, serverVars, requestVars, agentVars
<1>22. CASE UNCHANGED vars
  BY <1>22 DEF vars, serverVars, requestVars, agentVars, helperVars, faultVars
<1>23. QED
  BY Zenon, <1>1, <1>2, <1>3, <1>4, <1>5, <1>6, <1>7, <1>8, <1>9, <1>10, <1>11, <1>12, <1>13, <1>14,
     <1>15, <1>16, <1>17, <1>18, <1>19, <1>20, <1>21, <1>22 DEF Next, RotationStep, HelperStep

\* RotationInv holds in every reachable state: the agent has the current
\* token, but for an answer under way, until it misses an answer.
THEOREM RotationInvHolds == Spec => []RotationInv
  BY RotationInvInit, RotationInvStep, PTL DEF Spec

\* The server accepts the agent's token through any number of rotations, lost
\* or failed requests, late handlers and restarts, unless the agent misses the
\* answer to a rotation or restarts without having saved its token.
THEOREM AgentStaysAccepted == Spec => []AgentAccepted
  BY RotationInvHolds, InvImpliesAccepted, PTL

-----------------------------------------------------------------------------
(* The helper's token. *)

LEMMA HelperInvInit == Init => HelperInv
  BY RotationInvInit DEF Init, HelperInv, HelperFollows, UpToDate, RotationInv

\* Every step preserves HelperInv.  The types are those of RotationInv.
LEMMA HelperInvStep == HelperInv /\ RotationInv' /\ [Next]_vars => HelperInv'
<1> SUFFICES ASSUME HelperInv, TypeOK', [Next]_vars
             PROVE  HelperInv'
  BY DEF RotationInv
<1> USE DEF HelperInv, HelperFollows, UpToDate
<1>1. CASE RotationFallsDue \/ GracePasses
  BY <1>1 DEF RotationFallsDue, GracePasses, agentVars, helperVars
<1>2. CASE Heartbeat \/ AlreadyRotating
  BY <1>2 DEF Heartbeat, AlreadyRotating, helperVars
<1>3. ASSUME NEW a \in Rotations,
             \/ \E answer \in {"authed", "refused"} : Authenticate(a, answer)
             \/ RequestLost(a) \/ ReadDevice(a) \/ UpdateDevice(a) \/ UpdateFails(a)
      PROVE  HelperInv'
  BY <1>3 DEF Authenticate, RequestLost, ReadDevice, UpdateDevice, UpdateFails, agentVars, helperVars
<1>4. ASSUME NEW a \in Rotations, StartRotation(a)
      PROVE  HelperInv'
  BY <1>4 DEF StartRotation, helperVars
<1>5. CASE RotationFails
  BY <1>5 DEF RotationFails, helperVars
<1>6. CASE SetHelperToken
  BY <1>6 DEF SetHelperToken, helperVars
<1>7. ASSUME NEW ok \in BOOLEAN, RotationSucceeds(ok)
      PROVE  HelperInv'
  BY <1>7 DEF RotationSucceeds, helperVars
<1>8. ASSUME NEW ok \in BOOLEAN, SendHelperTokenUpdate(ok)
      PROVE  HelperInv'
  BY <1>8 DEF SendHelperTokenUpdate, PushFails, SessionEnds
<1>9. CASE AgentRestarts \/ HelperDrops \/ HelperRestarts
  BY <1>9 DEF AgentRestarts, HelperDrops, HelperRestarts, SessionEnds, agentVars
<1>10. CASE ConsoleSwitches
  BY <1>10 DEF ConsoleSwitches, agentVars
<1>11. ASSUME NEW ok \in BOOLEAN, AuthenticatedPushes(ok)
       PROVE  HelperInv'
  BY <1>11, Zenon DEF AuthenticatedPushes, PushFails, SessionEnds, agentVars
<1>12. ASSUME NEW ok \in BOOLEAN, HelperConnects(ok)
       PROVE  HelperInv'
  BY <1>12 DEF HelperConnects, agentVars
<1>13. CASE AuthenticatedReads
  BY <1>13, Zenon DEF AuthenticatedReads, agentVars, TypeOK, HelperTypes
<1>14. CASE UNCHANGED vars
  BY <1>14 DEF vars, agentVars, helperVars
<1> HIDE DEF HelperInv
<1>15. QED
  BY Zenon, <1>1, <1>2, <1>3, <1>4, <1>5, <1>6, <1>7, <1>8, <1>9, <1>10, <1>11, <1>12, <1>13, <1>14
  DEF Next, RotationStep, HelperStep

\* HelperInv holds in every reachable state.
THEOREM HelperInvHolds == Spec => []HelperInv
<1>1. HelperInv /\ [Next]_vars /\ RotationInv' => HelperInv'
  BY HelperInvStep
<1>2. QED
  BY <1>1, HelperInvInit, RotationInvHolds, PTL DEF Spec

\* A helper session that has had its push holds the token the agent retains, if
\* there is one, unless a rotation's push went out before the older one of its
\* connection, or a push found the session off the console and was withheld.
THEOREM HelperFollowsTheAgent == Spec => []HelperFollows
<1>1. HelperInv => HelperFollows
  BY DEF HelperInv
<1>2. QED
  BY <1>1, HelperInvHolds, PTL
=============================================================================
