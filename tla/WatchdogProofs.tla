--------------------------- MODULE WatchdogProofs ---------------------------
(***************************************************************************)
(* Proofs about Watchdog for any budgets and any number of restarts,       *)
(* crashes and commands.                                                   *)
(***************************************************************************)
EXTENDS Watchdog, FiniteSetTheorems, WellFoundedInduction, TLAPS

-----------------------------------------------------------------------------
(* The restart history *)

\* Parts of 1..k are finite.
LEMMA HistoryFinite ==
    ASSUME NEW k \in Nat, NEW S \in SUBSET (1..k)
    PROVE  IsFiniteSet(S) /\ Cardinality(S) \in Nat
<1>1. IsFiniteSet(1..k)
  BY FS_Interval
<1>2. IsFiniteSet(S)
  BY <1>1, FS_Subset, Zenon
<1> QED
  BY <1>2, FS_CardinalityType

\* Cutting the history removes at most its oldest entry.
LEMMA CutsOldest ==
    ASSUME NEW k \in Nat, NEW S \in SUBSET (1..k), Cardinality(S) > HistoryCap
    PROVE  Cardinality(Recorded(S)) >= HistoryCap
<1> USE WatchdogAssumption
<1>1. IsFiniteSet(S) /\ Cardinality(S) \in Nat
  BY HistoryFinite
<1>2. CASE Oldest(S) = {}
  BY <1>1, <1>2 DEF Recorded
<1>3. ASSUME NEW x \in Oldest(S) PROVE Cardinality(Recorded(S)) >= HistoryCap
  <2>1. x \in S /\ x \in Nat
    BY <1>3 DEF Oldest
  <2>a. \A y \in Oldest(S) : y = x
    <3> SUFFICES ASSUME NEW y \in Oldest(S) PROVE y = x
      OBVIOUS
    <3>1. y \in S /\ y \in Nat
      BY DEF Oldest
    <3>2. y <= x /\ x <= y
      BY <1>3, <2>1, <3>1 DEF Oldest
    <3> QED
      BY <2>1, <3>1, <3>2
  <2>b. Oldest(S) = {x}
    BY <1>3, <2>a
  <2>2. Recorded(S) = S \ {x}
    BY <2>b DEF Recorded
  <2>3. Cardinality(S \ {x}) = Cardinality(S) - 1
    BY <1>1, <2>1, FS_RemoveElement, Zenon
  <2> QED
    BY <1>1, <2>2, <2>3
<1> QED
  BY <1>2, <1>3

\* Recording restart k + 1 keeps restart a in the history, or with HistoryCap
\* restarts after it.
LEMMA RecordAccounts ==
    ASSUME NEW k \in Nat, NEW S \in SUBSET (1..k), NEW a \in 1..(k + 1),
           \/ a = k + 1
           \/ a \in S
           \/ Cardinality(S) >= HistoryCap /\ \A m \in S : m > a
    PROVE  \/ a \in Recorded(S \cup {k + 1})
           \/ /\ Cardinality(Recorded(S \cup {k + 1})) >= HistoryCap
              /\ \A m \in Recorded(S \cup {k + 1}) : m > a
<1> USE WatchdogAssumption
<1> DEFINE R == S \cup {k + 1}
<1>1. R \in SUBSET (1..(k + 1)) /\ k + 1 \in Nat /\ k + 1 \notin S
  <2>1. \A i \in S : i \in Nat /\ 1 <= i /\ i <= k
    OBVIOUS
  <2> QED
    BY <2>1
<1>2. Recorded(R) \subseteq R
  BY DEF Recorded
<1>3. IsFiniteSet(S) /\ Cardinality(S) \in Nat
  BY HistoryFinite, Zenon
<1>4. Cardinality(R) = Cardinality(S) + 1
  BY <1>1, <1>3, FS_AddElement
<1> HIDE DEF R
<1>5. CASE a \in R /\ a \notin Recorded(R)
  <2>1. Cardinality(R) > HistoryCap /\ a \in Oldest(R)
    BY <1>5 DEF Recorded
  <2>2. Cardinality(Recorded(R)) >= HistoryCap
    BY <1>1, <2>1, CutsOldest
  <2>3. ASSUME NEW m \in Recorded(R) PROVE m > a
    <3>a. m \in R /\ m # a
      BY <1>2, <1>5, <2>3
    <3>1. m \in R /\ m # a /\ m \in Nat /\ a \in Nat
      BY <1>1, <3>a
    <3>2. a <= m
      BY <2>1, <3>1 DEF Oldest
    <3> QED
      BY <3>1, <3>2
  <2> QED
    BY <2>2, <2>3 DEF R
<1>6. CASE a \notin R
  <2>1. Cardinality(S) >= HistoryCap /\ \A m \in S : m > a
    BY <1>6 DEF R
  <2>2. Cardinality(R) > HistoryCap
    BY <1>3, <1>4, <2>1
  <2>3. Cardinality(Recorded(R)) >= HistoryCap
    BY <1>1, <2>2, CutsOldest
  <2>4. a # k + 1
    BY <1>6 DEF R
  <2>5. k + 1 > a
    BY <2>4
  <2>6. \A m \in Recorded(R) : m > a
    BY <1>2, <2>1, <2>5, Zenon DEF R
  <2> QED
    BY <2>3, <2>6 DEF R
<1> QED
  BY <1>5, <1>6 DEF R

Accounted(S, a) ==
    \/ a \in S
    \/ Cardinality(Recent(S)) >= HistoryCap /\ \A m \in S : m > a

-----------------------------------------------------------------------------
(* The 24-hour budget *)

\* A recorded restart keeps the recent automatic restarts accounted for, and
\* within the budget when it is an automatic one that the gate let through.
LEMMA RecordKeepsBudget ==
    ASSUME BudgetInv, wd = "up", ~lost, n' = n + 1, old' = old,
           Kept' = Recorded(Recent(mem) \cup {n + 1}),
           auto' = auto \/ (auto' = auto \cup {n + 1} /\ Count24h < MaxRestartsPer24h)
    PROVE  /\ \A a \in auto' : a > old => Accounted(Kept, a)'
           /\ Cardinality(Recent(auto)') <= MaxRestartsPer24h
<1> USE WatchdogAssumption
<1> DEFINE S == Recent(mem)
           R == Recorded(S \cup {n + 1})
<1>1. n \in Nat /\ old \in Nat /\ old <= n /\ mem \subseteq 1..n /\ auto \subseteq 1..n /\ Kept = mem
  BY DEF BudgetInv, HistoryOK, Kept
<1>2. S \in SUBSET (1..n) /\ \A i \in S : i > old
  BY <1>1, Zenon DEF Recent
<1>3. R \subseteq S \cup {n + 1}
  BY DEF Recorded
<1>4. \A i \in R : i > old
  BY <1>1, <1>2, <1>3
<1>5. Recent(Kept)' = R
  BY <1>4 DEF Recent
<1>6. \A a \in auto : a > old => a \in mem \/ (Cardinality(S) >= HistoryCap /\ \A m \in mem : m > a)
  BY <1>1 DEF BudgetInv
<1>7. IsFiniteSet(S) /\ Cardinality(S) \in Nat /\ IsFiniteSet(auto)
  BY <1>1, <1>2, HistoryFinite, Zenon
<1> HIDE DEF S, R
<1>8. ASSUME NEW a \in auto', a > old PROVE Accounted(Kept, a)'
  <2>a. 1..n \subseteq 1..(n + 1) /\ n + 1 \in 1..(n + 1)
    BY <1>1
  <2>1. a \in 1..(n + 1)
    BY <1>1, <1>8, <2>a, Zenon
  <2>2. \/ a = n + 1
        \/ a \in S
        \/ Cardinality(S) >= HistoryCap /\ \A m \in S : m > a
    <3>1. CASE a \in auto
      BY <1>6, <1>8, <3>1 DEF S, Recent
    <3>2. CASE a = n + 1
      BY <3>2
    <3> QED
      BY <3>1, <3>2
  <2>3. \/ a \in R
        \/ Cardinality(R) >= HistoryCap /\ \A m \in R : m > a
    BY <1>1, <1>2, <2>1, <2>2, RecordAccounts, Zenon DEF R
  <2> QED
    BY <1>5, <2>3 DEF Accounted, R, S
<1>9. Cardinality(Recent(auto)') <= MaxRestartsPer24h
  <2>1. CASE auto' = auto
    BY <2>1 DEF BudgetInv, RestartBudget, Recent
  <2>2. CASE auto' = auto \cup {n + 1} /\ Count24h < MaxRestartsPer24h
    <3>1. Cardinality(S) < MaxRestartsPer24h
      BY <2>2 DEF Count24h, S
    <3>2. Recent(auto) \subseteq S
      BY <1>6, <1>7, <3>1 DEF S, Recent
    <3>3. IsFiniteSet(Recent(auto)) /\ Cardinality(Recent(auto)) <= Cardinality(S)
      BY <1>7, <3>2, FS_Subset
    <3>4. Recent(auto)' = Recent(auto) \cup {n + 1}
      BY <1>1, <2>2 DEF Recent
    <3>5. Cardinality(Recent(auto)) \in Nat
      BY <3>3, FS_CardinalityType
    <3>6. Cardinality(Recent(auto) \cup {n + 1}) <= Cardinality(Recent(auto)) + 1
      BY <3>3, <3>5, FS_AddElement
    <3>7. Cardinality(Recent(auto) \cup {n + 1}) \in Nat
      BY <3>3, FS_AddElement, FS_CardinalityType
    <3> QED
      BY <1>7, <3>1, <3>3, <3>4, <3>5, <3>6, <3>7
  <2> QED
    BY <2>1, <2>2
<1> QED
  BY <1>8, <1>9, Zenon

\* What the state-driven switch does to the restart history.
LEMMA SwitchHistory ==
    ASSUME NEW st, NEW box, NEW lv, StateDriven(st, box, lv)
    PROVE  /\ UNCHANGED <<wd, old, lost>>
           /\ \/ UNCHANGED <<n, mem, disk, auto, unsaved>>
              \/ Record(TRUE) /\ Count24h < MaxRestartsPer24h
              \/ Record(FALSE)
<1>1. UNCHANGED <<wd, old, lost>>
  BY DEF StateDriven
<1>2. CASE Recover(st, box, lv)
  BY <1>1, <1>2, Zenon DEF Recover, Attempt, CanRestart
<1>3. CASE EnterFailover(st, box, lv)
  BY <1>1, <1>3, Zenon DEF EnterFailover, HandleFailoverCommand, Attempt, NothingRecorded
<1>4. CASE \/ AwaitVerification(st, box, lv) \/ GiveUp(st, box, lv) \/ Standby(st, box, lv)
           \/ Monitor(st, box, lv) \/ Connecting(st, box, lv)
  BY <1>1, <1>4, Zenon DEF AwaitVerification, GiveUp, Standby, Monitor, Connecting, NothingRecorded
<1> QED
  BY <1>2, <1>3, <1>4, Zenon DEF StateDriven

\* A switch keeps the budget.
LEMMA SwitchKeepsBudget ==
    ASSUME BudgetInv, wd = "up", UNCHANGED <<wd, old, lost>>,
           \/ UNCHANGED <<n, mem, disk, auto, unsaved>>
           \/ Record(TRUE) /\ Count24h < MaxRestartsPer24h
           \/ Record(FALSE)
    PROVE  BudgetInv'
<1>1. CASE UNCHANGED <<n, mem, disk, auto, unsaved>>
  BY <1>1 DEF BudgetInv, HistoryOK, Kept, RestartBudget, Recent
<1>2. CASE (Record(TRUE) /\ Count24h < MaxRestartsPer24h) \/ Record(FALSE)
  <2> DEFINE R == Recorded(Recent(mem) \cup {n + 1})
  <2>1. /\ n' = n + 1 /\ mem' = R /\ (disk' = R \/ (disk' = disk /\ unsaved'))
        /\ auto' = auto \/ (auto' = auto \cup {n + 1} /\ Count24h < MaxRestartsPer24h)
    BY <1>2 DEF Record
  <2>2. Kept' = R
    BY <2>1 DEF Kept
  <2>3. R \subseteq Recent(mem) \cup {n + 1}
    BY DEF Recorded
  <2>a. n \in Nat /\ old \in Nat /\ old <= n /\ mem \subseteq 1..n /\ disk \subseteq 1..n /\ auto \subseteq 1..n
    BY DEF BudgetInv, HistoryOK
  <2>b. 1..n \subseteq 1..(n + 1) /\ n + 1 \in 1..(n + 1) /\ n + 1 \in Nat /\ old \in 0..(n + 1)
    BY <2>a
  <2> HIDE DEF R
  <2>4. R \subseteq 1..(n + 1)
    BY <2>3, <2>a, <2>b, Zenon DEF Recent
  <2>5. HistoryOK'
    <3>1. mem' \subseteq 1..(n + 1) /\ disk' \subseteq 1..(n + 1) /\ auto' \subseteq 1..(n + 1)
      BY <2>1, <2>4, <2>a, <2>b, Zenon
    <3> QED
      BY <2>1, <2>b, <3>1 DEF HistoryOK
  <2>6. (wd = "up" /\ ~unsaved => disk = mem)'
    BY <2>1
  <2>7. ASSUME ~lost
        PROVE  /\ \A a \in auto' : a > old => Accounted(Kept, a)'
               /\ Cardinality(Recent(auto)') <= MaxRestartsPer24h
    BY <2>1, <2>2, <2>7, RecordKeepsBudget DEF R
  <2> QED
    BY <2>5, <2>6, <2>7 DEF BudgetInv, RestartBudget, Accounted
<1> QED
  BY <1>1, <1>2, Zenon

\* Before the first start nothing was restarted.
LEMMA BudgetInit == Init => BudgetInv
<1> SUFFICES ASSUME Init PROVE BudgetInv
  OBVIOUS
<1>1. Recent(auto) = {} /\ auto = {}
  BY DEF Init, Recent
<1>2. Cardinality(Recent(auto)) = 0
  BY <1>1, FS_EmptySet
<1> QED
  BY <1>1, <1>2, WatchdogAssumption DEF Init, BudgetInv, HistoryOK, RestartBudget, Kept

\* A restart that passes the 24 hours leaves the others accounted for: those
\* that were pushed out are older still.
LEMMA AgeingKeepsBudget == BudgetInv /\ RestartAges => BudgetInv'
<1> SUFFICES ASSUME BudgetInv, RestartAges PROVE BudgetInv'
  OBVIOUS
<1>1. old' = old + 1 /\ old < n /\ UNCHANGED <<wd, n, mem, disk, auto, unsaved, lost>>
  BY DEF RestartAges, loopVars
<1>2. n \in Nat /\ old \in Nat /\ mem \subseteq 1..n /\ disk \subseteq 1..n /\ auto \subseteq 1..n
  BY DEF BudgetInv, HistoryOK
<1>3. HistoryOK'
  BY <1>1, <1>2 DEF BudgetInv, HistoryOK
<1>4. (wd = "up" /\ ~unsaved /\ ~lost => disk = mem)'
  BY <1>1 DEF BudgetInv
<1>5. Kept' = Kept /\ Kept \subseteq 1..n
  BY <1>1, <1>2 DEF Kept
<1>6. ASSUME ~lost, NEW a \in auto, a > old + 1 PROVE Accounted(Kept, a)'
  <2>1. a \in Nat /\ a > old
    BY <1>2, <1>6
  <2>2. CASE a \in Kept
    BY <1>5, <2>2 DEF Accounted
  <2>3. CASE Cardinality(Recent(Kept)) >= HistoryCap /\ \A m \in Kept : m > a
    <3>1. \A m \in Kept : m \in Nat /\ m > old + 1 /\ m > old
      BY <1>2, <1>5, <1>6, <2>1, <2>3
    <3>2. Recent(Kept)' = Recent(Kept)
      BY <1>1, <1>5, <3>1, Zenon DEF Recent
    <3> QED
      BY <1>5, <2>3, <3>2 DEF Accounted
  <2> QED
    BY <1>6, <2>1, <2>2, <2>3 DEF BudgetInv
<1>7. RestartBudget'
  <2> SUFFICES ASSUME ~lost PROVE Cardinality(Recent(auto)') <= MaxRestartsPer24h
    BY <1>1 DEF RestartBudget
  <2>a. \A a \in auto : a > old + 1 => a > old
    BY <1>2
  <2>b. Recent(auto)' \subseteq Recent(auto)
    <3>1. Recent(auto)' = {i \in auto : i > old + 1}
      BY <1>1 DEF Recent
    <3> QED
      BY <2>a, <3>1, Zenon DEF Recent
  <2>1. Recent(auto)' \subseteq Recent(auto) /\ Recent(auto) \in SUBSET (1..n)
    BY <1>2, <2>b, Zenon DEF Recent
  <2>2. IsFiniteSet(Recent(auto)) /\ Cardinality(Recent(auto)) \in Nat
    BY <1>2, <2>1, HistoryFinite, Zenon
  <2>3. Cardinality(Recent(auto)') <= Cardinality(Recent(auto)) /\ IsFiniteSet(Recent(auto)')
    BY <2>1, <2>2, FS_Subset
  <2>4. Cardinality(Recent(auto)') \in Nat
    BY <2>3, FS_CardinalityType
  <2>5. Cardinality(Recent(auto)) <= MaxRestartsPer24h
    BY DEF BudgetInv, RestartBudget
  <2> QED
    BY <2>2, <2>3, <2>4, <2>5, WatchdogAssumption
<1> QED
  BY <1>1, <1>3, <1>4, <1>6, <1>7 DEF BudgetInv, Accounted

\* Death in Attempt records the restart in the file, or loses the history.
LEMMA DeathKeepsBudget == BudgetInv /\ DiesInAttempt => BudgetInv'
<1> SUFFICES ASSUME BudgetInv, DiesInAttempt PROVE BudgetInv'
  OBVIOUS
<1> DEFINE R == Recorded(Recent(mem) \cup {n + 1})
<1>1. /\ wd = "up" /\ wd' = "down" /\ old' = old /\ n' = n + 1 /\ mem' = {}
      /\ auto' = auto \cup {n + 1} /\ Count24h < MaxRestartsPer24h
      /\ (disk' = R /\ lost' = lost) \/ (disk' = disk /\ lost')
  BY DEF DiesInAttempt, MemoryGone, CanRestart
<1>2. n \in Nat /\ old \in Nat /\ old <= n /\ mem \subseteq 1..n /\ disk \subseteq 1..n /\ auto \subseteq 1..n
  BY DEF BudgetInv, HistoryOK
<1>3. 1..n \subseteq 1..(n + 1) /\ n + 1 \in 1..(n + 1) /\ n + 1 \in Nat /\ old \in 0..(n + 1)
  BY <1>2
<1>4. R \subseteq Recent(mem) \cup {n + 1}
  BY DEF Recorded
<1> HIDE DEF R
<1>5. disk' \subseteq 1..(n + 1) /\ auto' \subseteq 1..(n + 1)
  BY <1>1, <1>2, <1>3, <1>4, Zenon DEF Recent
<1>6. HistoryOK'
  BY <1>1, <1>3, <1>5 DEF HistoryOK
<1>7. ASSUME ~lost'
      PROVE  /\ \A a \in auto' : a > old => Accounted(Kept, a)'
             /\ Cardinality(Recent(auto)') <= MaxRestartsPer24h
  <2>1. disk' = R /\ ~lost
    BY <1>1, <1>7
  <2>2. Kept' = R
    BY <1>1, <2>1 DEF Kept
  <2> QED
    BY <1>1, <2>1, <2>2, RecordKeepsBudget DEF R
<1> QED
  BY <1>1, <1>6, <1>7 DEF BudgetInv, RestartBudget, Accounted

\* Every step of the watchdog, the agent and time keeps the budget.
LEMMA BudgetStep == BudgetInv /\ [Next]_vars => BudgetInv'
<1> SUFFICES ASSUME BudgetInv, [Next]_vars PROVE BudgetInv'
  OBVIOUS
<1>1. CASE Loop
  <2>1. CASE ProcessTick
    BY <2>1, SwitchHistory, SwitchKeepsBudget, Zenon DEF ProcessTick
  <2>2. CASE PingTick
    BY <2>2, SwitchHistory, SwitchKeepsBudget, Zenon DEF PingTick
  <2>3. CASE ConnectTick
    BY <2>3, SwitchHistory, SwitchKeepsBudget, Zenon DEF ConnectTick
  <2>4. CASE HeartbeatTick
    BY <2>4, SwitchHistory, SwitchKeepsBudget, Zenon DEF HeartbeatTick
  <2>5. CASE HandleIntent
    BY <2>5, SwitchHistory, SwitchKeepsBudget, Zenon DEF HandleIntent
  <2>6. CASE HandleToken
    BY <2>6, SwitchHistory, SwitchKeepsBudget, Zenon DEF HandleToken
  <2>7. CASE PongArrives
    BY <2>7, SwitchHistory, SwitchKeepsBudget, Zenon DEF PongArrives
  <2>8. CASE FailoverTick
    <3>1. PICK cmd \in Commands : HandleFailoverCommand(cmd, inbox, live)
      BY <2>8 DEF FailoverTick
    <3>2. UNCHANGED <<n, mem, disk, auto, unsaved>> \/ Record(FALSE)
      BY <3>1, Zenon DEF HandleFailoverCommand, Attempt, NothingRecorded
    <3> QED
      BY <2>8, <3>2, SwitchKeepsBudget, Zenon DEF FailoverTick
  <2> QED
    BY <1>1, <2>1, <2>2, <2>3, <2>4, <2>5, <2>6, <2>7, <2>8 DEF Loop
<1>2. CASE DiesInAttempt
  BY <1>2, DeathKeepsBudget
<1>3. CASE RestartAges
  BY <1>3, AgeingKeepsBudget
<1>4. CASE WatchdogDies
  <2>1. /\ wd = "up" /\ wd' = "down" /\ (lost' = (lost \/ unsaved)) /\ mem' = {}
        /\ UNCHANGED <<n, old, disk, auto>>
    BY <1>4 DEF WatchdogDies, MemoryGone
  <2>2. ~lost' => ~lost /\ Kept' = Kept
    BY <2>1, Zenon DEF Kept, BudgetInv
  <2> QED
    BY <2>1, <2>2 DEF BudgetInv, HistoryOK, RestartBudget, Recent
<1>5. CASE WatchdogStarts
  <2>1. /\ wd = "down" /\ wd' = "up" /\ mem' \in {disk, {}} /\ (lost' = (lost \/ mem' # disk))
        /\ UNCHANGED <<n, old, disk, auto, unsaved>>
    BY <1>5 DEF WatchdogStarts, LoadHistory
  <2>2. ~lost' => ~lost /\ mem' = disk /\ Kept' = Kept
    BY <2>1, Zenon DEF Kept
  <2> QED
    BY <2>1, <2>2 DEF BudgetInv, HistoryOK, RestartBudget, Recent
<1>6. CASE \/ ReadLoopError \/ Heartbeat \/ AgentCrashes \/ AgentHangs \/ AgentAnnouncesStop
           \/ AgentExits \/ AgentStarts \/ BeatAges \/ VerificationAges \/ CooldownPasses
           \/ StandbyPasses \/ UNCHANGED vars
  <2>1. UNCHANGED <<wd, n, old, mem, disk, auto, unsaved, lost>>
    BY <1>6, SMTT(20) DEF ReadLoopError, Heartbeat, AgentCrashes, AgentHangs, AgentAnnouncesStop, AgentExits,
                AgentStarts, BeatAges, VerificationAges, CooldownPasses, StandbyPasses,
                vars, histVars, loopVars
  <2> QED
    BY <2>1 DEF BudgetInv, HistoryOK, RestartBudget, Recent, Kept
<1> QED
  BY <1>1, <1>2, <1>3, <1>4, <1>5, <1>6 DEF Next

\* The recovery loop restarts the agent at most MaxRestartsPer24h times in 24
\* hours, through every crash and restart of the watchdog itself, unless the
\* history file could not be written before such a crash or read after it.
THEOREM RestartsWithinBudget == Spec => []RestartBudget
<1>1. BudgetInv => RestartBudget
  BY DEF BudgetInv
<1> QED
  BY <1>1, BudgetInit, BudgetStep, PTL DEF Spec

-----------------------------------------------------------------------------
(* Verification of a restart *)

\* A verified restart had a heartbeat after it.
VerificationInv == verified => beatSince /\ pending # "none"

\* The only events that take RECOVERING to MONITORING.
LEMMA RecoveringToMonitoring ==
    ASSUME NEW e, e \in {"agent_unhealthy", "shutdown_intent", "recovery_exhausted", "start_agent"}
    PROVE  HandleEvent("RECOVERING", e) \in {"RECOVERING", "FAILOVER"}
<1>1. \A t \in Transitions : t[1] = "RECOVERING" /\ t[2] = e => t[3] = "FAILOVER"
  BY DEF Transitions
<1>2. CASE \E t \in Transitions : t[1] = "RECOVERING" /\ t[2] = e
  <2> DEFINE c == CHOOSE t \in Transitions : t[1] = "RECOVERING" /\ t[2] = e
  <2>1. c \in Transitions /\ c[1] = "RECOVERING" /\ c[2] = e
    BY <1>2
  <2>2. HandleEvent("RECOVERING", e) = c[3]
    BY <1>2 DEF HandleEvent
  <2> QED
    BY <1>1, <2>1, <2>2
<1>3. CASE ~(\E t \in Transitions : t[1] = "RECOVERING" /\ t[2] = e)
  BY <1>3 DEF HandleEvent
<1> QED
  BY <1>2, <1>3

\* The switch leaves RECOVERING for MONITORING only on a verified restart.
LEMMA SwitchVerifies ==
    ASSUME NEW st, NEW box, NEW lv, StateDriven(st, box, lv), st \in {"RECOVERING", "FAILOVER"},
           state' = "MONITORING", VerificationInv
    PROVE  beatSince
<1>1. CASE AwaitVerification(st, box, lv)
  BY <1>1 DEF AwaitVerification, Verified, VerificationInv
<1>2. CASE GiveUp(st, box, lv)
  BY <1>2, RecoveringToMonitoring DEF GiveUp
<1>3. CASE Recover(st, box, lv) \/ EnterFailover(st, box, lv)
  BY <1>3, Zenon DEF Recover, EnterFailover
<1>4. CASE Standby(st, box, lv) \/ Monitor(st, box, lv) \/ Connecting(st, box, lv)
  BY <1>4 DEF Standby, Monitor, Connecting
<1> QED
  BY <1>1, <1>2, <1>3, <1>4 DEF StateDriven

\* The flag that a heartbeat sets survives only with its restart.
LEMMA VerificationStep == VerificationInv /\ [Next]_vars => VerificationInv'
<1> SUFFICES ASSUME VerificationInv, [Next]_vars PROVE VerificationInv'
  OBVIOUS
<1>1. ASSUME NEW st, NEW box, NEW lv, StateDriven(st, box, lv) PROVE VerificationInv'
  BY <1>1, Zenon DEF StateDriven, VerificationInv
<1>2. CASE Loop
  BY <1>1, <1>2 DEF Loop, ProcessTick, PingTick, ConnectTick, HeartbeatTick, HandleIntent, HandleToken,
                   PongArrives, FailoverTick, VerificationInv
<1>3. CASE WatchdogDies \/ DiesInAttempt
  BY <1>3 DEF WatchdogDies, DiesInAttempt, MemoryGone, VerificationInv
<1>4. CASE Heartbeat
  BY <1>4, Zenon DEF Heartbeat, VerificationInv
<1>5. CASE VerificationAges
  BY <1>5 DEF VerificationAges, VerificationInv, histVars
<1>6. CASE \/ WatchdogStarts \/ ReadLoopError \/ AgentCrashes \/ AgentHangs \/ AgentAnnouncesStop
           \/ AgentExits \/ AgentStarts \/ BeatAges \/ CooldownPasses
           \/ StandbyPasses \/ RestartAges \/ UNCHANGED vars
  <2>1. UNCHANGED <<verified, beatSince, pending>>
    BY <1>6, SMTT(20) DEF WatchdogStarts, ReadLoopError, AgentCrashes, AgentHangs, AgentAnnouncesStop, AgentExits,
                AgentStarts, BeatAges, CooldownPasses, StandbyPasses, RestartAges,
                vars, histVars, loopVars
  <2> QED
    BY <2>1 DEF VerificationInv
<1> QED
  BY <1>2, <1>3, <1>4, <1>5, <1>6 DEF Next

\* The watchdog leaves RECOVERING without a new connection only when the agent
\* sent a heartbeat after the last automatic restart.
THEOREM RecoveryIsVerified == Spec => VerifiedByHeartbeat
<1>1. Init => VerificationInv
  BY DEF Init, VerificationInv
<1>2. VerificationInv /\ [Next]_vars =>
        [(state = "RECOVERING" /\ state' = "MONITORING" /\ wd = "up" /\ ~(connected' /\ ~connected))
           => beatSince]_vars
  <2> SUFFICES ASSUME VerificationInv, Next, state = "RECOVERING", state' = "MONITORING", wd = "up",
                      ~(connected' /\ ~connected)
               PROVE  beatSince
    OBVIOUS
  <2>1. HandleEvent(state, "agent_unhealthy") \in {"RECOVERING", "FAILOVER"}
    BY RecoveringToMonitoring
  <2>2. HandleEvent(state, "shutdown_intent") \in {"RECOVERING", "FAILOVER"}
    BY RecoveringToMonitoring
  <2>3. CASE ProcessTick
    BY <2>1, <2>3, SwitchVerifies DEF ProcessTick
  <2>4. CASE PingTick
    BY <2>1, <2>4, SwitchVerifies DEF PingTick
  <2>5. CASE ConnectTick
    <3>1. ~connected /\ agent # "up" /\ StateDriven(state, inbox, agent = "up")
      BY <2>5, Zenon DEF ConnectTick
    <3> QED
      BY <3>1, SwitchVerifies
  <2>6. CASE HeartbeatTick
    BY <2>1, <2>6, SwitchVerifies DEF HeartbeatTick
  <2>7. CASE HandleIntent
    BY <2>2, <2>7, SwitchVerifies DEF HandleIntent
  <2>8. CASE HandleToken \/ PongArrives
    BY <2>8, SwitchVerifies DEF HandleToken, PongArrives
  <2>9. CASE FailoverTick \/ WatchdogDies \/ DiesInAttempt \/ WatchdogStarts
    BY <2>9 DEF FailoverTick, WatchdogDies, DiesInAttempt, WatchdogStarts, MemoryGone
  <2>10. CASE \/ ReadLoopError \/ Heartbeat \/ AgentCrashes \/ AgentHangs \/ AgentAnnouncesStop
              \/ AgentExits \/ AgentStarts \/ BeatAges \/ VerificationAges \/ CooldownPasses
              \/ StandbyPasses \/ RestartAges
    <3>1. UNCHANGED state
      BY <2>10, SMTT(20) DEF ReadLoopError, Heartbeat, AgentCrashes, AgentHangs, AgentAnnouncesStop, AgentExits,
                   AgentStarts, BeatAges, VerificationAges, CooldownPasses, StandbyPasses, RestartAges,
                   loopVars
    <3> QED
      BY <3>1
  <2> QED
    BY <2>3, <2>4, <2>5, <2>6, <2>7, <2>8, <2>9, <2>10 DEF Next, Loop
<1> QED
  BY <1>1, <1>2, VerificationStep, PTL DEF Spec, VerifiedByHeartbeat
-----------------------------------------------------------------------------
(* Types, and the size of the restart history *)

\* A set of natural numbers that is not empty has a smallest element.
LEMMA SmallestElement ==
    ASSUME NEW S \in SUBSET Nat, S # {}
    PROVE  \E x \in S : \A y \in S : x <= y
<1> DEFINE Less == {ss \in Nat \X Nat : ss[1] < ss[2]}
<1>1. IsWellFoundedOn(Less, Nat)
  BY NatLessThanWellFounded DEF OpToRel
<1>2. ASSUME NEW x \in S, NEW y \in S, ~(<<y, x>> \in Less) PROVE x <= y
  BY <1>2
<1> HIDE DEF Less
<1>3. \E x \in S : \A y \in S : ~(<<y, x>> \in Less)
  BY <1>1, WFMin, Zenon
<1> QED
  BY <1>2, <1>3, Zenon

\* recordRestart keeps a history that is within the cap within it.
LEMMA RecordedWithinCap ==
    ASSUME NEW k \in Nat, NEW S \in SUBSET (1..k), Cardinality(S) <= HistoryCap
    PROVE  Cardinality(Recorded(S \cup {k + 1})) <= HistoryCap
<1> USE WatchdogAssumption
<1> DEFINE R == S \cup {k + 1}
<1>1. IsFiniteSet(S) /\ Cardinality(S) \in Nat
  BY HistoryFinite, Zenon
<1>a. k + 1 \notin S
  <2>1. \A i \in S : i \in Nat /\ i <= k
    OBVIOUS
  <2> QED
    BY <2>1
<1>2. IsFiniteSet(R) /\ Cardinality(R) = Cardinality(S) + 1
  BY <1>1, <1>a, FS_AddElement
<1>3. Cardinality(R) \in Nat
  BY <1>2, FS_CardinalityType
<1>4. R \in SUBSET Nat /\ R # {}
  OBVIOUS
<1> HIDE DEF R
<1>5. CASE Cardinality(R) > HistoryCap
  <2>1. PICK x \in R : \A y \in R : x <= y
    BY <1>4, SmallestElement
  <2>2. x \in Oldest(R)
    BY <2>1 DEF Oldest
  <2>3. Recorded(R) \subseteq R \ {x}
    BY <1>5, <2>2 DEF Recorded
  <2>4. IsFiniteSet(R \ {x}) /\ Cardinality(R \ {x}) = Cardinality(R) - 1
    BY <1>2, <2>1, FS_RemoveElement
  <2>5. IsFiniteSet(Recorded(R)) /\ Cardinality(Recorded(R)) <= Cardinality(R \ {x})
    BY <2>3, <2>4, FS_Subset
  <2>6. Cardinality(Recorded(R)) \in Nat
    BY <2>5, FS_CardinalityType
  <2> QED
    BY <1>1, <1>2, <1>3, <2>4, <2>5, <2>6 DEF R
<1>6. CASE ~(Cardinality(R) > HistoryCap)
  BY <1>3, <1>6 DEF Recorded, R
<1> QED
  BY <1>5, <1>6

\* An event leads to a state of the machine.
LEMMA EventsKeepStates ==
    ASSUME NEW s \in States, NEW e
    PROVE  HandleEvent(s, e) \in States
<1>1. \A t \in Transitions : t[3] \in States
  BY DEF Transitions, States
<1>2. CASE \E t \in Transitions : t[1] = s /\ t[2] = e
  <2> DEFINE c == CHOOSE t \in Transitions : t[1] = s /\ t[2] = e
  <2>1. c \in Transitions
    BY <1>2
  <2>2. HandleEvent(s, e) = c[3]
    BY <1>2 DEF HandleEvent
  <2> QED
    BY <1>1, <2>1, <2>2
<1>3. CASE ~(\E t \in Transitions : t[1] = s /\ t[2] = e)
  BY <1>3 DEF HandleEvent
<1> QED
  BY <1>2, <1>3

\* The parts of TypeOK.
AgentTypes == agent \in {"up", "hung", "stopping", "down"} /\ beat \in {"none", "zero", "fresh", "stale"}

LoopTypes ==
    /\ wd \in {"up", "down"} /\ state \in States /\ attempts \in Nat
    /\ pending \in {"none", "grace", "watch", "late"}

FlagTypes ==
    /\ verified \in BOOLEAN /\ windowOver \in BOOLEAN /\ standbyOver \in BOOLEAN
    /\ failover \in BOOLEAN /\ hasToken \in BOOLEAN /\ connected \in BOOLEAN
    /\ live \in BOOLEAN /\ pong \in BOOLEAN
    /\ unsaved \in BOOLEAN /\ lost \in BOOLEAN /\ beatSince \in BOOLEAN

IpcTypes == fails \in 0..IpcFailThreshold /\ inbox \in 0..InboxSize

HistTypes ==
    /\ n \in Nat /\ old \in 0..n /\ auto \subseteq 1..n
    /\ mem \subseteq 1..n /\ disk \subseteq 1..n
    /\ Cardinality(mem) <= HistoryCap /\ Cardinality(disk) <= HistoryCap
    /\ deaths \in Nat

\* Together they are TypeOK.
LEMMA TypeParts == TypeOK <=> AgentTypes /\ LoopTypes /\ FlagTypes /\ IpcTypes /\ HistTypes
  BY Zenon DEF TypeOK, AgentTypes, LoopTypes, FlagTypes, IpcTypes, HistTypes

\* The flags but live, which the agent's end clears.
OtherFlags ==
    <<verified, windowOver, standbyOver, failover, hasToken, connected, pong, unsaved, lost, beatSince>>

\* They keep their types as long as they are unchanged.
LEMMA FlagsStay ==
    ASSUME FlagTypes, OtherFlags' = OtherFlags, live' \in BOOLEAN
    PROVE  FlagTypes'
  BY Zenon DEF FlagTypes, OtherFlags

\* A restart that is recorded leaves a history of the right shape and size.
LEMMA RecordTypes ==
    ASSUME HistTypes, n' = n + 1, old' = old, deaths' \in Nat,
           mem' \in {{}, Recorded(Recent(mem) \cup {n + 1})},
           disk' \in {disk, Recorded(Recent(mem) \cup {n + 1})},
           auto' \in {auto, auto \cup {n + 1}}
    PROVE  HistTypes'
<1> DEFINE R == Recorded(Recent(mem) \cup {n + 1})
<1>1. n \in Nat /\ old \in 0..n /\ mem \subseteq 1..n /\ disk \subseteq 1..n /\ auto \subseteq 1..n
  BY DEF HistTypes
<1>2. 1..n \subseteq 1..(n + 1) /\ n + 1 \in 1..(n + 1) /\ n + 1 \in Nat /\ old \in 0..(n + 1)
  BY <1>1
<1>3. Recent(mem) \in SUBSET mem /\ Recent(mem) \in SUBSET (1..n)
  BY <1>1, Zenon DEF Recent
<1>4. IsFiniteSet(mem) /\ Cardinality(mem) \in Nat /\ Cardinality(Recent(mem)) \in Nat
  BY <1>1, <1>3, HistoryFinite, Zenon
<1>5. Cardinality(Recent(mem)) <= Cardinality(mem)
  BY <1>3, <1>4, FS_Subset
<1>6. Cardinality(Recent(mem)) <= HistoryCap
  BY <1>4, <1>5, WatchdogAssumption DEF HistTypes
<1>7. Cardinality(R) <= HistoryCap
  BY <1>1, <1>3, <1>6, RecordedWithinCap
<1>8. R \subseteq 1..(n + 1)
  BY <1>2, <1>3, Zenon DEF Recorded
<1> HIDE DEF R
<1>9. mem' \subseteq 1..(n + 1) /\ disk' \subseteq 1..(n + 1) /\ auto' \subseteq 1..(n + 1)
  BY <1>1, <1>2, <1>8, Zenon DEF R
<1>10. Cardinality(mem') <= HistoryCap /\ Cardinality(disk') <= HistoryCap
  <2>1. Cardinality({}) <= HistoryCap
    BY FS_EmptySet, WatchdogAssumption
  <2>2. Cardinality(disk) <= HistoryCap
    BY DEF HistTypes
  <2> QED
    BY <1>7, <2>1, <2>2 DEF R
<1> QED
  BY <1>2, <1>9, <1>10 DEF HistTypes

\* What the service manager leaves of the agent and the channel.
LEMMA AttemptTypes ==
    ASSUME TypeOK, NEW made \in Nat, NEW pid, NEW box \in 0..InboxSize, NEW lv \in BOOLEAN,
           NEW ok, NEW automatic, Attempt(made, pid, box, lv, ok, automatic), UNCHANGED <<old, deaths>>
    PROVE  /\ AgentTypes' /\ HistTypes' /\ attempts' \in Nat
           /\ inbox' \in 0..InboxSize /\ live' \in BOOLEAN /\ unsaved' \in BOOLEAN
<1> USE TypeParts
<1>1. Told(box, lv) \in 0..InboxSize
  BY WatchdogAssumption DEF Told
<1>2. AgentTypes' /\ inbox' \in 0..InboxSize /\ (live' = FALSE \/ live' = lv)
  BY <1>1 DEF Attempt, RestartAgentService, StartAgentService, KillAndStart, Started, Untouched,
              StoppedInOrder, Killed, AgentTypes, agentVars
<1>3. live' \in BOOLEAN
  BY <1>2, Zenon
<1>4. unsaved' \in BOOLEAN
  BY Zenon DEF Attempt, Record
<1>5. HistTypes'
  <2>1. Record(automatic)
    BY DEF Attempt
  <2>2. deaths' \in Nat
    BY DEF HistTypes
  <2> QED
    BY <2>1, <2>2, RecordTypes DEF Record
<1> QED
  BY <1>2, <1>3, <1>4, <1>5 DEF Attempt

\* A step that records nothing and hands the channel on.
LEMMA UntouchedTypes ==
    ASSUME TypeOK, NEW box \in 0..InboxSize, NEW lv \in BOOLEAN, Untouched(box, lv), NothingRecorded,
           UNCHANGED <<old, deaths>>
    PROVE  /\ AgentTypes' /\ HistTypes'
           /\ inbox' \in 0..InboxSize /\ live' \in BOOLEAN /\ unsaved' \in BOOLEAN
<1>1. AgentTypes' /\ inbox' \in 0..InboxSize
  BY TypeParts DEF Untouched, AgentTypes, agentVars
<1>2. HistTypes'
  BY TypeParts DEF NothingRecorded, HistTypes
<1>3. live' \in BOOLEAN /\ unsaved' \in BOOLEAN
  BY TypeParts, Zenon DEF Untouched, NothingRecorded, FlagTypes
<1> QED
  BY <1>1, <1>2, <1>3

\* A command of the server leaves everything of its type.
LEMMA CommandTypes ==
    ASSUME TypeOK, NEW cmd, NEW box \in 0..InboxSize, NEW lv \in BOOLEAN,
           HandleFailoverCommand(cmd, box, lv), UNCHANGED <<old, deaths>>
    PROVE  /\ AgentTypes' /\ HistTypes' /\ attempts' \in Nat
           /\ inbox' \in 0..InboxSize /\ live' \in BOOLEAN /\ unsaved' \in BOOLEAN
           /\ windowOver' \in BOOLEAN
<1>a. attempts \in Nat
  BY DEF TypeOK
<1>b. windowOver \in BOOLEAN
  BY DEF TypeOK
<1>1. windowOver' \in BOOLEAN
  BY <1>b, Zenon DEF HandleFailoverCommand
<1>2. CASE Untouched(box, lv) /\ NothingRecorded /\ UNCHANGED attempts
  BY <1>a, <1>1, <1>2, UntouchedTypes
<1>3. ASSUME NEW ok \in BOOLEAN,
             Attempt(IF cmd = "restart_agent" THEN 0 ELSE attempts, FALSE, box, lv, ok, FALSE)
      PROVE  /\ AgentTypes' /\ HistTypes' /\ attempts' \in Nat
             /\ inbox' \in 0..InboxSize /\ live' \in BOOLEAN /\ unsaved' \in BOOLEAN
  <2>1. (IF cmd = "restart_agent" THEN 0 ELSE attempts) \in Nat
    BY <1>a
  <2> QED
    BY <1>3, <2>1, AttemptTypes, Zenon
<1>4. CASE Started(Told(box, lv)) /\ NothingRecorded /\ UNCHANGED attempts
  <2>1. Told(box, lv) \in 0..InboxSize
    BY WatchdogAssumption DEF Told
  <2>2. AgentTypes' /\ inbox' \in 0..InboxSize
    BY <1>4, <2>1 DEF Started, AgentTypes
  <2>3. HistTypes'
    BY <1>4, TypeParts DEF NothingRecorded, HistTypes
  <2>4. live' \in BOOLEAN /\ unsaved' \in BOOLEAN
    BY <1>4, TypeParts, Zenon DEF Started, NothingRecorded, FlagTypes
  <2> QED
    BY <1>a, <1>1, <1>4, <2>2, <2>3, <2>4
<1> QED
  BY <1>1, <1>2, <1>3, <1>4, Zenon DEF HandleFailoverCommand

\* The switch leaves everything of its type.
LEMMA SwitchTypes ==
    ASSUME TypeOK, NEW st \in States, NEW box \in 0..InboxSize, NEW lv \in BOOLEAN,
           StateDriven(st, box, lv)
    PROVE  /\ AgentTypes' /\ LoopTypes' /\ HistTypes' /\ inbox' \in 0..InboxSize
           /\ live' \in BOOLEAN /\ unsaved' \in BOOLEAN /\ windowOver' \in BOOLEAN
           /\ failover' \in BOOLEAN /\ verified' \in BOOLEAN /\ beatSince' \in BOOLEAN
           /\ standbyOver' \in BOOLEAN /\ lost' \in BOOLEAN
<1> DEFINE Kinds == /\ AgentTypes' /\ HistTypes' /\ attempts' \in Nat
                    /\ inbox' \in 0..InboxSize /\ live' \in BOOLEAN /\ unsaved' \in BOOLEAN
           Flags == windowOver' \in BOOLEAN /\ failover' \in BOOLEAN
           Moves == state' \in States /\ pending' \in {"none", "grace", "watch", "late"}
<1>1. wd \in {"up", "down"} /\ attempts \in Nat /\ pending \in {"none", "grace", "watch", "late"}
  BY DEF TypeOK
<1>2. windowOver \in BOOLEAN /\ failover \in BOOLEAN /\ hasToken \in BOOLEAN
  BY Zenon DEF TypeOK
<1>3. UNCHANGED <<wd, old, lost, deaths>>
  BY DEF StateDriven
<1>4. AttemptsInWindow \in Nat
  BY <1>1 DEF AttemptsInWindow
<1> HIDE DEF Kinds, Flags, Moves
<1>5. ASSUME AwaitVerification(st, box, lv) PROVE Kinds /\ Flags /\ Moves
  <2>1. Kinds
    BY <1>1, <1>3, <1>5, UntouchedTypes DEF AwaitVerification, Kinds
  <2>2. Flags
    BY <1>2, <1>5, Zenon DEF AwaitVerification, Flags
  <2>3. Moves
    BY <1>1, <1>5, EventsKeepStates DEF AwaitVerification, Moves
  <2> QED
    BY <2>1, <2>2, <2>3
<1>6. ASSUME GiveUp(st, box, lv) PROVE Kinds /\ Flags /\ Moves
  <2>1. attempts' \in Nat
    BY <1>1, <1>4, <1>6 DEF GiveUp
  <2>2. Kinds
    BY <1>3, <1>6, <2>1, UntouchedTypes DEF GiveUp, Kinds
  <2>3. Flags
    BY <1>2, <1>6, Zenon DEF GiveUp, Flags
  <2>4. Moves
    BY <1>1, <1>6, EventsKeepStates DEF GiveUp, Moves
  <2> QED
    BY <2>2, <2>3, <2>4
<1>7. ASSUME Recover(st, box, lv) PROVE Kinds /\ Flags /\ Moves
  <2>1. PICK ok \in BOOLEAN : Attempt(AttemptsInWindow, beat # "none", box, lv, ok, TRUE)
    BY <1>7, Zenon DEF Recover
  <2>2. Kinds
    BY <1>3, <1>4, <2>1, AttemptTypes, Zenon DEF Kinds
  <2>3. Flags
    BY <1>2, <1>7, Zenon DEF Recover, Flags
  <2>4. Moves
    BY <1>7 DEF Recover, Moves
  <2> QED
    BY <2>2, <2>3, <2>4
<1>8. ASSUME EnterFailover(st, box, lv) PROVE Kinds /\ Flags /\ Moves
  <2>1. PICK cmd \in Commands : HandleFailoverCommand(cmd, box, lv)
    BY <1>8 DEF EnterFailover
  <2>2. Kinds /\ windowOver' \in BOOLEAN
    BY <1>3, <2>1, CommandTypes DEF Kinds
  <2>3. failover' \in BOOLEAN
    BY <1>2, <1>8, Zenon DEF EnterFailover
  <2>4. Moves
    BY <1>8 DEF EnterFailover, Moves
  <2> QED
    BY <2>2, <2>3, <2>4 DEF Flags
<1>9. ASSUME Standby(st, box, lv) \/ Monitor(st, box, lv) \/ Connecting(st, box, lv) PROVE Kinds /\ Flags /\ Moves
  <2>1. attempts' \in Nat /\ Untouched(box, lv) /\ NothingRecorded
    BY <1>1, <1>9 DEF Standby, Monitor, Connecting
  <2>2. Kinds
    BY <1>3, <2>1, UntouchedTypes DEF Kinds
  <2>3. Flags
    BY <1>2, <1>9, Zenon DEF Standby, Monitor, Connecting, Flags
  <2>4. Moves
    BY <1>1, <1>9, EventsKeepStates DEF Standby, Monitor, Connecting, Moves
  <2> QED
    BY <2>2, <2>3, <2>4
<1>10. Kinds /\ Flags /\ Moves
  BY <1>5, <1>6, <1>7, <1>8, <1>9, Zenon DEF StateDriven
<1>11. verified' \in BOOLEAN /\ beatSince' \in BOOLEAN /\ standbyOver' \in BOOLEAN
  BY Zenon DEF StateDriven
<1>12. lost' \in BOOLEAN
  BY <1>3, Zenon DEF TypeOK
<1>13. LoopTypes'
  BY <1>1, <1>3, <1>10 DEF LoopTypes, Moves, Kinds
<1> QED
  BY <1>10, <1>11, <1>12, <1>13 DEF Kinds, Flags

\* The agent, the channel and the flags of the loop, after the select case of an iteration.
LEMMA LoopTypeStep == TypeOK /\ Loop => TypeOK'
<1> SUFFICES ASSUME TypeOK, Loop PROVE TypeOK'
  OBVIOUS
<1>1. state \in States /\ inbox \in 0..InboxSize /\ fails \in 0..IpcFailThreshold
  BY DEF TypeOK
<1>2. live \in BOOLEAN /\ connected \in BOOLEAN /\ pong \in BOOLEAN /\ hasToken \in BOOLEAN
  BY Zenon DEF TypeOK
<1>3. \A e : HandleEvent(state, e) \in States
  BY <1>1, EventsKeepStates
<1>4. ASSUME NEW st \in States, NEW box \in 0..InboxSize, NEW lv \in BOOLEAN, StateDriven(st, box, lv),
             fails' \in 0..IpcFailThreshold, connected' \in BOOLEAN, pong' \in BOOLEAN, hasToken' \in BOOLEAN
      PROVE  TypeOK'
  <2>1. /\ AgentTypes' /\ LoopTypes' /\ HistTypes' /\ inbox' \in 0..InboxSize
        /\ live' \in BOOLEAN /\ unsaved' \in BOOLEAN /\ windowOver' \in BOOLEAN
        /\ failover' \in BOOLEAN /\ verified' \in BOOLEAN /\ beatSince' \in BOOLEAN
        /\ standbyOver' \in BOOLEAN /\ lost' \in BOOLEAN
    BY <1>4, SwitchTypes, Zenon
  <2>2. FlagTypes' /\ IpcTypes'
    BY <1>4, <2>1, Zenon DEF FlagTypes, IpcTypes
  <2> QED
    BY <2>1, <2>2, Zenon DEF TypeOK, AgentTypes, LoopTypes, FlagTypes, IpcTypes, HistTypes
<1>5. ASSUME ClientUnchanged
      PROVE  /\ fails' \in 0..IpcFailThreshold /\ connected' \in BOOLEAN
             /\ pong' \in BOOLEAN /\ hasToken' \in BOOLEAN
  BY <1>1, <1>2, <1>5, Zenon DEF ClientUnchanged
<1>6. CASE ProcessTick
  <2>1. PICK st \in States : StateDriven(st, inbox, live)
    BY <1>1, <1>3, <1>6 DEF ProcessTick
  <2> QED
    BY <1>1, <1>2, <1>4, <1>5, <1>6, <2>1, Zenon DEF ProcessTick
<1>7. CASE PingTick
  <2>1. PICK st \in States : StateDriven(st, inbox, live)
    BY <1>1, <1>3, <1>7 DEF PingTick
  <2>2. fails' \in 0..IpcFailThreshold
    BY <1>1, <1>7, WatchdogAssumption DEF PingTick
  <2>3. connected' \in BOOLEAN /\ pong' \in BOOLEAN /\ hasToken' \in BOOLEAN
    BY <1>2, <1>7, Zenon DEF PingTick
  <2> QED
    BY <1>1, <1>2, <1>4, <2>1, <2>2, <2>3, Zenon
<1>8. CASE ConnectTick
  <2>1. PICK st \in States : StateDriven(st, inbox, agent = "up")
    BY <1>1, <1>3, <1>8 DEF ConnectTick
  <2>2. fails' \in 0..IpcFailThreshold
    BY <1>1, <1>8, WatchdogAssumption DEF ConnectTick
  <2>3. connected' \in BOOLEAN /\ pong' \in BOOLEAN /\ hasToken' \in BOOLEAN /\ (agent = "up") \in BOOLEAN
    BY <1>2, <1>8, Zenon DEF ConnectTick
  <2> QED
    BY <1>1, <1>4, <2>1, <2>2, <2>3, Zenon
<1>9. CASE HeartbeatTick
  <2>1. PICK st \in States : StateDriven(st, inbox, live)
    BY <1>1, <1>3, <1>9 DEF HeartbeatTick
  <2> QED
    BY <1>1, <1>2, <1>4, <1>5, <1>9, <2>1, Zenon DEF HeartbeatTick
<1>10. CASE HandleIntent
  <2>1. inbox - 1 \in 0..InboxSize
    BY <1>1, <1>10, WatchdogAssumption DEF HandleIntent
  <2> QED
    BY <1>2, <1>3, <1>4, <1>5, <1>10, <2>1, Zenon DEF HandleIntent
<1>11. CASE HandleToken
  <2>1. /\ fails' \in 0..IpcFailThreshold /\ connected' \in BOOLEAN
        /\ pong' \in BOOLEAN /\ hasToken' \in BOOLEAN
    BY <1>1, <1>2, <1>11, Zenon DEF HandleToken
  <2> QED
    BY <1>1, <1>2, <1>4, <1>11, <2>1, Zenon DEF HandleToken
<1>12. CASE PongArrives
  <2>1. /\ fails' \in 0..IpcFailThreshold /\ connected' \in BOOLEAN
        /\ pong' \in BOOLEAN /\ hasToken' \in BOOLEAN
    BY <1>1, <1>2, <1>12, Zenon DEF PongArrives
  <2> QED
    BY <1>1, <1>2, <1>4, <1>12, <2>1, Zenon DEF PongArrives
<1>13. CASE FailoverTick
  <2>1. PICK cmd \in Commands : HandleFailoverCommand(cmd, inbox, live)
    BY <1>13 DEF FailoverTick
  <2>2. UNCHANGED <<wd, old, lost, deaths, failover>> /\ ClientUnchanged
    BY <1>13 DEF FailoverTick
  <2>3. /\ AgentTypes' /\ HistTypes' /\ attempts' \in Nat
        /\ inbox' \in 0..InboxSize /\ live' \in BOOLEAN /\ unsaved' \in BOOLEAN /\ windowOver' \in BOOLEAN
    BY <1>1, <1>2, <2>1, <2>2, CommandTypes
  <2>4. LoopTypes'
    BY <1>3, <1>13, <2>2, <2>3 DEF FailoverTick, LoopTypes, TypeOK
  <2>5. FlagTypes'
    BY <1>5, <1>13, <2>2, <2>3, Zenon DEF FailoverTick, FlagTypes, TypeOK
  <2>6. IpcTypes'
    BY <1>5, <2>2, <2>3, Zenon DEF IpcTypes
  <2> QED
    BY <2>3, <2>4, <2>5, <2>6, Zenon DEF TypeOK, AgentTypes, LoopTypes, FlagTypes, IpcTypes, HistTypes
<1> QED
  BY <1>6, <1>7, <1>8, <1>9, <1>10, <1>11, <1>12, <1>13 DEF Loop

\* Every step of the watchdog, the agent and time leaves everything of its type.
LEMMA WatchdogTypeStep == TypeOK /\ [Next]_vars => TypeOK'
<1> SUFFICES ASSUME TypeOK, [Next]_vars PROVE TypeOK'
  OBVIOUS
<1>1. AgentTypes /\ LoopTypes /\ FlagTypes /\ IpcTypes /\ HistTypes
  BY TypeParts
<1>2. SUFFICES ASSUME ~Loop PROVE AgentTypes' /\ LoopTypes' /\ FlagTypes' /\ IpcTypes' /\ HistTypes'
  BY LoopTypeStep, Zenon DEF TypeOK, AgentTypes, LoopTypes, FlagTypes, IpcTypes, HistTypes
<1>3. "CONNECTING" \in States
  BY DEF States
<1>4. Cardinality({}) <= HistoryCap
  BY FS_EmptySet, WatchdogAssumption
<1>5. ASSUME MemoryGone, unsaved' = FALSE, lost' \in BOOLEAN
      PROVE  AgentTypes' /\ LoopTypes' /\ FlagTypes' /\ IpcTypes' /\ deaths' \in Nat
  <2>1. AgentTypes' /\ LoopTypes' /\ deaths' \in Nat
    BY <1>1, <1>3, <1>5 DEF MemoryGone, AgentTypes, LoopTypes, HistTypes, agentVars
  <2>2. FlagTypes'
    BY <1>1, <1>5, Zenon DEF MemoryGone, FlagTypes
  <2>3. IpcTypes'
    BY <1>5, WatchdogAssumption DEF MemoryGone, IpcTypes
  <2> QED
    BY <2>1, <2>2, <2>3
<1>6. CASE WatchdogDies
  <2>1. lost' \in BOOLEAN
    BY <1>1, <1>6, Zenon DEF WatchdogDies, FlagTypes
  <2>2. AgentTypes' /\ LoopTypes' /\ FlagTypes' /\ IpcTypes' /\ deaths' \in Nat
    BY <1>5, <1>6, <2>1, Zenon DEF WatchdogDies
  <2>3. HistTypes'
    BY <1>1, <1>4, <1>6, <2>2 DEF WatchdogDies, MemoryGone, HistTypes
  <2> QED
    BY <2>2, <2>3
<1>7. CASE DiesInAttempt
  <2>1. lost' \in BOOLEAN
    BY <1>1, <1>7, Zenon DEF DiesInAttempt, FlagTypes
  <2>2. AgentTypes' /\ LoopTypes' /\ FlagTypes' /\ IpcTypes' /\ deaths' \in Nat
    BY <1>5, <1>7, <2>1, Zenon DEF DiesInAttempt
  <2>3. HistTypes'
    BY <1>1, <1>7, <2>2, RecordTypes DEF DiesInAttempt, MemoryGone
  <2> QED
    BY <2>2, <2>3
<1>8. CASE WatchdogStarts
  <2>1. AgentTypes' /\ IpcTypes'
    BY <1>1, <1>8 DEF WatchdogStarts, AgentTypes, IpcTypes, agentVars
  <2>2. state' \in States
    BY <1>3, <1>8, EventsKeepStates DEF WatchdogStarts
  <2>3. LoopTypes'
    BY <1>1, <1>8, <2>2 DEF WatchdogStarts, LoopTypes
  <2>4. FlagTypes'
    BY <1>1, <1>8, Zenon DEF WatchdogStarts, LoadHistory, FlagTypes
  <2>5. mem' \subseteq 1..n /\ Cardinality(mem') <= HistoryCap
    BY <1>1, <1>8, FS_EmptySet, WatchdogAssumption DEF WatchdogStarts, LoadHistory, HistTypes
  <2>6. HistTypes'
    BY <1>1, <1>8, <2>5 DEF WatchdogStarts, LoadHistory, HistTypes
  <2> QED
    BY <2>1, <2>3, <2>4, <2>6
<1>9. CASE ReadLoopError
  <2>1. FlagTypes'
    BY <1>1, <1>9, Zenon DEF ReadLoopError, FlagTypes, loopVars, histVars
  <2> QED
    BY <1>1, <1>9, <2>1 DEF ReadLoopError, AgentTypes, LoopTypes, IpcTypes, HistTypes, agentVars, loopVars,
                            histVars
<1>10. CASE Heartbeat
  <2>1. FlagTypes'
    BY <1>1, <1>10, Zenon DEF Heartbeat, FlagTypes, ipcVars
  <2> QED
    BY <1>1, <1>10, <2>1 DEF Heartbeat, AgentTypes, LoopTypes, IpcTypes, HistTypes, ipcVars
<1>11. CASE AgentCrashes \/ AgentHangs \/ AgentExits \/ AgentStarts \/ BeatAges
  <2>1. UNCHANGED <<loopVars, connected, pong, fails, inbox, histVars>> /\ live' \in {live, FALSE}
    BY <1>11, Zenon DEF AgentCrashes, AgentHangs, AgentExits, AgentStarts, BeatAges, ipcVars
  <2>2. FlagTypes'
    <3>1. live' \in BOOLEAN
      BY <1>1, <2>1, Zenon DEF FlagTypes
    <3>2. OtherFlags' = OtherFlags
      BY <2>1, Zenon DEF OtherFlags, loopVars, histVars
    <3> QED
      BY <1>1, <3>1, <3>2, FlagsStay, Zenon
  <2>3. AgentTypes'
    BY <1>1, <1>11 DEF AgentCrashes, AgentHangs, AgentExits, AgentStarts, BeatAges, AgentTypes
  <2> QED
    BY <1>1, <2>1, <2>2, <2>3 DEF LoopTypes, IpcTypes, HistTypes, loopVars, histVars
<1>12. CASE AgentAnnouncesStop
  <2>1. FlagTypes'
    <3>1. live' \in BOOLEAN
      BY <1>1, <1>12, Zenon DEF AgentAnnouncesStop, FlagTypes
    <3>2. OtherFlags' = OtherFlags
      BY <1>12, Zenon DEF AgentAnnouncesStop, OtherFlags, loopVars, histVars
    <3> QED
      BY <1>1, <3>1, <3>2, FlagsStay, Zenon
  <2>2. inbox' \in 0..InboxSize
    BY <1>1, <1>12, WatchdogAssumption DEF AgentAnnouncesStop, Told, IpcTypes
  <2> QED
    BY <1>1, <1>12, <2>1, <2>2 DEF AgentAnnouncesStop, AgentTypes, LoopTypes, IpcTypes, HistTypes, loopVars,
                                   histVars
<1>13. CASE VerificationAges \/ CooldownPasses \/ StandbyPasses
  <2>1. /\ UNCHANGED <<agentVars, ipcVars, histVars, verified, failover, hasToken>>
        /\ windowOver' \in {windowOver, TRUE} /\ standbyOver' \in {standbyOver, TRUE}
    BY <1>13, Zenon DEF VerificationAges, CooldownPasses, StandbyPasses
  <2>2. FlagTypes'
    <3>1. windowOver' \in BOOLEAN /\ standbyOver' \in BOOLEAN
      BY <1>1, <2>1, Zenon DEF FlagTypes
    <3>2. UNCHANGED <<verified, failover, hasToken, connected, live, pong, unsaved, lost, beatSince>>
      BY <2>1, Zenon DEF ipcVars, histVars
    <3> QED
      BY <1>1, <3>1, <3>2, Zenon DEF FlagTypes
  <2>3. LoopTypes'
    BY <1>1, <1>13 DEF VerificationAges, CooldownPasses, StandbyPasses, LoopTypes
  <2> QED
    BY <1>1, <2>1, <2>2, <2>3 DEF AgentTypes, IpcTypes, HistTypes, agentVars, ipcVars, histVars
<1>14. CASE RestartAges
  <2>1. FlagTypes'
    <3>1. OtherFlags' = OtherFlags /\ live' = live
      BY <1>14, Zenon DEF RestartAges, OtherFlags, loopVars, ipcVars
    <3> QED
      BY <1>1, <3>1, FlagsStay, Zenon DEF FlagTypes
  <2>2. n \in Nat /\ old' \in 0..n
    BY <1>1, <1>14 DEF RestartAges, HistTypes
  <2> QED
    BY <1>1, <1>14, <2>1, <2>2 DEF RestartAges, AgentTypes, LoopTypes, IpcTypes, HistTypes, agentVars,
                                   loopVars, ipcVars
<1>15. CASE UNCHANGED vars
  <2>1. FlagTypes'
    <3>1. OtherFlags' = OtherFlags /\ live' = live
      BY <1>15, Zenon DEF vars, OtherFlags, loopVars, ipcVars, histVars
    <3> QED
      BY <1>1, <3>1, FlagsStay, Zenon DEF FlagTypes
  <2> QED
    BY <1>1, <1>15, <2>1, SMTT(20) DEF vars, AgentTypes, LoopTypes, IpcTypes, HistTypes, agentVars, loopVars, ipcVars,
                             histVars
<1> QED
  BY <1>2, <1>6, <1>7, <1>8, <1>9, <1>10, <1>11, <1>12, <1>13, <1>14, <1>15 DEF Next

\* The state of the watchdog is well-typed: the transition table is closed over
\* its states, the failure counter and the intent channel stay within their
\* bounds, and the restart history, in memory and in the file, never exceeds
\* restartHistoryCap, whatever dies between a record and its write.
THEOREM WatchdogTypes == Spec => []TypeOK
<1>1. Init => TypeOK
  <2> SUFFICES ASSUME Init PROVE TypeOK
    OBVIOUS
  <2>1. FlagTypes
    BY Zenon DEF Init, FlagTypes
  <2>2. HistTypes
    BY FS_EmptySet, WatchdogAssumption DEF Init, HistTypes
  <2>3. AgentTypes /\ LoopTypes /\ IpcTypes
    BY WatchdogAssumption DEF Init, AgentTypes, LoopTypes, IpcTypes, States
  <2> QED
    BY <2>1, <2>2, <2>3, TypeParts
<1> QED
  BY <1>1, WatchdogTypeStep, PTL DEF Spec
=============================================================================
