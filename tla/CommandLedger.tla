---------------------------- MODULE CommandLedger ---------------------------
(***************************************************************************)
(* What the command queue promises to the rest of the system, without      *)
(* dispatchers, channels or failures: a command enters the ledger once, is *)
(* run by the device at most once (before or after its entry closes, or    *)
(* never), and its entry is closed once, for good; it is closed as         *)
(* completed only after it ran.  CommandQueue and ScriptExecution are      *)
(* shown to implement it.                                                  *)
(***************************************************************************)
EXTENDS Naturals

CONSTANT Commands

VARIABLES
    entry,  \* "absent", "open", "completed", "failed" or "cancelled"
    runs    \* how often the device ran the command

ledgerVars == <<entry, runs>>

Init ==
    /\ entry = [c \in Commands |-> "absent"]
    /\ runs  = [c \in Commands |-> 0]

\* A transaction commits: the rows it inserted become visible to everyone.
Enter(S) ==
    /\ \A c \in S : entry[c] = "absent"
    /\ entry' = [c \in Commands |-> IF c \in S THEN "open" ELSE entry[c]]
    /\ UNCHANGED runs

\* The device runs the command, possibly before its row is visible.
Run(c) ==
    /\ runs[c] = 0
    /\ runs' = [runs EXCEPT ![c] = 1]
    /\ UNCHANGED entry

\* A result, a timeout, a cancellation or the reaper closes the entry.
Close(c, verdict) ==
    /\ entry[c] = "open"
    /\ verdict = "completed" => runs[c] = 1
    /\ entry' = [entry EXCEPT ![c] = verdict]
    /\ UNCHANGED runs

Next ==
    \/ \E S \in SUBSET Commands : Enter(S)
    \/ \E c \in Commands :
        \/ Run(c)
        \/ \E verdict \in {"completed", "failed", "cancelled"} : Close(c, verdict)

Spec == Init /\ [][Next]_ledgerVars
=============================================================================
