------------------------------ MODULE OneGrant ------------------------------
(***************************************************************************)
(* What the privileged access workflow promises for every request: it is   *)
(* decided at most once, by a technician other than its subject or by a    *)
(* rule; what has been refused or has ended is never granted again; and a  *)
(* grant is turned into a device command at most once, while it lasts,     *)
(* and only if a technician gave it.                                       *)
(***************************************************************************)
CONSTANTS
    Requests,
    Users,
    NoOne,      \* no technician has granted the request
    Rule        \* a rule or a software policy has granted the request

VARIABLES
    phase,      \* none, open, granted, refused or ended
    subject,    \* the technician the request is for, or NoOne
    grantedBy,  \* who has granted the request
    used        \* requests a device command has been queued for

vars == <<phase, subject, grantedBy, used>>

Init ==
    /\ phase = [r \in Requests |-> "none"]
    /\ subject = [r \in Requests |-> NoOne]
    /\ grantedBy = [r \in Requests |-> NoOne]
    /\ used = {}

\* A request is made; a rule may decide it at once.
Request(r, s, p) ==
    /\ phase[r] = "none"
    /\ phase' = [phase EXCEPT ![r] = p]
    /\ subject' = [subject EXCEPT ![r] = s]
    /\ grantedBy' = [grantedBy EXCEPT ![r] = IF p = "granted" THEN Rule ELSE NoOne]
    /\ UNCHANGED used

Grant(r, u) ==
    /\ phase[r] = "open"
    /\ u # subject[r]
    /\ phase' = [phase EXCEPT ![r] = "granted"]
    /\ grantedBy' = [grantedBy EXCEPT ![r] = u]
    /\ UNCHANGED <<subject, used>>

Refuse(r) ==
    /\ phase[r] = "open"
    /\ phase' = [phase EXCEPT ![r] = "refused"]
    /\ UNCHANGED <<subject, grantedBy, used>>

Use(r) ==
    /\ phase[r] = "granted"
    /\ grantedBy[r] \in Users
    /\ r \notin used
    /\ used' = used \cup {r}
    /\ UNCHANGED <<phase, subject, grantedBy>>

End(r) ==
    /\ phase[r] \in {"open", "granted"}
    /\ phase' = [phase EXCEPT ![r] = "ended"]
    /\ UNCHANGED <<subject, grantedBy, used>>

Next ==
    \E r \in Requests :
        \/ \E s \in Users \cup {NoOne}, p \in {"open", "granted", "refused"} :
               Request(r, s, p)
        \/ \E u \in Users : Grant(r, u)
        \/ Refuse(r)
        \/ Use(r)
        \/ End(r)

Spec == Init /\ [][Next]_vars
=============================================================================
