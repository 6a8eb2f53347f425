------------------------------ MODULE PAMAccess ------------------------------
(***************************************************************************)
(* What the access-request component promises, without workers, leases,    *)
(* copies of rows and calls over HTTP.  A request is asked for, approved   *)
(* at most once and only on a ticket that ITSM approved in time, and over  *)
(* for good once it ended.  A change of its policy ends it in the same     *)
(* step, the next view request ends the one before, and a ticket is        *)
(* cancelled only when its request has ended.                              *)
(***************************************************************************)
EXTENDS Naturals

CONSTANTS Req,       \* requests of one operator for one account
          View       \* those that ask for its password

VARIABLES stage,     \* "absent", "pending", "approved" or "ended"
          active,    \* the requests that give access now
          ticket,    \* "none", "open", "approved" (in time, for good) or "closed"
          rules      \* revision of the policy of each kind

vars == <<stage, active, ticket, rules>>

Kind == {"connect", "view"}
KindOf(r) == IF r \in View THEN "view" ELSE "connect"
Open(r) == stage[r] \in {"pending", "approved"}

Init ==
    /\ stage = [r \in Req |-> "absent"]
    /\ active = {}
    /\ ticket = [r \in Req |-> "none"]
    /\ rules = [k \in Kind |-> 1]

\* The requests of S that are open end.
EndAll(S) ==
    /\ stage' = [r \in Req |-> IF r \in S /\ Open(r) THEN "ended" ELSE stage[r]]
    /\ active' = active \ S

Ask(r) ==
    /\ r \notin View /\ stage[r] = "absent"
    /\ stage' = [stage EXCEPT ![r] = "pending"]
    /\ UNCHANGED <<active, ticket, rules>>

\* A view request replaces the one before.
AskView(r) ==
    /\ r \in View /\ stage[r] = "absent"
    /\ stage' = [q \in Req |-> IF q = r THEN "pending"
                               ELSE IF q \in View /\ Open(q) THEN "ended" ELSE stage[q]]
    /\ active' = active \ View
    /\ UNCHANGED <<ticket, rules>>

Approve(r) ==
    /\ stage[r] = "pending" /\ ticket[r] = "approved"
    /\ stage' = [stage EXCEPT ![r] = "approved"]
    /\ active' = active \cup {r}
    /\ UNCHANGED <<ticket, rules>>

\* The approved period ends.
Lapse(r) ==
    /\ r \in active
    /\ active' = active \ {r}
    /\ UNCHANGED <<stage, ticket, rules>>

End(r) ==
    /\ Open(r)
    /\ EndAll({r})
    /\ UNCHANGED <<ticket, rules>>

ChangePolicy(k) ==
    /\ rules' = [rules EXCEPT ![k] = @ + 1]
    /\ EndAll({r \in Req : KindOf(r) = k})
    /\ UNCHANGED ticket

OpenTicket(r) ==
    /\ ticket[r] = "none" /\ stage[r] # "absent"
    /\ ticket' = [ticket EXCEPT ![r] = "open"]
    /\ UNCHANGED <<stage, active, rules>>

\* People decide on it.
DecideTicket(r, verdict) ==
    /\ ticket[r] = "open"
    /\ ticket' = [ticket EXCEPT ![r] = verdict]
    /\ UNCHANGED <<stage, active, rules>>

\* The bastion cancels it, even one that ITSM has not opened yet.
CancelTicket(r) ==
    /\ ticket[r] \in {"none", "open"} /\ stage[r] = "ended"
    /\ ticket' = [ticket EXCEPT ![r] = "closed"]
    /\ UNCHANGED <<stage, active, rules>>

Next ==
    \/ \E r \in Req :
          \/ Ask(r) \/ AskView(r) \/ Approve(r) \/ Lapse(r) \/ End(r)
          \/ OpenTicket(r) \/ CancelTicket(r)
          \/ \E verdict \in {"approved", "closed"} : DecideTicket(r, verdict)
    \/ \E k \in Kind : ChangePolicy(k)

Spec == Init /\ [][Next]_vars
=============================================================================
