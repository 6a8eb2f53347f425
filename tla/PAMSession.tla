----------------------------- MODULE PAMSession -----------------------------
(***************************************************************************)
(* Sessions on a managed account: how a connection is admitted under the   *)
(* policy's session limit (service/pam_session_lease.go), how its          *)
(* permission is watched while it runs (service/pam_session.go), and how   *)
(* its transport to the target is closed whoever comes first, the end of   *)
(* the session or the end of the dial (connector/pam.go,                   *)
(* connector/handlers.go, session/session.go).                             *)
(*                                                                         *)
(* Time is discrete.  A live process handles a timer before the clock      *)
(* moves on; a statement waits for the database as long as its context     *)
(* lets it, and a dial as long as it likes.                                *)
(***************************************************************************)
EXTENDS Naturals, FiniteSets

CONSTANTS
    Session,      \* connection attempts to one account
    TTL,          \* PAMSessionLeaseTTL, 45 seconds
    Interval,     \* PAMSessionCheckInterval, 10 seconds
    Timeout,      \* of the database calls of one check, 5 seconds
    Limit,        \* MaxSessionMinutes, 0 for none
    Max,          \* values of MaxSessions, 0 for no limit
    GrantEnd,     \* when approved periods end; empty where no approval is asked for
    MaxRevision,  \* bound on policy revisions
    MaxTime,      \* bound on the clock
    Prompt        \* no statement waits between its clock reading and its execution

ASSUME SessionAssumption == IsFiniteSet(Session)
ASSUME TimeAssumption ==
    /\ TTL \in Nat \ {0} /\ Interval \in Nat \ {0} /\ Timeout \in Nat \ {0}
    /\ Limit \in Nat /\ MaxRevision \in Nat \ {0} /\ MaxTime \in Nat
ASSUME PolicyAssumption == Max \subseteq Nat /\ Max # {} /\ GrantEnd \subseteq Nat /\ Prompt \in BOOLEAN

Never == MaxTime + TTL + Limit + 1     \* a deadline that is not set
Time == 0 .. Never
Deadline == IF GrantEnd = {} THEN {Never} ELSE GrantEnd

VARIABLES
    now,
    policy,      \* revision and session limit of the account's policy, and when it was saved
    withdrawn,   \* when the permission of a session was withdrawn otherwise
    lease,       \* the PAMSessionLease rows
    pc,          \* where DoConnect, and after it WatchPAMConnection, stands
    permit,      \* PAMConnectionPermit
    timer,       \* the wake-up, or the end of the context, it waits for
    reading,     \* the clock reading that the pending renewal carries
    dial,        \* the connecting goroutine
    result,      \* ErrChan, with room for one result
    open,        \* sessions with an open transport to the target
    hook,        \* pamTransportClose is set
    shut         \* pamTransportClosed

local == <<timer, reading>>
transport == <<dial, result, open, hook, shut>>
vars == <<now, policy, withdrawn, lease, pc, permit, local, transport>>

Lease == [state : {"none", "active", "closed"}, expires : Time, deadline : Time, revision : 0 .. MaxRevision]
Permit == [revision : 0 .. MaxRevision, deadline : Time, until : Time]

Activation == {"activating", "activated"}
Watching == {"checking", "renewing", "sleeping"}
Stage == {"idle", "authorized", "waiting", "stopping", "releasing", "ended"} \cup Activation \cup Watching

Init ==
    /\ now = 0
    /\ \E max \in Max : policy = [revision |-> 1, max |-> max, since |-> 0]
    /\ withdrawn = [s \in Session |-> Never]
    /\ lease = [s \in Session |-> [state |-> "none", expires |-> 0, deadline |-> 0, revision |-> 0]]
    /\ pc = [s \in Session |-> "idle"]
    /\ permit = [s \in Session |-> [revision |-> 0, deadline |-> Never, until |-> 0]]
    /\ timer = [s \in Session |-> 0]
    /\ reading = [s \in Session |-> 0]
    /\ dial = [s \in Session |-> "none"]
    /\ result = [s \in Session |-> "none"]
    /\ open = {} /\ hook = {} /\ shut = {}
-----------------------------------------------------------------------------
Earlier(a, b) == IF a < b THEN a ELSE b

\* Fault: grants and bindings are checked at admission only.
InPolicy(s) == permit[s].revision = policy.revision /\ now < permit[s].deadline

\* checkPAMConnectionScope: policy, binding, grants and requester are as they were.
InScope(s) ==
    /\ permit[s].revision = policy.revision
    /\ now < permit[s].deadline
    /\ now < withdrawn[s]

\* A lease that counts at time t.
Effective(x, t) == x.state = "active" /\ t < x.expires /\ t < x.deadline

Taken == {s \in Session : Effective(lease[s], now)}

\* The end of what a session knows to be covered.
Bound(s) == Earlier(permit[s].until, permit[s].deadline)

Goto(s, stage) == pc' = [pc EXCEPT ![s] = stage]
Sleep(s, t) == timer' = [timer EXCEPT ![s] = t]
-----------------------------------------------------------------------------
\* authorizePAMConnection issues a permit, with the deadline of the grant it needs.
Authorize(s, deadline) ==
    /\ pc[s] = "idle"
    /\ now < withdrawn[s] /\ now < deadline
    /\ permit' = [permit EXCEPT ![s] = [revision |-> policy.revision, deadline |-> deadline, until |-> 0]]
    /\ Goto(s, "authorized")
    /\ UNCHANGED <<now, policy, withdrawn, lease, local, transport>>

\* Fault: a full account is entered once more.
MayEnter(s) == policy.max > 0 => Cardinality(Taken) <= policy.max

\* AdmitPAMConnection, under the lock of the policy.
CanEnter(s) == policy.max > 0 => Cardinality(Taken) < policy.max

\* When the answer to the commit is lost, the row stays and nobody owns it.
Admit(s, lost) ==
    LET deadline == IF Limit = 0 THEN permit[s].deadline ELSE Earlier(permit[s].deadline, now + Limit) IN
    /\ pc[s] = "authorized"
    /\ InScope(s) /\ CanEnter(s)
    /\ lease' = [lease EXCEPT ![s] = [state |-> "active", expires |-> now + TTL,
                                      deadline |-> deadline, revision |-> policy.revision]]
    /\ IF lost
       THEN Goto(s, "ended") /\ UNCHANGED <<permit, dial>>
       ELSE /\ Goto(s, "waiting")
            /\ permit' = [permit EXCEPT ![s] = [@ EXCEPT !.deadline = deadline, !.until = now + TTL]]
            /\ dial' = [dial EXCEPT ![s] = "dialing"]
    /\ UNCHANGED <<now, policy, withdrawn, local, result, open, hook, shut>>

Refuse(s) ==
    /\ pc[s] = "authorized"
    /\ Goto(s, "ended")
    /\ UNCHANGED <<now, policy, withdrawn, lease, permit, local, transport>>

\* waitPAMConnection and the start of ActivatePAMConnection.
DialResult(s) ==
    /\ pc[s] = "waiting" /\ result[s] # "none"
    /\ result' = [result EXCEPT ![s] = "none"]
    /\ IF result[s] = "ok"
       THEN Goto(s, "activating") /\ Sleep(s, now + Timeout)
       ELSE Goto(s, "stopping") /\ UNCHANGED timer
    /\ UNCHANGED <<now, policy, withdrawn, lease, permit, reading, dial, open, hook, shut>>

WaitEnds(s) ==
    /\ pc[s] = "waiting" /\ now >= Bound(s)
    /\ Goto(s, "stopping")
    /\ UNCHANGED <<now, policy, withdrawn, lease, permit, local, transport>>

\* CheckPAMConnectionPermit.
Check(s) ==
    /\ pc[s] \in {"activating", "checking"} /\ now < timer[s]
    /\ IF InScope(s) /\ Effective(lease[s], now)
       THEN /\ Goto(s, IF pc[s] = "activating" THEN "activated" ELSE "renewing")
            /\ reading' = [reading EXCEPT ![s] = now]
       ELSE Goto(s, "stopping") /\ UNCHANGED reading
    /\ UNCHANGED <<now, policy, withdrawn, lease, permit, timer, transport>>

\* The condition of the renewal, on the clock reading it carries.
CanRenew(s) == Effective(lease[s], reading[s])

\* Fault: every check has its full five seconds.
WatchUntilTimeout(s) == now + Timeout

\* The context of a check never outlives the deadline and the lease.
WatchContext(s) == Earlier(now + Timeout, Bound(s))

\* renewPAMSessionLease; ActivatePAMConnection hands over to the watcher, which
\* starts with a check.
Renew(s) ==
    LET until == reading[s] + TTL
        known == Earlier(until, permit[s].deadline) IN
    /\ pc[s] \in {"activated", "renewing"} /\ now < timer[s]
    /\ IF CanRenew(s)
       THEN /\ lease' = [lease EXCEPT ![s].expires = until]
            /\ permit' = [permit EXCEPT ![s].until = until]
            /\ IF pc[s] = "activated"
               THEN Goto(s, "checking") /\ Sleep(s, Earlier(now + Timeout, known))
               ELSE Goto(s, "sleeping") /\ Sleep(s, Earlier(now + Interval, known))
       ELSE Goto(s, "stopping") /\ UNCHANGED <<lease, permit, timer>>
    /\ UNCHANGED <<now, policy, withdrawn, reading, transport>>

\* The context of a check ends, or the database answers with an error; what the
\* renewal did is then unknown.
CheckFails(s, renewed) ==
    /\ pc[s] \in Activation \cup {"checking", "renewing"}
    /\ renewed => pc[s] \in {"activated", "renewing"} /\ CanRenew(s) /\ now < timer[s]
    /\ lease' = IF renewed THEN [lease EXCEPT ![s].expires = reading[s] + TTL] ELSE lease
    /\ Goto(s, "stopping")
    /\ UNCHANGED <<now, policy, withdrawn, permit, local, transport>>

\* WatchPAMConnection wakes up for its next check.
Wake(s) ==
    /\ pc[s] = "sleeping" /\ now >= timer[s]
    /\ Goto(s, "checking")
    /\ Sleep(s, WatchContext(s))
    /\ UNCHANGED <<now, policy, withdrawn, lease, permit, reading, transport>>

\* The request is cancelled, or the session ends by itself.
Leave(s) ==
    /\ pc[s] \in {"waiting"} \cup Activation \cup Watching
    /\ Goto(s, "stopping")
    /\ UNCHANGED <<now, policy, withdrawn, lease, permit, local, transport>>

\* stopPAMConnection, through ClosePAMTransport.
Stop(s) ==
    /\ pc[s] = "stopping"
    /\ shut' = shut \cup {s}
    /\ hook' = hook \ {s}
    /\ open' = IF s \in hook THEN open \ {s} ELSE open
    /\ Goto(s, "releasing")
    /\ UNCHANGED <<now, policy, withdrawn, lease, permit, local, dial, result>>

\* ReleasePAMConnection, which the database may not answer.
Release(s, done) ==
    /\ pc[s] = "releasing"
    /\ lease' = IF done /\ lease[s].state = "active"
                THEN [lease EXCEPT ![s] = [@ EXCEPT !.state = "closed", !.expires = now]]
                ELSE lease
    /\ Goto(s, "ended")
    /\ UNCHANGED <<now, policy, withdrawn, permit, local, transport>>
-----------------------------------------------------------------------------
\* ConnectSsh and the others: the transport opens or not.
DialEnds(s, ok) ==
    /\ dial[s] = "dialing"
    /\ IF ok
       THEN dial' = [dial EXCEPT ![s] = "opened"] /\ open' = open \cup {s} /\ UNCHANGED result
       ELSE /\ dial' = [dial EXCEPT ![s] = "done"]
            /\ result' = [result EXCEPT ![s] = "error"]
            /\ UNCHANGED open
    /\ UNCHANGED <<now, policy, withdrawn, lease, pc, permit, local, hook, shut>>

\* Fault: the end of the session is not looked at.
RegisterAlways(s) ==
    /\ dial[s] = "opened"
    /\ dial' = [dial EXCEPT ![s] = "registered"]
    /\ hook' = hook \cup {s}
    /\ UNCHANGED <<now, policy, withdrawn, lease, pc, permit, local, result, open, shut>>

\* SetPAMTransportClose.
Register(s) ==
    /\ dial[s] = "opened"
    /\ dial' = [dial EXCEPT ![s] = "registered"]
    /\ IF s \in shut
       THEN open' = open \ {s} /\ UNCHANGED hook
       ELSE hook' = hook \cup {s} /\ UNCHANGED open
    /\ UNCHANGED <<now, policy, withdrawn, lease, pc, permit, local, result, shut>>

\* The session on the target is ready, or fails to start.
Report(s, ok) ==
    /\ dial[s] = "registered"
    /\ ok => s \in open
    /\ dial' = [dial EXCEPT ![s] = "done"]
    /\ result' = [result EXCEPT ![s] = IF ok THEN "ok" ELSE "error"]
    /\ UNCHANGED <<now, policy, withdrawn, lease, pc, permit, local, open, hook, shut>>

\* The process dies, and with it its connections.
Crash(s) ==
    /\ pc[s] \notin {"idle", "ended"}
    /\ Goto(s, "ended")
    /\ open' = open \ {s}
    /\ hook' = hook \ {s}
    /\ dial' = [dial EXCEPT ![s] = "done"]
    /\ UNCHANGED <<now, policy, withdrawn, lease, permit, local, result, shut>>
-----------------------------------------------------------------------------
\* Every save of the policy is a new revision.
SavePolicy(max) ==
    /\ policy.revision < MaxRevision
    /\ policy' = [revision |-> policy.revision + 1, max |-> max, since |-> now]
    /\ UNCHANGED <<now, withdrawn, lease, pc, permit, local, transport>>

\* A grant is revoked, a binding reviewed, a requester blocked, for good.
Withdraw(s) ==
    /\ withdrawn[s] = Never
    /\ withdrawn' = [withdrawn EXCEPT ![s] = now]
    /\ UNCHANGED <<now, policy, lease, pc, permit, local, transport>>

\* What a live process does before the clock moves on.
Urgent(s) ==
    \/ pc[s] = "waiting" /\ (now >= Bound(s) \/ result[s] # "none")
    \/ pc[s] \in Activation \cup Watching /\ now >= timer[s]
    \/ pc[s] = "stopping"
    \/ dial[s] = "opened"
    \/ Prompt /\ pc[s] = "activated"

Tick ==
    /\ now < MaxTime
    /\ \A s \in Session : ~Urgent(s)
    /\ now' = now + 1
    /\ UNCHANGED <<policy, withdrawn, lease, pc, permit, local, transport>>

Connecting(s) ==
    \/ \E deadline \in Deadline : Authorize(s, deadline)
    \/ \E lost \in BOOLEAN : Admit(s, lost)
    \/ Refuse(s) \/ DialResult(s) \/ WaitEnds(s)
    \/ \E ok \in BOOLEAN : DialEnds(s, ok) \/ Report(s, ok)
    \/ Register(s)

Running(s) ==
    \/ Check(s) \/ Renew(s) \/ Wake(s)
    \/ \E renewed \in BOOLEAN : CheckFails(s, renewed)

Ending(s) ==
    \/ Leave(s) \/ Stop(s) \/ Crash(s)
    \/ \E done \in BOOLEAN : Release(s, done)

Next ==
    \/ \E s \in Session : Connecting(s) \/ Running(s) \/ Ending(s) \/ Withdraw(s)
    \/ \E max \in Max : SavePolicy(max)
    \/ Tick

Spec == Init /\ [][Next]_vars
-----------------------------------------------------------------------------
TypeOK ==
    /\ now \in 0 .. MaxTime
    /\ policy \in [revision : 1 .. MaxRevision, max : Max, since : 0 .. MaxTime]
    /\ withdrawn \in [Session -> Time]
    /\ lease \in [Session -> Lease]
    /\ pc \in [Session -> Stage]
    /\ permit \in [Session -> Permit]
    /\ timer \in [Session -> Time]
    /\ reading \in [Session -> 0 .. MaxTime]
    /\ dial \in [Session -> {"none", "dialing", "opened", "registered", "done"}]
    /\ result \in [Session -> {"none", "ok", "error"}]
    /\ open \subseteq Session /\ hook \subseteq open /\ shut \subseteq Session

\* "The account's concurrent session limit" (i18n/locales/active.en.toml:498): the
\* leases of the present policy that count never exceed its MaxSessions, whatever
\* renewals, releases and admissions race for the last place.
WithinLimit ==
    policy.max > 0 =>
        Cardinality({s \in Taken : lease[s].revision = policy.revision}) <= policy.max

\* A session that was stopped leaves no transport behind: not even one whose dial
\* ends after the session.
NothingLeftOpen ==
    \A s \in open : pc[s] \in {"releasing", "ended"} => dial[s] = "opened"

\* How long past its lease or deadline a session may be: for the time of one check
\* while it is activated, whose context ends with neither, and stopped after that; so
\* too in the first check of the watcher when the renewal before it was late.
Overrun(s) ==
    IF pc[s] \in Activation \cup {"stopping"} \/ (pc[s] = "checking" /\ ~Prompt) THEN Timeout ELSE 0

\* A transport is open only while the session's lease and deadline last, and for the
\* time of one check beyond them if they run out while it is activated: a session cut
\* off from the database ends by itself, whatever happens to its place.
Covered ==
    \A s \in open : pc[s] \notin {"releasing", "ended"} =>
        now <= Bound(s) + Overrun(s) /\ Bound(s) <= lease[s].expires

\* A withdrawn permission or a new policy ends a running session at its next check.
WithdrawnEnds ==
    \A s \in open : pc[s] \in Watching =>
        /\ now <= withdrawn[s] + Interval + 2 * Timeout
        /\ permit[s].revision < policy.revision => now <= policy.since + Interval + 2 * Timeout
=============================================================================
