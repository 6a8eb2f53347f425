----------------------------- MODULE PAMRequest -----------------------------
(***************************************************************************)
(* Temporary access to one managed account: requests to connect with it or *)
(* to view its password (service/pam_request.go, service/password_view.go, *)
(* repository/pam_access.go), the approval that an external ITSM service   *)
(* gives or withdraws (service/pam_itsm_decision.go), and the workers that *)
(* keep both sides synchronized (service/pam_itsm_worker.go).              *)
(*                                                                         *)
(* A worker runs in every server process.  It leases a request, works on a *)
(* copy of the row, calls the ITSM service over HTTP, and can fail or      *)
(* vanish between any two steps.                                           *)
(***************************************************************************)
EXTENDS Naturals, FiniteSets

CONSTANTS
    Req,           \* requests of one operator for one account
    View,          \* those that ask for its password; the others ask to connect
    Worker,        \* ProcessPAMITSMWork calls, each with its lease name
    MaxAttempts,   \* failed synchronizations before a request is left alone
    MaxRevision,   \* bound on policy and scope revisions
    MaxLate,       \* bound on the calls that travel although their caller gave up
    Decision,      \* what people decide on tickets
    None

ASSUME RequestAssumption == View \subseteq Req /\ None \notin Req \cup Worker
ASSUME AttemptAssumption == MaxAttempts \in Nat \ {0} /\ MaxRevision \in Nat \ {0}
ASSUME DecisionAssumption == Decision \subseteq {"approved", "unqualified", "rejected", "withdrawn"}

Kind == {"connect", "view"}
KindOf(r) == IF r \in View THEN "view" ELSE "connect"

Open == {"pending", "approved"}
Finished == {"rejected", "cancelled", "expired", "invalidated"}

\* PAMAccessRequest: its state, what it was approved for, and its synchronization.
Row == [state : {"absent"} \cup Open \cup Finished,
        policy : 0 .. MaxRevision,      \* PolicyRevision
        scope : 0 .. MaxRevision,       \* BindingRevision, or CredentialVersionID
        ticket : BOOLEAN,               \* TicketID is set
        provider : 0 .. 2,              \* ProviderRevision
        granted : BOOLEAN,              \* GrantedAt and GrantedUntil are set
        revoked : {"no", "cancel", "expired", "itsm", "policy", "management", "scope"},
        sync : {"none", "pending", "running", "done", "failed"},
        owner : Worker \cup {None},     \* SyncLeaseOwner
        lease : {"none", "held", "expired"},
        attempts : 0 .. MaxAttempts + 1]  \* one more after a failed request is invalidated

\* The ticket on the ITSM side.  It issues one event per decision; "unqualified" is
\* an approval by too few people, or by the requester.
Ticket == [verdict : {"none", "open", "approved", "unqualified", "rejected", "cancelled", "withdrawn"},
           id : BOOLEAN, rev : 0 .. 2, late : BOOLEAN]

\* A worker between two of its steps, with what it still uses of its copy of the row:
\* whether it has a ticket, and whether it was finished when the synchronization began.
Job == [step : {"idle", "load", "expire", "call", "bind", "accept", "settle", "close",
                "rebind", "finish", "fail"},
        req : Req \cup {None}, ticket : BOOLEAN, term : BOOLEAN, answer : Ticket,
        done : BOOLEAN, attempts : 0 .. MaxAttempts + 1]

VARIABLES
    row,        \* the request table
    policy,     \* revision of the policy of each kind
    allow,      \* the policy lets operators ask
    managed,    \* the account is under management, with a binding
    available,  \* account enabled; for connections also the binding and its asset
    scope,      \* current binding revision and credential version
    due,        \* now >= ExpiresAt of a request
    over,       \* now >= the end of the approved period, counted from the decision
    remote,     \* the tickets of the ITSM service
    late,       \* calls still travelling although their caller gave up
    job,        \* the workers
    editor      \* a CreatePasswordViewRequest between its reads and its writes

database == <<policy, allow, managed, available, scope>>
clock == <<due, over>>
itsm == <<remote, late>>
vars == <<row, database, clock, itsm, job, editor>>

Absent == [state |-> "absent", policy |-> 0, scope |-> 0, ticket |-> FALSE, provider |-> 0,
           granted |-> FALSE, revoked |-> "no", sync |-> "none", owner |-> None,
           lease |-> "none", attempts |-> 0]
NoTicket == [verdict |-> "none", id |-> FALSE, rev |-> 0, late |-> FALSE]
Idle == [step |-> "idle", req |-> None, ticket |-> FALSE, term |-> FALSE,
         answer |-> NoTicket, done |-> FALSE, attempts |-> 0]
NoEditor == [new |-> None, old |-> None, copy |-> Absent]

Init ==
    /\ row = [r \in Req |-> Absent]
    /\ policy = [k \in Kind |-> 1]
    /\ allow = [k \in Kind |-> TRUE]
    /\ managed = TRUE
    /\ available = [k \in Kind |-> TRUE]
    /\ scope = [k \in Kind |-> 1]
    /\ due = [r \in Req |-> FALSE]
    /\ over = [r \in Req |-> FALSE]
    /\ remote = [r \in Req |-> NoTicket]
    /\ late = {}
    /\ job = [w \in Worker |-> Idle]
    /\ editor = NoEditor
-----------------------------------------------------------------------------
\* requestScopeCurrent.
Current(x, k) ==
    /\ x.policy = policy[k]
    /\ x.scope = scope[k]
    /\ available[k]
    /\ k = "view" => allow[k]

\* HasActiveAccess.
Access(r) ==
    /\ row[r].state = "approved"
    /\ row[r].granted /\ ~over[r]
    /\ row[r].revoked = "no"

\* SchedulePAMRequestSync.
Scheduled(x) == [x EXCEPT !.sync = "pending", !.owner = None, !.lease = "none", !.attempts = 0]

\* RevokePAMRequestAccess keeps a revocation that the object already has.
Revoked(x, why) == IF x.revoked = "no" THEN [x EXCEPT !.revoked = why] ELSE x

\* Fault: only undecided requests are invalidated.
InvalidatedPending(x, why) ==
    IF x.state = "pending"
    THEN [x EXCEPT !.state = "invalidated", !.revoked = why,
                   !.sync = "pending", !.owner = None, !.lease = "none"]
    ELSE x

\* The bulk update of a policy change or of a removal: attempts are not reset.
Invalidated(x, why) ==
    IF x.state \in Open
    THEN [x EXCEPT !.state = "invalidated", !.revoked = why,
                   !.sync = "pending", !.owner = None, !.lease = "none"]
    ELSE x

InvalidateAll(k, why) ==
    row' = [r \in Req |-> IF KindOf(r) = k THEN Invalidated(row[r], why) ELSE row[r]]

\* The locks on the account and on its policy are free.
Unlocked == editor = NoEditor

\* A request that pins the present policy and scope.
NewRow(k) == Scheduled([Absent EXCEPT !.state = "pending", !.policy = policy[k], !.scope = scope[k]])
-----------------------------------------------------------------------------
\* Create: the policy read before the ITSM template check is compared again
\* under its lock.
Create(r) ==
    /\ r \notin View /\ row[r].state = "absent"
    /\ Unlocked
    /\ managed /\ allow["connect"] /\ available["connect"]
    /\ row' = [row EXCEPT ![r] = NewRow("connect")]
    /\ UNCHANGED <<database, clock, itsm, job, editor>>

ViewAllowed == Unlocked /\ allow["view"] /\ available["view"]

\* CreatePasswordViewRequest when the operator has no open request.
CreateView(r) ==
    /\ r \in View /\ row[r].state = "absent"
    /\ ViewAllowed
    /\ \A v \in View : row[v].state \notin Open
    /\ row' = [row EXCEPT ![r] = NewRow("view")]
    /\ UNCHANGED <<database, clock, itsm, job, editor>>

\* CreatePasswordViewRequest reads the operator's open request, without a lock on
\* its row.  One that is still of use is returned instead of a new one.
ReadOpenView(r, old) ==
    /\ r \in View /\ row[r].state = "absent"
    /\ ViewAllowed
    /\ old \in View /\ row[old].state \in Open
    /\ ~(Current(row[old], "view") /\ ((row[old].state = "pending" /\ ~due[old]) \/ Access(old)))
    /\ editor' = [new |-> r, old |-> old, copy |-> row[old]]
    /\ UNCHANGED <<row, database, clock, itsm, job>>

\* Fault: the request it replaces stays open.
ReplaceViewOnly ==
    /\ ~Unlocked
    /\ row' = [row EXCEPT ![editor.new] = NewRow("view")]
    /\ editor' = NoEditor
    /\ UNCHANGED <<database, clock, itsm, job>>

\* It then invalidates its copy, saves the copy over the row, and creates the request.
ReplaceView ==
    /\ ~Unlocked
    /\ row' = [row EXCEPT
          ![editor.old] = Revoked(Scheduled([editor.copy EXCEPT !.state = "invalidated"]), "scope"),
          ![editor.new] = NewRow("view")]
    /\ editor' = NoEditor
    /\ UNCHANGED <<database, clock, itsm, job>>

\* Fault: the state of the row is not checked.
CancelAny(r) ==
    /\ row[r].state \notin {"absent", "cancelled"}
    /\ row' = [row EXCEPT ![r] = [Scheduled(row[r]) EXCEPT !.state = "cancelled", !.revoked = "cancel"]]
    /\ UNCHANGED <<database, clock, itsm, job, editor>>

\* Cancel, by the requester or a manager; it locks the request only.
Cancel(r) ==
    /\ row[r].state \in Open
    /\ row' = [row EXCEPT ![r] = Revoked(Scheduled([row[r] EXCEPT !.state = "cancelled"]), "cancel")]
    /\ UNCHANGED <<database, clock, itsm, job, editor>>

\* PAMPolicyService.Save and SavePasswordViewSettings.
SavePolicy(k, on) ==
    /\ Unlocked
    /\ k = "connect" => managed
    /\ policy[k] < MaxRevision
    /\ policy' = [policy EXCEPT ![k] = @ + 1]
    /\ allow' = [allow EXCEPT ![k] = on]
    /\ InvalidateAll(k, "policy")
    /\ UNCHANGED <<managed, available, scope, clock, itsm, job, editor>>

\* RemoveManagement deletes bindings and the connection policy; password view
\* requests go on, for an account that is then always enabled.
RemoveManagement ==
    /\ Unlocked /\ managed
    /\ policy["connect"] < MaxRevision /\ scope["connect"] < MaxRevision
    /\ managed' = FALSE
    /\ policy' = [policy EXCEPT !["connect"] = @ + 1]
    /\ allow' = [allow EXCEPT !["connect"] = FALSE]
    /\ scope' = [scope EXCEPT !["connect"] = @ + 1]
    /\ available' = [connect |-> FALSE, view |-> TRUE]
    /\ InvalidateAll("connect", "management")
    /\ UNCHANGED <<clock, itsm, job, editor>>

\* Adopt creates new bindings; the policy stays the default one until it is saved.
Adopt ==
    /\ Unlocked /\ ~managed
    /\ managed' = TRUE
    /\ available' = [k \in Kind |-> TRUE]
    /\ UNCHANGED <<row, policy, allow, scope, clock, itsm, job, editor>>

\* A reviewed binding or a published password: requests keep the old one pinned.
EditScope(k) ==
    /\ Unlocked
    /\ k = "connect" => managed
    /\ scope[k] < MaxRevision
    /\ scope' = [scope EXCEPT ![k] = @ + 1]
    /\ UNCHANGED <<row, policy, allow, managed, available, clock, itsm, job, editor>>

\* SetEnabled, for both kinds; an edit of the asset's address, for connections.
SetAvailable(k) ==
    /\ managed
    /\ k = "view" => Unlocked
    /\ available' = IF k = "view"
                    THEN [j \in Kind |-> ~available["view"]]
                    ELSE [available EXCEPT ![k] = ~@]
    /\ k = "connect" => available["view"]
    /\ UNCHANGED <<row, policy, allow, managed, scope, clock, itsm, job, editor>>

\* RetrySync, by the requester or a manager.
RetrySync(r) ==
    /\ row[r].sync = "failed"
    /\ row' = [row EXCEPT ![r] = Scheduled(row[r])]
    /\ UNCHANGED <<database, clock, itsm, job, editor>>
-----------------------------------------------------------------------------
Goto(w, next) == job' = [job EXCEPT ![w].step = next]

\* The synchronization returns: done, to be continued, or with an error.
Returned(w, step, done) ==
    [Idle EXCEPT !.step = step, !.req = job[w].req, !.attempts = job[w].attempts, !.done = done]

Return(w, step, done) == job' = [job EXCEPT ![w] = Returned(w, step, done)]

\* ProcessPAMITSMWork leases a request whose next synchronization is due.
Claim(w, r) ==
    /\ job[w].step = "idle"
    /\ row[r].sync \in {"pending", "running"}
    /\ row[r].lease # "held"
    /\ row' = [row EXCEPT ![r] = [@ EXCEPT !.sync = "running", !.owner = w, !.lease = "held"]]
    /\ job' = [job EXCEPT ![w] = [Idle EXCEPT !.step = "load", !.req = r, !.attempts = row[r].attempts]]
    /\ UNCHANGED <<database, clock, itsm, editor>>

\* The worker reads its copy; only a request with a ticket is called for at once.
Load(w) ==
    LET x == row[job[w].req] IN
    /\ job[w].step = "load"
    /\ job' = [job EXCEPT ![w] = [@ EXCEPT !.ticket = x.ticket, !.term = x.state \in Finished,
                                           !.step = IF x.ticket THEN "call" ELSE "expire"]]
    /\ UNCHANGED <<row, database, clock, itsm, editor>>

\* expirePAMITSMRequest under the lock of the row.
Expired(r) ==
    LET x == row[r] IN
    IF (x.state = "pending" /\ due[r]) \/ (x.state = "approved" /\ x.granted /\ over[r])
    THEN Revoked([x EXCEPT !.state = "expired"], "expired")
    ELSE x

\* A request without a ticket expires before one is created.
ExpireFirst(w) ==
    LET r == job[w].req IN
    /\ job[w].step = "expire"
    /\ row' = [row EXCEPT ![r] = Expired(r)]
    /\ job' = [job EXCEPT ![w] = [@ EXCEPT !.ticket = row[r].ticket, !.step = "call",
                                           !.term = Expired(r).state \in Finished]]
    /\ UNCHANGED <<database, clock, itsm, editor>>

\* The operation that the worker asks of the ITSM service.
OperationOf(j) ==
    IF j.step = "close" \/ j.term THEN "cancel"
    ELSE IF j.ticket THEN "status" ELSE "create"

\* What the ITSM service does: it knows a request by its id, and remembers one that
\* was cancelled before it had a ticket.
Served(x, op) ==
    CASE op = "create" /\ x.verdict = "none" -> [x EXCEPT !.verdict = "open", !.id = TRUE]
      [] op = "cancel" /\ x.verdict \in {"none", "open"} -> [x EXCEPT !.verdict = "cancelled", !.rev = 1]
      [] OTHER -> x

\* The call is served and answered.  A creation may still be under way, and a
\* cancellation without a ticket must be confirmed.
Call(w, served) ==
    LET r == job[w].req
        op == OperationOf(job[w])
        x == IF served THEN Served(remote[r], op) ELSE remote[r] IN
    /\ job[w].step \in {"call", "close"}
    /\ ~served => op = "create" /\ remote[r].verdict = "none"
    /\ remote' = [remote EXCEPT ![r] = x]
    /\ job' = [job EXCEPT ![w] =
          CASE @.step = "close" -> [@ EXCEPT !.step = "rebind"]
            [] @.step = "call" /\ op = "cancel" /\ ~@.ticket ->
                  Returned(w, IF x.verdict = "cancelled" THEN "finish" ELSE "fail", x.verdict = "cancelled")
            [] @.step = "call" /\ ~(op = "cancel" /\ ~@.ticket) /\ x.id ->
                  [@ EXCEPT !.step = "bind", !.answer = x]
            [] OTHER -> Returned(w, "finish", FALSE)]
    /\ UNCHANGED <<row, database, clock, late, editor>>

\* The call fails: it was lost, or it still travels to the ITSM service.
CallFails(w, lost) ==
    /\ job[w].step \in {"call", "close"}
    /\ ~lost => OperationOf(job[w]) # "status" /\ Cardinality(late) < MaxLate
    /\ late' = IF lost THEN late ELSE late \cup {<<job[w].req, OperationOf(job[w])>>}
    /\ Return(w, "fail", FALSE)
    /\ UNCHANGED <<row, database, clock, remote, editor>>

\* bindITSMTicket.
Bind(w) ==
    LET r == job[w].req IN
    /\ job[w].step \in {"bind", "rebind"}
    /\ row' = [row EXCEPT ![r] = [@ EXCEPT !.ticket = TRUE]]
    /\ IF job[w].step = "rebind" THEN Return(w, "finish", TRUE)
       ELSE Goto(w, IF job[w].answer.rev > 0 THEN "accept" ELSE "settle")
    /\ UNCHANGED <<database, clock, itsm, editor>>

\* Fault: events of an earlier revision are taken as well.
DecidedAgain(r, t) ==
    LET x == [row[r] EXCEPT !.provider = t.rev] IN
    IF t.verdict = "approved"
    THEN [x EXCEPT !.state = "approved", !.granted = TRUE]
    ELSE Revoked([x EXCEPT !.state = IF t.verdict = "rejected" THEN "rejected" ELSE "cancelled"], "itsm")

\* Fault: an approval is taken although the policy or the scope has changed.
DecidedBlindly(r, t) ==
    LET x == [row[r] EXCEPT !.provider = t.rev] IN
    CASE x.state \notin Open -> x
      [] x.state = "approved" /\ t.verdict = "approved" -> x
      [] x.state = "pending" /\ t.verdict = "approved" -> [x EXCEPT !.state = "approved", !.granted = TRUE]
      [] t.verdict \in {"rejected", "cancelled", "withdrawn"} ->
            Revoked([x EXCEPT !.state = IF t.verdict = "rejected" THEN "rejected" ELSE "cancelled"], "itsm")

\* acceptPAMITSMDecision after its checks: what the event makes of the row.
Decided(r, t) ==
    LET x == [row[r] EXCEPT !.provider = t.rev] IN
    CASE x.state \notin Open -> x
      [] x.state = "approved" /\ t.verdict \in {"approved", "unqualified"} -> x
      [] x.state = "pending" /\ t.verdict = "approved" ->
            IF t.late \/ over[r] THEN [x EXCEPT !.state = "expired"]
            ELSE IF ~Current(x, KindOf(r)) THEN [x EXCEPT !.state = "invalidated"]
            ELSE [x EXCEPT !.state = "approved", !.granted = TRUE]
      [] x.state \in Open /\ t.verdict \in {"rejected", "cancelled", "withdrawn"} ->
            Revoked([x EXCEPT !.state = IF t.verdict = "rejected" THEN "rejected" ELSE "cancelled"], "itsm")

\* The event is refused: it is older than one accepted before, or nobody qualified
\* approved it.
Refused(r, t) ==
    \/ t.rev < row[r].provider
    \/ t.rev > row[r].provider /\ row[r].state = "pending" /\ t.verdict = "unqualified"

\* acceptPAMITSMDecision, under the locks of account, policy and request.
Accept(w) ==
    LET r == job[w].req
        t == job[w].answer IN
    /\ job[w].step = "accept"
    /\ Unlocked
    /\ IF Refused(r, t)
       THEN Return(w, "fail", FALSE) /\ UNCHANGED row
       ELSE /\ Goto(w, "settle")
            /\ row' = [row EXCEPT ![r] = IF t.rev = @.provider THEN @ ELSE Decided(r, t)]
    /\ UNCHANGED <<database, clock, itsm, editor>>

\* Fault: a request that expired meanwhile keeps its remote ticket.
SettleWithoutClosing(w) ==
    LET r == job[w].req
        x == Expired(r) IN
    /\ job[w].step = "settle"
    /\ row' = [row EXCEPT ![r] = x]
    /\ Return(w, "finish", x.state \in Finished)
    /\ UNCHANGED <<database, clock, itsm, editor>>

\* Fault: nothing is left to do once a ticket has been decided.
SettleWhenDecided(w) ==
    LET r == job[w].req
        x == Expired(r) IN
    /\ job[w].step = "settle"
    /\ row' = [row EXCEPT ![r] = x]
    /\ IF ~job[w].term /\ x.state \in {"expired", "invalidated"}
       THEN job' = [job EXCEPT ![w] = [Returned(w, "close", FALSE) EXCEPT !.ticket = TRUE]]
       ELSE Return(w, "finish", job[w].term \/ job[w].answer.rev > 0)
    /\ UNCHANGED <<database, clock, itsm, editor>>

\* The rest of syncPAMITSMRequest: a request that expired or was invalidated in
\* between still has to close its ticket.
Settle(w) ==
    LET r == job[w].req
        x == Expired(r) IN
    /\ job[w].step = "settle"
    /\ row' = [row EXCEPT ![r] = x]
    /\ IF ~job[w].term /\ x.state \in {"expired", "invalidated"}
       THEN job' = [job EXCEPT ![w] = [Returned(w, "close", FALSE) EXCEPT !.ticket = TRUE]]
       ELSE Return(w, "finish", \/ job[w].term
                                \/ job[w].answer.verdict \in {"rejected", "cancelled", "withdrawn"}
                                \/ x.granted /\ over[r])
    /\ UNCHANGED <<database, clock, itsm, editor>>

\* The worker writes its result, unless its lease has passed to another or was cleared.
Finish(w) ==
    LET r == job[w].req
        failed == job[w].step = "fail"
        next == CASE failed /\ job[w].attempts + 1 >= MaxAttempts -> "failed"
                  [] ~failed /\ job[w].done -> "done"
                  [] OTHER -> "pending" IN
    /\ job[w].step \in {"finish", "fail"}
    /\ row' = IF row[r].owner # w THEN row
              ELSE [row EXCEPT ![r] = [@ EXCEPT
                     !.sync = next, !.owner = None, !.lease = "none",
                     !.attempts = IF failed THEN job[w].attempts + 1 ELSE 0]]
    /\ job' = [job EXCEPT ![w] = Idle]
    /\ UNCHANGED <<database, clock, itsm, editor>>

\* A database error in the middle of a synchronization.
Fail(w) ==
    /\ job[w].step \notin {"idle", "finish", "fail"}
    /\ Return(w, "fail", FALSE)
    /\ UNCHANGED <<row, database, clock, itsm, editor>>

\* The process dies, or cannot write its result.
Crash(w) ==
    /\ job[w].step # "idle"
    /\ job' = [job EXCEPT ![w] = Idle]
    /\ UNCHANGED <<row, database, clock, itsm, editor>>

\* A minute after the claim, whether or not its worker is still busy.
LeaseExpires(r) ==
    /\ row[r].lease = "held"
    /\ row' = [row EXCEPT ![r] = [@ EXCEPT !.lease = "expired"]]
    /\ UNCHANGED <<database, clock, itsm, job, editor>>
-----------------------------------------------------------------------------
\* People decide on an open ticket; an approval can be withdrawn later.
Decide(r, verdict) ==
    /\ IF verdict = "withdrawn"
       THEN remote[r].verdict = "approved"
       ELSE remote[r].verdict = "open"
    /\ remote' = [remote EXCEPT ![r] = [id |-> @.id, verdict |-> verdict, rev |-> @.rev + 1,
                     late |-> IF verdict = "withdrawn" THEN @.late ELSE due[r]]]
    /\ UNCHANGED <<row, database, clock, late, job, editor>>

\* A call whose caller gave up arrives after all.
Arrive(r, op) ==
    /\ <<r, op>> \in late
    /\ late' = late \ {<<r, op>>}
    /\ remote' = [remote EXCEPT ![r] = Served(@, op)]
    /\ UNCHANGED <<row, database, clock, job, editor>>

\* ExpiresAt passes; the approved period, counted from the decision, ends.
RequestDue(r) ==
    /\ row[r].state # "absent" /\ ~due[r]
    /\ due' = [due EXCEPT ![r] = TRUE]
    /\ UNCHANGED <<row, database, over, itsm, job, editor>>

PeriodOver(r) ==
    /\ remote[r].verdict \in {"approved", "withdrawn"} /\ ~over[r]
    /\ over' = [over EXCEPT ![r] = TRUE]
    /\ UNCHANGED <<row, database, due, itsm, job, editor>>
-----------------------------------------------------------------------------
WorkerStep(w) ==
    \/ \E r \in Req : Claim(w, r)
    \/ Load(w) \/ ExpireFirst(w)
    \/ \E served \in BOOLEAN : Call(w, served)
    \/ Bind(w) \/ Accept(w) \/ Settle(w) \/ Finish(w)

Trouble ==
    \E w \in Worker : Fail(w) \/ Crash(w) \/ \E lost \in BOOLEAN : CallFails(w, lost)

Operators ==
    \/ \E r \in Req : Create(r) \/ CreateView(r) \/ Cancel(r) \/ RetrySync(r)
    \/ \E r, old \in Req : ReadOpenView(r, old)
    \/ ReplaceView

Administration ==
    \/ \E r \in Req, on \in BOOLEAN : SavePolicy(KindOf(r), on)
    \/ \E r \in Req : EditScope(KindOf(r)) \/ SetAvailable(KindOf(r))
    \/ RemoveManagement \/ Adopt

Environment ==
    \/ \E r \in Req : RequestDue(r) \/ PeriodOver(r) \/ LeaseExpires(r)
    \/ \E r \in Req, verdict \in Decision : Decide(r, verdict)
    \/ \E r \in Req, op \in {"create", "cancel"} : Arrive(r, op)

Next ==
    \/ \E w \in Worker : WorkerStep(w)
    \/ Trouble \/ Operators \/ Administration \/ Environment

Spec == Init /\ [][Next]_vars

\* The scheduler starts a worker every 15 seconds, which takes the request that
\* waits longest; leases run out, an operator retries a failed synchronization, and
\* from some point on the database and the ITSM service stay reachable.
CalmNext ==
    \/ \E w \in Worker : WorkerStep(w)
    \/ Operators \/ Administration \/ Environment

Fairness ==
    /\ <>[][CalmNext]_vars
    /\ \A w \in Worker : WF_vars(WorkerStep(w))
    /\ \A r \in Req :
          /\ WF_vars(LeaseExpires(r)) /\ WF_vars(RetrySync(r))
          /\ SF_vars(\E w \in Worker : Claim(w, r))
          /\ SF_vars(\E w \in Worker : job[w].req = r /\ Call(w, TRUE))
    /\ WF_vars(ReplaceView)

LiveSpec == Spec /\ Fairness
-----------------------------------------------------------------------------
TypeOK ==
    /\ row \in [Req -> Row]
    /\ policy \in [Kind -> 1 .. MaxRevision]
    /\ allow \in [Kind -> BOOLEAN]
    /\ managed \in BOOLEAN
    /\ available \in [Kind -> BOOLEAN]
    /\ scope \in [Kind -> 1 .. MaxRevision]
    /\ due \in [Req -> BOOLEAN]
    /\ over \in [Req -> BOOLEAN]
    /\ remote \in [Req -> Ticket]
    /\ late \subseteq Req \X {"create", "cancel"}
    /\ job \in [Worker -> Job]
    /\ editor \in [new : Req \cup {None}, old : Req \cup {None}, copy : Row]

\* Nobody gets in without ITSM: an active access has a ticket whose event the
\* bastion accepted, approved in time, whatever answers were lost or came late.
ApprovedByProvider ==
    \A r \in Req : Access(r) =>
        /\ row[r].ticket /\ row[r].provider = 1
        /\ remote[r].verdict \in {"approved", "withdrawn"} /\ ~remote[r].late

\* A changed policy reaches every request: the ones that wait or give access were
\* all made under the present revision, also those that raced with the change.
PolicyCurrent ==
    \A r \in Req : row[r].state \in Open => row[r].policy = policy[KindOf(r)]

\* Synchronization ends only when nothing is left to do: the request is finished
\* and no ticket, however late its creation arrives, waits for a decision.
DoneIsClosed ==
    \A r \in Req : row[r].sync = "done" =>
        row[r].state \in Finished /\ remote[r].verdict \notin {"none", "open"}

\* An operator has at most one open request to view the password.
OneOpenView ==
    \A r, q \in View : row[r].state \in Open /\ row[q].state \in Open => r = q

\* A finished request never opens again, and an access that ended, was revoked or
\* ran out never comes back: not by a late approval and not by a stale worker.
NoReturn ==
    [][\A r \in Req :
          /\ row[r].state \in Finished => row'[r].state \in Finished
          /\ row[r].granted /\ ~Access(r) => ~Access(r)']_vars

\* Decisions are taken in the order in which ITSM made them.
ProviderMonotone ==
    [][\A r \in Req : row'[r].provider >= row[r].provider]_vars

\* "so a later Save cannot overwrite revocation" (pam_access.go:135): who revoked an
\* access, and why, is recorded once.
RevocationKept ==
    [][\A r \in Req : row[r].revoked # "no" => row'[r].revoked = row[r].revoked]_vars

\* A ticket by what it means for its request: an approval in time counts also when
\* it is withdrawn later, one that came too late or from too few people does not.
TicketStage(x) ==
    CASE x.verdict \in {"none", "open"} -> x.verdict
      [] x.verdict \in {"approved", "withdrawn"} /\ ~x.late -> "approved"
      [] OTHER -> "closed"

\* A request by how far it has come.
StageOf(x) == IF x.state \in Finished THEN "ended" ELSE x.state

\* The requests that give access now.
Active == {r \in Req : Access(r)}

\* The promise of the component, as a book of requests and their tickets.
Stage == [r \in Req |-> StageOf(row[r])]
Tickets == [r \in Req |-> TicketStage(remote[r])]
AccessBook == INSTANCE PAMAccess WITH
    stage <- Stage, active <- Active, ticket <- Tickets, rules <- policy

\* Every behaviour of rows, workers, lost calls and stale copies is a behaviour of
\* PAMAccess: approved once and only on an approved ticket, ended with its policy or
\* with the next view request, and no ticket of a live request is ever cancelled.
ImplementsAccess == AccessBook!Spec

\* No ticket is forgotten: when a request was cancelled, expired or invalidated, its
\* ticket is closed in the end, even one whose creation was never answered.
TicketClosed ==
    \A r \in Req : row[r].state \in Finished ~> remote[r].verdict # "open"

\* A rejection or a withdrawal in ITSM ends the request in the end.
VerdictArrives ==
    \A r \in Req : remote[r].verdict \in {"rejected", "withdrawn"} ~> row[r].state \notin Open
=============================================================================
