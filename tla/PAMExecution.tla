---------------------------- MODULE PAMExecution ----------------------------
(***************************************************************************)
(* Changing the password of one managed account: the execution rows of     *)
(* repository/pam_execution.go, the credential versions of                 *)
(* repository/pam_credentials.go, the runs of                              *)
(* service/pam_execution_runner.go and service/pam_password.go, the        *)
(* target the executors talk to, and the account and binding edits that    *)
(* race with them.                                                         *)
(*                                                                         *)
(* A run is one HTTP request handled by one server process.  It owns a     *)
(* fresh lease name, and it can vanish between any two of its steps.       *)
(***************************************************************************)
EXTENDS Naturals, FiniteSets

CONSTANTS
    Exec,          \* executions; e also names the candidate version e stages
    Manual,        \* versions stored by a credential edit of the account
    Initial,       \* the version the account was adopted with
    Run,           \* concurrent requests, each with its own lease name
    Key,           \* idempotency keys of the operators' requests
    Scope,         \* identities a binding can point at (pamPasswordTarget.scopeHash)
    Password,      \* plaintext values
    PasswordOf,    \* the plaintext of each version
    MaxRevision,   \* bound on the account and binding revisions
    ConfirmListed, \* operators keep an original only where the list offers recovery
    None

Version == Exec \cup Manual \cup {Initial}
Revision == 1 .. MaxRevision

ASSUME VersionAssumption ==
    /\ Initial \notin Exec \cup Manual
    /\ Exec \cap Manual = {}
ASSUME NoneAssumption ==
    /\ None \notin Exec
    /\ None \notin Run
    /\ None \notin Key
ASSUME PasswordAssumption == PasswordOf \in [Version -> Password]
ASSUME ScopeAssumption == Scope # {}
ASSUME BoundAssumption == MaxRevision \in Nat \ {0}
ASSUME ConfirmAssumption == ConfirmListed \in BOOLEAN

\* States of a row.  "kept" is the failed state with error code
\* original_verified; "absent" is a row that does not exist yet.
Uncertain == {"changing", "verifying", "unknown", "verified"}
Finished == {"completed", "failed", "kept"}
ExecState == {"absent", "prepared"} \cup Uncertain \cup Finished

\* What a run copied from the account and its binding when it loaded its
\* target, kept in the row once the run has prepared it.
Plan == [prev : Version, accountRev : Revision, bindingRev : Revision,
         scope : Scope, key : Key \cup {None}]

VARIABLES
    state,         \* State of each row
    active,        \* ActiveAccountID is set; the column has a unique index
    owner,         \* LeaseOwner
    lease,         \* LeaseUntil: "none" (null), "held" (in the future), "expired"
    plan,          \* the revisions, scope, previous version and key of each row
    managed,       \* Account.Managed
    enabled,       \* Account.Enabled
    accountRev,    \* Account.Revision
    current,       \* Account.CredentialVersionID
    versionState,  \* PAMCredentialVersion.State
    bindingRev,    \* the binding's id and revision, as one increasing number
    scope,         \* the identity the binding and its configuration point at
    bindingOn,     \* PAMAssetAccountBinding.Enabled
    matches,       \* BindingMatchesAsset: the asset still has the bound address
    remote,        \* the password that the target at each scope accepts
    mutation,      \* what became of the mutation of each execution
    sends,         \* how often the mutation of each execution was sent
    pc, mode, job, seen, live  \* the runs: step, kind, row, copied target, context

rows == <<state, active, owner, lease, plan>>
credentials == <<current, versionState>>
account == <<managed, enabled, accountRev>>
binding == <<bindingRev, scope, bindingOn, matches>>
target == <<remote, mutation, sends>>
runs == <<pc, mode, job, seen, live>>
vars == <<rows, credentials, account, binding, target, runs>>

NoPlan == [prev |-> Initial, accountRev |-> 1, bindingRev |-> 1,
           scope |-> CHOOSE s \in Scope : TRUE, key |-> None]

Init ==
    /\ state = [e \in Exec |-> "absent"]
    /\ active = [e \in Exec |-> FALSE]
    /\ owner = [e \in Exec |-> None]
    /\ lease = [e \in Exec |-> "none"]
    /\ plan = [e \in Exec |-> NoPlan]
    /\ managed \in BOOLEAN
    /\ enabled = TRUE
    /\ accountRev = 1
    /\ current = Initial
    /\ versionState = [v \in Version |-> IF v = Initial THEN "active" ELSE "none"]
    /\ bindingRev = 1
    /\ scope = NoPlan.scope
    /\ bindingOn = TRUE
    /\ matches = TRUE
    /\ remote = [s \in Scope |-> PasswordOf[Initial]]
    /\ mutation = [e \in Exec |-> "none"]
    /\ sends = [e \in Exec |-> 0]
    /\ pc = [r \in Run |-> "idle"]
    /\ mode = [r \in Run |-> "change"]
    /\ job = [r \in Run |-> None]
    /\ seen = [r \in Run |-> NoPlan]
    /\ live = [r \in Run |-> FALSE]
-----------------------------------------------------------------------------
\* loadPAMPasswordTarget finds an enabled account and an unchanged binding.
Usable == managed /\ enabled /\ bindingOn /\ matches

\* pamPasswordTarget.matchesExecution after loadPAMPasswordTarget: a recovery
\* accepts newer revisions as long as the identity of the target is the same.
Authorized(e, recovery) ==
    /\ Usable
    /\ IF recovery
       THEN scope = plan[e].scope
       ELSE bindingRev = plan[e].bindingRev /\ accountRev = plan[e].accountRev

\* (creator_uid, idempotency_key) has a row already.
KeyTaken(k) == \E e \in Exec : state[e] # "absent" /\ plan[e].key = k

\* Fault: an expired lease counts as a free account.
NoExecutionLeased == \A e \in Exec : lease[e] # "held"

\* No row holds the account's active slot: the unique index on ActiveAccountID,
\* and the count that guards removal and manual edits.
NoExecution == \A e \in Exec : ~active[e]

\* A lease name is a new uuid: no row holds it.
Fresh(r) == pc[r] = "idle" /\ \A e \in Exec : owner[e] # r

\* Fault: some live lease is enough.
WithLeaseAnyOwner(r, e) == managed /\ active[e] /\ lease[e] = "held"

\* withLease: the row is still active and leased to this run.
WithLease(r, e) ==
    /\ managed
    /\ active[e]
    /\ owner[e] = r
    /\ lease[e] = "held"

Goto(r, next) == pc' = [pc EXCEPT ![r] = next] /\ UNCHANGED <<mode, job, seen, live>>

\* The run ends: the response is written, or the process is gone.
End(r) ==
    /\ pc' = [pc EXCEPT ![r] = "idle"]
    /\ mode' = [mode EXCEPT ![r] = "change"]
    /\ job' = [job EXCEPT ![r] = None]
    /\ seen' = [seen EXCEPT ![r] = NoPlan]
    /\ live' = [live EXCEPT ![r] = FALSE]

\* ActiveAccountID, LeaseOwner and LeaseUntil are cleared with the outcome.
Close(e, outcome) ==
    /\ state' = [state EXCEPT ![e] = outcome]
    /\ active' = [active EXCEPT ![e] = FALSE]
    /\ owner' = [owner EXCEPT ![e] = None]
    /\ lease' = [lease EXCEPT ![e] = "none"]
    /\ UNCHANGED plan

\* Fault: the previous version is not retired.
ActivateKeepingBoth(previous, candidate) ==
    /\ current = previous
    /\ current' = candidate
    /\ versionState' = [versionState EXCEPT ![candidate] = "active"]

\* Activate and the compare-and-swap of the account's version that goes with it.
Activate(previous, candidate) ==
    /\ versionState[candidate] \in {"none", "pending"}
    /\ current = previous
    /\ versionState[previous] = "active"
    /\ current' = candidate
    /\ versionState' = [versionState EXCEPT ![candidate] = "active",
                                            ![previous] = "retained"]

SetState(e, next) ==
    /\ state' = [state EXCEPT ![e] = next]
    /\ UNCHANGED <<active, owner, lease, plan>>
-----------------------------------------------------------------------------
\* StartPAMPasswordChange up to Prepare: a key that already has a row only
\* returns that row, and the request's own revisions must still be current.
Start(r, k) ==
    /\ Fresh(r)
    /\ Usable
    /\ ~KeyTaken(k)
    /\ pc' = [pc EXCEPT ![r] = "prepare"]
    /\ live' = [live EXCEPT ![r] = TRUE]
    /\ seen' = [seen EXCEPT ![r] =
                  [prev |-> current, accountRev |-> accountRev,
                   bindingRev |-> bindingRev, scope |-> scope, key |-> k]]
    /\ UNCHANGED <<rows, credentials, account, binding, target, mode, job>>

\* Prepare found a row of the same request: the run continues with that row.
PrepareReplay(r, e) ==
    /\ pc[r] = "prepare" /\ live[r] /\ managed
    /\ state[e] # "absent" /\ plan[e].key = seen[r].key
    /\ pc' = [pc EXCEPT ![r] = "claim"]
    /\ job' = [job EXCEPT ![r] = e]
    /\ UNCHANGED <<rows, credentials, account, binding, target, mode, seen, live>>

\* Prepare under the account lock: everything the run copied is still current,
\* the row takes the account's only active slot, and the candidate is staged.
Prepare(r, e) ==
    /\ pc[r] = "prepare" /\ live[r]
    /\ ~KeyTaken(seen[r].key)
    /\ state[e] = "absent"
    /\ Usable
    /\ accountRev = seen[r].accountRev /\ current = seen[r].prev
    /\ bindingRev = seen[r].bindingRev
    /\ NoExecution
    /\ state' = [state EXCEPT ![e] = "prepared"]
    /\ active' = [active EXCEPT ![e] = TRUE]
    /\ plan' = [plan EXCEPT ![e] = seen[r]]
    /\ versionState' = [versionState EXCEPT ![e] = "pending"]
    /\ pc' = [pc EXCEPT ![r] = "claim"]
    /\ job' = [job EXCEPT ![r] = e]
    /\ UNCHANGED <<owner, lease, current, account, binding, target, mode, seen, live>>

\* ContinuePAMPassword: resume a prepared row, or reconcile a row whose change
\* may have been sent.  The list offers rows without a live lease only.
Continue(r, e, recovery) ==
    /\ Fresh(r)
    /\ state[e] \notin {"absent", "completed"}
    /\ recovery \/ state[e] = "prepared"
    /\ Authorized(e, recovery)
    /\ pc' = [pc EXCEPT ![r] = "claim"]
    /\ mode' = [mode EXCEPT ![r] = IF recovery THEN "reconcile" ELSE "change"]
    /\ job' = [job EXCEPT ![r] = e]
    /\ live' = [live EXCEPT ![r] = TRUE]
    /\ UNCHANGED <<rows, credentials, account, binding, target, seen>>

\* What GetPAMPasswordExecutions offers for recovery.
CanReconcile(e) == lease[e] # "held" /\ state[e] \in Uncertain

\* ContinuePAMPassword with keep-original: the operator confirms, against the
\* revision the controller just read, that nothing runs on the target any more.
KeepOriginal(r, e) ==
    /\ Fresh(r)
    /\ state[e] \notin {"absent", "completed"}
    /\ ConfirmListed => CanReconcile(e)
    /\ mutation[e] # "inflight"
    /\ Authorized(e, TRUE)
    /\ pc' = [pc EXCEPT ![r] = "claim"]
    /\ mode' = [mode EXCEPT ![r] = "keep"]
    /\ job' = [job EXCEPT ![r] = e]
    /\ live' = [live EXCEPT ![r] = TRUE]
    /\ UNCHANGED <<rows, credentials, account, binding, target, seen>>

\* The row is leased to a new run.
Lease(r, e, next) ==
    /\ pc[r] = "claim" /\ live[r] /\ job[r] = e
    /\ active[e]
    /\ lease[e] # "held"
    /\ state' = [state EXCEPT ![e] = next]
    /\ owner' = [owner EXCEPT ![e] = r]
    /\ lease' = [lease EXCEPT ![e] = "held"]
    /\ Goto(r, "authorize")
    /\ UNCHANGED <<active, plan, credentials, account, binding, target>>

\* Fault: an expired execution is simply started again.
ClaimAgain(r, e) == Lease(r, e, "prepared")

\* Fault: a lease that ran out still excludes another run.
ClaimOnce(r, e) ==
    /\ lease[e] = "none"
    /\ (state[e] = "prepared") # (mode[r] # "change")
    /\ Lease(r, e, IF state[e] = "prepared" THEN "prepared" ELSE "unknown")

\* Claim: only a prepared row may still change the password; every other row is
\* claimed for a recovery, which starts from an unknown result.
Claim(r, e) ==
    /\ (state[e] = "prepared") # (mode[r] # "change")
    /\ Lease(r, e, IF state[e] = "prepared" THEN "prepared" ELSE "unknown")

\* RunPAMExecution authorizes the claimed row again and reads its candidate;
\* preservePAMOriginal reads the previous version instead.
Authorize(r, e) ==
    /\ pc[r] = "authorize" /\ live[r] /\ job[r] = e
    /\ Authorized(e, mode[r] # "change")
    /\ IF mode[r] = "keep"
       THEN versionState[plan[e].prev] = "active"
       ELSE versionState[e] = "pending"
    /\ mode[r] = "change" => versionState[plan[e].prev] = "active"
    /\ Goto(r, CASE mode[r] = "change" -> "change"
                 [] mode[r] = "reconcile" -> "verify"
                 [] mode[r] = "keep" -> "original")
    /\ UNCHANGED <<rows, credentials, account, binding, target>>

\* A refused authorization ends a change that was never sent.
Refuse(r) ==
    /\ pc[r] = "authorize" /\ mode[r] = "change"
    /\ Goto(r, "refused")
    /\ UNCHANGED <<rows, credentials, account, binding, target>>
-----------------------------------------------------------------------------
\* The executor fails before or inside its before callback, or its context
\* ends, or the reply to a committed BeforeChange is lost: nothing was sent.
NotAttempted(r) ==
    /\ pc[r] \in {"change", "sending"}
    /\ Goto(r, "unsent")
    /\ UNCHANGED <<rows, credentials, account, binding, target>>

\* The before callback: authorize, then BeforeChange records the send boundary.
BeforeChange(r, e) ==
    /\ pc[r] = "change" /\ live[r] /\ job[r] = e
    /\ Authorized(e, FALSE)
    /\ WithLease(r, e)
    /\ state[e] = "prepared"
    /\ current = plan[e].prev
    /\ versionState[e] = "pending"
    /\ SetState(e, "changing")
    /\ Goto(r, "sending")
    /\ UNCHANGED <<credentials, account, binding, target>>

\* session.Run or ExecContext: the change context is still alive.
Send(r, e) ==
    /\ pc[r] = "sending" /\ live[r] /\ job[r] = e
    /\ mutation' = [mutation EXCEPT ![e] = "inflight"]
    /\ sends' = [sends EXCEPT ![e] = @ + 1]
    /\ Goto(r, "waiting")
    /\ UNCHANGED <<rows, credentials, account, binding, remote>>

\* Fault: every error of the driver counts as a refusal.
ResponseGuessed(r, e, result) ==
    /\ pc[r] = "waiting" /\ job[r] = e
    /\ result = "changed" => mutation[e] = "applied"
    /\ Goto(r, result)
    /\ UNCHANGED <<rows, credentials, account, binding, target>>

\* The executor's result: changed, confirmed unchanged, or lost.
Response(r, e, result) ==
    /\ pc[r] = "waiting" /\ job[r] = e
    /\ result = "changed" => mutation[e] = "applied"
    /\ result = "rejected" => mutation[e] = "rejected"
    /\ Goto(r, result)
    /\ UNCHANGED <<rows, credentials, account, binding, target>>

\* FinishUnsent.  After a refused authorization it still runs under the
\* request's own context.
FinishUnsent(r, e) ==
    /\ pc[r] = "unsent" \/ (pc[r] = "refused" /\ live[r])
    /\ job[r] = e
    /\ WithLease(r, e)
    /\ state[e] \in {"prepared", "changing"}
    /\ Close(e, "failed")
    /\ End(r)
    /\ UNCHANGED <<credentials, account, binding, target>>

\* RejectChange.
RejectChange(r, e) ==
    /\ pc[r] = "rejected" /\ job[r] = e
    /\ WithLease(r, e)
    /\ state[e] = "changing"
    /\ Close(e, "failed")
    /\ End(r)
    /\ UNCHANGED <<credentials, account, binding, target>>

\* ChangeResult: the run goes on to verify only a change that was acknowledged.
ChangeResult(r, e) ==
    /\ pc[r] \in {"changed", "lost"} /\ job[r] = e
    /\ WithLease(r, e)
    /\ state[e] = "changing"
    /\ IF pc[r] = "changed"
       THEN SetState(e, "verifying") /\ Goto(r, "verify")
       ELSE SetState(e, "unknown") /\ End(r)
    /\ UNCHANGED <<credentials, account, binding, target>>

\* The executor's Verify with the candidate: the target accepts it or the
\* attempt fails, for whatever reason.
Verify(r, e, accepted) ==
    /\ pc[r] = "verify" /\ job[r] = e
    /\ accepted => live[r] /\ remote[plan[e].scope] = PasswordOf[e]
    /\ Goto(r, IF accepted THEN "accepted" ELSE "denied")
    /\ UNCHANGED <<rows, credentials, account, binding, target>>

\* CandidateResult.
CandidateResult(r, e) ==
    /\ pc[r] \in {"accepted", "denied"} /\ job[r] = e
    /\ WithLease(r, e)
    /\ state[e] \in {"verifying", "unknown"}
    /\ IF pc[r] = "accepted"
       THEN SetState(e, "verified") /\ Goto(r, "publish")
       ELSE SetState(e, "unknown") /\ End(r)
    /\ UNCHANGED <<credentials, account, binding, target>>

\* Publish: the account, both versions and the row change in one transaction.
Publish(r, e) ==
    /\ pc[r] = "publish" /\ job[r] = e
    /\ WithLease(r, e)
    /\ state[e] = "verified"
    /\ versionState[e] = "pending"
    /\ Activate(plan[e].prev, e)
    /\ Close(e, "completed")
    /\ End(r)
    /\ UNCHANGED <<account, binding, target>>

\* preservePAMOriginal verifies the previous version on the target.
VerifyOriginal(r, e) ==
    /\ pc[r] = "original" /\ live[r] /\ job[r] = e
    /\ remote[plan[e].scope] = PasswordOf[plan[e].prev]
    /\ Goto(r, "preserve")
    /\ UNCHANGED <<rows, credentials, account, binding, target>>

\* PreserveOriginal.
PreserveOriginal(r, e) ==
    /\ pc[r] = "preserve" /\ job[r] = e
    /\ WithLease(r, e)
    /\ state[e] = "unknown"
    /\ current = plan[e].prev
    /\ versionState[e] = "pending"
    /\ versionState' = [versionState EXCEPT ![e] = "retained"]
    /\ Close(e, "kept")
    /\ End(r)
    /\ UNCHANGED <<current, account, binding, target>>

\* A refused transaction, a failed read, a cancelled request or a crash: the
\* run ends and the row stays as the last commit left it.
Abandon(r) ==
    /\ pc[r] # "idle"
    /\ End(r)
    /\ UNCHANGED <<rows, credentials, account, binding, target>>

\* The request's context ends: its 85 second deadline, or the client is gone.
ContextDone(r) ==
    /\ live[r]
    /\ live' = [live EXCEPT ![r] = FALSE]
    /\ UNCHANGED <<rows, credentials, account, binding, target, pc, mode, job, seen>>

\* Two minutes after its Claim.  A request's context lives for 85 seconds, so
\* the run that claimed the row has lost its context by then.
LeaseExpires(e) ==
    /\ lease[e] = "held"
    /\ \A r \in Run : owner[e] = r => ~live[r]
    /\ lease' = [lease EXCEPT ![e] = "expired"]
    /\ UNCHANGED <<state, active, owner, plan, credentials, account, binding, target, runs>>
-----------------------------------------------------------------------------
\* The target executes, refuses or never sees a mutation, at its own pace and
\* whether or not the run that sent it still waits.
Settle(e, fate) ==
    /\ mutation[e] = "inflight"
    /\ mutation' = [mutation EXCEPT ![e] = fate]
    /\ remote' = IF fate = "applied"
                 THEN [remote EXCEPT ![plan[e].scope] = PasswordOf[e]]
                 ELSE remote
    /\ UNCHANGED <<rows, credentials, account, binding, sends, runs>>

\* Someone changes the password on the target without the bastion.
ChangeOutside(s, m) ==
    /\ remote' = [remote EXCEPT ![s] = PasswordOf[m]]
    /\ UNCHANGED <<rows, credentials, account, binding, mutation, sends, runs>>

\* UpdateStoredCredential: an operator stores a credential by hand, which a
\* managed account refuses while one of its executions is active.
StoreCredential(m) ==
    /\ versionState[m] = "none"
    /\ managed => NoExecution
    /\ Activate(current, m)
    /\ UNCHANGED <<rows, account, binding, target, runs>>

\* SetEnabled.
SetEnabled ==
    /\ managed
    /\ accountRev < MaxRevision
    /\ enabled' = ~enabled
    /\ accountRev' = accountRev + 1
    /\ UNCHANGED <<rows, credentials, managed, binding, target, runs>>

\* RemoveManagement: the bindings are deleted with the management data.
RemoveManagement ==
    /\ managed
    /\ NoExecution
    /\ accountRev < MaxRevision
    /\ managed' = FALSE
    /\ enabled' = TRUE
    /\ accountRev' = accountRev + 1
    /\ UNCHANGED <<rows, credentials, binding, target, runs>>

\* Adopt: management starts again, with a new binding.
Adopt(s) ==
    /\ ~managed
    /\ accountRev < MaxRevision /\ bindingRev < MaxRevision
    /\ managed' = TRUE
    /\ enabled' = TRUE
    /\ accountRev' = accountRev + 1
    /\ bindingRev' = bindingRev + 1
    /\ scope' = s
    /\ bindingOn' = TRUE
    /\ matches' = TRUE
    /\ UNCHANGED <<rows, credentials, target, runs>>

\* ReviewBinding: the binding takes the present address of its asset.
ReviewBinding(s, on) ==
    /\ managed /\ enabled
    /\ bindingRev < MaxRevision
    /\ bindingRev' = bindingRev + 1
    /\ scope' = s
    /\ bindingOn' = on
    /\ matches' = TRUE
    /\ UNCHANGED <<rows, credentials, account, target, runs>>

\* SavePAMPasswordConfig: another host key, certificate or executor account.
SaveConfig(s) ==
    /\ Usable
    /\ bindingRev < MaxRevision
    /\ bindingRev' = bindingRev + 1
    /\ scope' = s
    /\ UNCHANGED <<rows, credentials, account, bindingOn, matches, target, runs>>

\* The address of the asset is edited, or edited back; the binding is not.
EditAsset ==
    /\ managed
    /\ matches' = ~matches
    /\ UNCHANGED <<rows, credentials, account, bindingRev, scope, bindingOn, target, runs>>
-----------------------------------------------------------------------------
\* Steps of the code on behalf of a run.
RunStep(r) ==
    \/ \E e \in Exec :
          \/ PrepareReplay(r, e) \/ Prepare(r, e) \/ Claim(r, e) \/ Authorize(r, e)
          \/ BeforeChange(r, e) \/ Send(r, e)
          \/ \E result \in {"changed", "rejected", "lost"} : Response(r, e, result)
          \/ FinishUnsent(r, e) \/ RejectChange(r, e) \/ ChangeResult(r, e)
          \/ \E accepted \in BOOLEAN : Verify(r, e, accepted)
          \/ CandidateResult(r, e) \/ Publish(r, e)
          \/ VerifyOriginal(r, e) \/ PreserveOriginal(r, e)
    \/ Refuse(r) \/ NotAttempted(r)

\* Requests of operators, and the ways a run is cut short.
Request(r) ==
    \/ \E k \in Key : Start(r, k)
    \/ \E e \in Exec, recovery \in BOOLEAN : Continue(r, e, recovery)
    \/ \E e \in Exec : KeepOriginal(r, e)

Target ==
    \/ \E e \in Exec, fate \in {"applied", "rejected", "dropped"} : Settle(e, fate)
    \/ \E s \in Scope, m \in Manual : ChangeOutside(s, m)

Administration ==
    \/ \E m \in Manual : StoreCredential(m)
    \/ SetEnabled \/ RemoveManagement \/ EditAsset
    \/ \E s \in Scope : Adopt(s) \/ SaveConfig(s)
    \/ \E s \in Scope, on \in BOOLEAN : ReviewBinding(s, on)

Next ==
    \/ \E r \in Run : Request(r) \/ RunStep(r) \/ Abandon(r) \/ ContextDone(r)
    \/ \E e \in Exec : LeaseExpires(e)
    \/ Target
    \/ Administration

Spec == Init /\ [][Next]_vars

\* A run whose context ended, or that no step of the code can take further,
\* returns to its caller.
Return(r) == Abandon(r) /\ (~live[r] \/ ~ENABLED RunStep(r))

\* A stretch without crashes, cancelled requests, or failed logins with a password
\* that the target accepts, in which operators start one request at a time and
\* wait for leases to run out, as the list of executions tells them to.
CalmNext ==
    \/ \E r \in Run :
          \/ /\ Request(r)
             /\ \A q \in Run : pc[q] = "idle"
             /\ \A e \in Exec : lease[e] # "held"
          \/ RunStep(r) /\ ~\E e \in Exec : /\ live[r] /\ remote[plan[e].scope] = PasswordOf[e]
                                            /\ Verify(r, e, FALSE)
          \/ Return(r)
    \/ \E e \in Exec : LeaseExpires(e)
    \/ Target
    \/ Administration

\* Operators try each kind of recovery again until the row is finished; nothing
\* in the server drives one on its own.  The server finishes or gives up what it
\* started, leases run out, and mutations end.
Fairness ==
    /\ <>[][CalmNext]_vars
    /\ \A r \in Run : WF_vars(RunStep(r)) /\ WF_vars(Return(r))
    /\ \A e \in Exec :
          /\ WF_vars(LeaseExpires(e))
          /\ WF_vars(\E fate \in {"applied", "rejected", "dropped"} : Settle(e, fate))
          /\ SF_vars(\E r \in Run : Continue(r, e, TRUE))
          /\ SF_vars(\E r \in Run : Continue(r, e, FALSE))
          /\ SF_vars(\E r \in Run : KeepOriginal(r, e))

LiveSpec == Spec /\ Fairness
-----------------------------------------------------------------------------
RunStepName == {"idle", "prepare", "claim", "authorize", "refused", "change", "unsent",
                "sending", "waiting", "changed", "rejected", "lost", "verify",
                "accepted", "denied", "publish", "original", "preserve"}

\* Every variable has its type.
TypeOK ==
    /\ state \in [Exec -> ExecState]
    /\ active \in [Exec -> BOOLEAN]
    /\ owner \in [Exec -> Run \cup {None}]
    /\ lease \in [Exec -> {"none", "held", "expired"}]
    /\ plan \in [Exec -> Plan]
    /\ managed \in BOOLEAN
    /\ enabled \in BOOLEAN
    /\ accountRev \in Revision
    /\ current \in Version
    /\ versionState \in [Version -> {"none", "pending", "active", "retained"}]
    /\ bindingRev \in Revision
    /\ scope \in Scope
    /\ bindingOn \in BOOLEAN
    /\ matches \in BOOLEAN
    /\ remote \in [Scope -> Password]
    /\ mutation \in [Exec -> {"none", "inflight", "applied", "rejected", "dropped"}]
    /\ sends \in [Exec -> Nat]
    /\ pc \in [Run -> RunStepName]
    /\ mode \in [Run -> {"change", "reconcile", "keep"}]
    /\ job \in [Run -> Exec \cup {None}]
    /\ seen \in [Run -> Plan]
    /\ live \in [Run -> BOOLEAN]

\* "It never ... repeats a mutation" (pam_execution_runner.go:21): across
\* crashes, expired leases, resumed and reconciling runs, the target is asked
\* to change the password at most once per execution.
SendOnce == \A e \in Exec : sends[e] <= 1

\* "ActiveAccountID is cleared only after a known outcome" (model/pam_execution.go:16):
\* a row whose account slot was freed has no mutation that may still reach the target.
KnownOutcome ==
    \A e \in Exec : state[e] \in Finished => mutation[e] # "inflight"

\* The recorded outcome is the outcome on the target: a published candidate was
\* applied there, and a failed change was never sent or was refused.
OutcomeIsTrue ==
    \A e \in Exec :
        /\ state[e] = "completed" => mutation[e] = "applied"
        /\ state[e] = "failed" => mutation[e] \in {"none", "rejected"}

\* A repeated or duplicated start request (same operator, same idempotency key)
\* never becomes a second execution, not even when both copies pass the first lookup.
OneRowPerKey ==
    \A e, f \in Exec :
        state[e] # "absent" /\ state[f] # "absent" /\ plan[e].key = plan[f].key => e = f

\* While a mutation may still reach the target, nobody removes the account from
\* management or replaces the stored credential: the previous version is active,
\* the candidate is pending, and the operator can still recover either of them.
InFlightPinned ==
    \A e \in Exec : mutation[e] = "inflight" =>
        /\ managed
        /\ current = plan[e].prev
        /\ versionState[plan[e].prev] = "active"
        /\ versionState[e] = "pending"

\* The account points at its only active version, whatever interleaving of
\* publications and manual edits led there; sessions read exactly that version.
PointerIsActive ==
    \A v \in Version : versionState[v] = "active" <=> v = current

\* The promise of the component, as an abstract critical section.
Rotation == INSTANCE PAMRotation WITH
    stored <- current,
    holder <- IF \E e \in Exec : active[e] THEN CHOOSE e \in Exec : active[e] ELSE None,
    sent   <- {e \in Exec : mutation[e] # "none"},
    landed <- {e \in Exec : mutation[e] \in {"applied", "rejected", "dropped"}},
    closed <- {e \in Exec : state[e] \in Finished}

\* Every behaviour of rows, leases and runs is a behaviour of PAMRotation: one
\* rotation at a time, sent at most once, published only after it landed.
ImplementsRotation == Rotation!Spec

\* What an operator needs to finish row e: the binding names its target, a prepared
\* row's revisions are current, and the target accepts one of the two passwords.
Finishable(e) ==
    /\ Authorized(e, state[e] # "prepared")
    /\ remote[plan[e].scope] \in {PasswordOf[e], PasswordOf[plan[e].prev]}

\* No state of a row is a dead end: whatever step the run before it stopped at, and
\* whatever was edited meanwhile, a finishable row gives its account's slot back.
Recoverable ==
    \A e \in Exec : <>[](active[e] => Finishable(e)) => (active[e] ~> ~active[e])

\* "can_resume" (pam_password.go:134): a prepared row without a live lease, which the
\* list of executions offers to resume, can be resumed.
ResumeOffered ==
    \A e \in Exec : <>[]Usable => (state[e] = "prepared" ~> state[e] # "prepared")
=============================================================================
