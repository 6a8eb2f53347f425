------------------------- MODULE PAMExecution_proofs -------------------------
(***************************************************************************)
(* Proofs about PAMExecution for any number of executions, runs, versions, *)
(* revisions and target identities.                                        *)
(***************************************************************************)
EXTENDS PAMExecution, TLAPS

\* Generated candidates: no two versions share a plaintext.
DistinctPasswords == \A v, w \in Version : PasswordOf[v] = PasswordOf[w] => v = w

\* The steps of a run between its Claim and its end.
Leased == {"authorize", "refused", "change", "unsent", "sending", "waiting", "changed",
           "rejected", "lost", "verify", "accepted", "denied", "publish", "original",
           "preserve"}

\* The steps of a changing run at which its mutation has not been sent.
Unsent == {"refused", "change", "unsent", "sending"}

\* The account has one slot; a row holds it from its preparation to its outcome.
SlotOK ==
    /\ \A e, f \in Exec : active[e] /\ active[f] => e = f
    /\ \A e \in Exec : active[e] <=> state[e] \in {"prepared"} \cup Uncertain
    /\ \A e \in Exec : active[e] => managed
    /\ \A e \in Exec : lease[e] = "held" \/ owner[e] # None => active[e]

\* While a row holds the slot the account's version is the one it replaces.
VersionOK ==
    /\ PointerIsActive
    /\ \A e \in Exec : active[e] => versionState[e] = "pending" /\ plan[e].prev = current
    /\ \A e \in Exec : state[e] = "absent" <=> versionState[e] = "none"

\* A run with a living context owns the unexpired lease of the row it claimed,
\* and no other row's.
LeaseOK ==
    \A r \in Run :
        /\ pc[r] = "idle" => ~live[r]
        /\ pc[r] \in {"idle", "prepare"} => mode[r] = "change"
        /\ pc[r] \notin {"idle", "prepare"} => job[r] \in Exec
        /\ pc[r] \in {"prepare", "claim"} => \A e \in Exec : owner[e] # r
        /\ pc[r] \in Leased =>
              /\ live[r] => owner[job[r]] = r /\ lease[job[r]] = "held"
              /\ \A e \in Exec : owner[e] = r => e = job[r]

\* What the state of a row says to the run that still owns it.
StepOK ==
    \A r \in Run : pc[r] \in Leased /\ owner[job[r]] = r =>
        /\ pc[r] \in {"authorize", "refused", "change"} /\ mode[r] = "change" => state[job[r]] = "prepared"
        /\ pc[r] \in Unsent \cup {"waiting", "changed", "rejected", "lost"} => mode[r] = "change"
        /\ pc[r] = "sending" => state[job[r]] = "changing"
        /\ pc[r] = "unsent" => state[job[r]] \in {"prepared", "changing"}
        /\ pc[r] \in Unsent => mutation[job[r]] = "none"

\* A mutation is sent once, after the row was prepared.
SendOK ==
    /\ \A e \in Exec : IF mutation[e] = "none" THEN sends[e] = 0 ELSE sends[e] = 1
    /\ \A e \in Exec : state[e] \in {"absent", "prepared"} => mutation[e] = "none"

\* The inductive invariant behind SendOnce and PointerIsActive.
Structure == TypeOK /\ SlotOK /\ VersionOK /\ LeaseOK /\ StepOK /\ SendOK

\* No run can still send the mutation of e, and none is on its way.
Settled(e) ==
    /\ state[e] \notin {"absent", "prepared"}
    /\ mutation[e] # "inflight"
    /\ \A r \in Run : pc[r] = "sending" /\ job[r] = e => ~live[r]

\* What the target and the runs know of a mutation.
Outcome ==
    /\ KnownOutcome
    /\ OutcomeIsTrue
    /\ \A s \in Scope, e \in Exec : remote[s] = PasswordOf[e] => mutation[e] = "applied"
    /\ \A e \in Exec : state[e] = "verified" => mutation[e] = "applied"
    /\ \A r \in Run : pc[r] \in {"changed", "accepted"} => mutation[job[r]] = "applied"
    /\ \A r \in Run : pc[r] = "rejected" => mutation[job[r]] = "rejected"
    /\ \A r \in Run : pc[r] \in {"original", "preserve"} => mode[r] = "keep"
    /\ \A r \in Run : pc[r] # "idle" /\ mode[r] = "keep" => Settled(job[r])
-----------------------------------------------------------------------------
LEMMA NoPlanType == NoPlan \in Plan
  BY ScopeAssumption, BoundAssumption DEF NoPlan, Plan, Version, Revision

\* Every step leaves every variable in its type.
LEMMA TypeStep == TypeOK /\ [Next]_vars => TypeOK'
<1> SUFFICES ASSUME TypeOK, [Next]_vars PROVE TypeOK'
  OBVIOUS
<1> USE NoPlanType, VersionAssumption, BoundAssumption, PasswordAssumption
        DEF TypeOK, ExecState, Uncertain, Finished, RunStepName, Revision,
            rows, credentials, account, binding, target, runs
<1>1. ASSUME NEW r \in Run, Request(r) PROVE TypeOK'
  <2>1. ASSUME NEW k \in Key, Start(r, k) PROVE TypeOK'
    <3>1. [prev |-> current, accountRev |-> accountRev, bindingRev |-> bindingRev,
           scope |-> scope, key |-> k] \in Plan
      BY DEF Plan
    <3> QED BY <2>1, <3>1 DEF Start
  <2>2. ASSUME NEW e \in Exec, NEW recovery \in BOOLEAN, Continue(r, e, recovery) PROVE TypeOK'
    BY <2>2 DEF Continue
  <2>3. ASSUME NEW e \in Exec, KeepOriginal(r, e) PROVE TypeOK'
    BY <2>3 DEF KeepOriginal
  <2> QED BY <1>1, <2>1, <2>2, <2>3 DEF Request
<1>2. ASSUME NEW r \in Run, NEW e \in Exec, PrepareReplay(r, e) PROVE TypeOK'
  BY <1>2 DEF PrepareReplay
<1>3. ASSUME NEW r \in Run, NEW e \in Exec, Prepare(r, e) PROVE TypeOK'
  BY <1>3 DEF Prepare, Version
<1>4. ASSUME NEW r \in Run, NEW e \in Exec, Claim(r, e) PROVE TypeOK'
  BY <1>4 DEF Claim, Lease, Goto
<1>5. ASSUME NEW r \in Run, NEW e \in Exec, Authorize(r, e) PROVE TypeOK'
  BY <1>5 DEF Authorize, Goto
<1>6. ASSUME NEW r \in Run, NEW e \in Exec, BeforeChange(r, e) PROVE TypeOK'
  BY <1>6 DEF BeforeChange, SetState, Goto
<1>7. ASSUME NEW r \in Run, NEW e \in Exec, Send(r, e) PROVE TypeOK'
  BY <1>7 DEF Send, Goto
<1>8. ASSUME NEW r \in Run, NEW e \in Exec,
             NEW result \in {"changed", "rejected", "lost"}, Response(r, e, result) PROVE TypeOK'
  BY <1>8 DEF Response, Goto
<1>9. ASSUME NEW r \in Run, NEW e \in Exec, FinishUnsent(r, e) PROVE TypeOK'
  BY <1>9 DEF FinishUnsent, Close, End
<1>10. ASSUME NEW r \in Run, NEW e \in Exec, RejectChange(r, e) PROVE TypeOK'
  BY <1>10 DEF RejectChange, Close, End
<1>11. ASSUME NEW r \in Run, NEW e \in Exec, ChangeResult(r, e) PROVE TypeOK'
  <2>1. CASE pc[r] = "changed"
    BY <1>11, <2>1 DEF ChangeResult, SetState, Goto
  <2>2. CASE pc[r] # "changed"
    <3>1. SetState(e, "unknown") /\ End(r) /\ UNCHANGED <<credentials, account, binding, target>>
      BY <1>11, <2>2 DEF ChangeResult
    <3> QED BY <3>1 DEF SetState, End
  <2> QED BY <2>1, <2>2
<1>12. ASSUME NEW r \in Run, NEW e \in Exec, NEW accepted \in BOOLEAN, Verify(r, e, accepted) PROVE TypeOK'
  BY <1>12 DEF Verify, Goto
<1>13. ASSUME NEW r \in Run, NEW e \in Exec, CandidateResult(r, e) PROVE TypeOK'
  <2>1. CASE pc[r] = "accepted"
    BY <1>13, <2>1 DEF CandidateResult, SetState, Goto
  <2>2. CASE pc[r] # "accepted"
    <3>1. SetState(e, "unknown") /\ End(r) /\ UNCHANGED <<credentials, account, binding, target>>
      BY <1>13, <2>2 DEF CandidateResult
    <3> QED BY <3>1 DEF SetState, End
  <2> QED BY <2>1, <2>2
<1>14. ASSUME NEW r \in Run, NEW e \in Exec, Publish(r, e) PROVE TypeOK'
  BY <1>14 DEF Publish, Activate, Close, End, Version
<1>15. ASSUME NEW r \in Run, NEW e \in Exec, VerifyOriginal(r, e) PROVE TypeOK'
  BY <1>15 DEF VerifyOriginal, Goto
<1>16. ASSUME NEW r \in Run, NEW e \in Exec, PreserveOriginal(r, e) PROVE TypeOK'
  BY <1>16 DEF PreserveOriginal, Close, End
<1>17. ASSUME NEW r \in Run, Refuse(r) \/ NotAttempted(r) PROVE TypeOK'
  BY <1>17 DEF Refuse, NotAttempted, Goto
<1>18. ASSUME NEW r \in Run, Abandon(r) \/ ContextDone(r) PROVE TypeOK'
  <2>1. CASE Abandon(r)
    BY <2>1 DEF Abandon, End
  <2>2. CASE ContextDone(r)
    BY <2>2 DEF ContextDone
  <2> QED BY <1>18, <2>1, <2>2
<1>19. ASSUME NEW e \in Exec, LeaseExpires(e) PROVE TypeOK'
  BY <1>19 DEF LeaseExpires
<1>20. CASE Target
  <2>1. ASSUME NEW e \in Exec, NEW fate \in {"applied", "rejected", "dropped"}, Settle(e, fate)
        PROVE TypeOK'
    BY <2>1 DEF Settle, Version, Plan
  <2>2. ASSUME NEW s \in Scope, NEW m \in Manual, ChangeOutside(s, m) PROVE TypeOK'
    BY <2>2 DEF ChangeOutside, Version
  <2> QED BY <1>20, <2>1, <2>2 DEF Target
<1>21. CASE Administration
  <2>1. ASSUME NEW m \in Manual, StoreCredential(m) PROVE TypeOK'
    BY <2>1 DEF StoreCredential, Activate, Version
  <2>2. CASE SetEnabled
    BY <2>2 DEF SetEnabled
  <2>3. CASE RemoveManagement
    <3>1. managed' \in BOOLEAN /\ enabled' \in BOOLEAN
      <4>1. managed' = FALSE /\ enabled' = TRUE
        BY <2>3, Zenon DEF RemoveManagement
      <4> QED BY <4>1, Zenon
    <3>2. accountRev' \in Revision
      BY <2>3 DEF RemoveManagement
    <3> QED BY <2>3, <3>1, <3>2 DEF RemoveManagement
  <2>4. CASE EditAsset
    BY <2>4 DEF EditAsset
  <2>5. ASSUME NEW s \in Scope, Adopt(s) PROVE TypeOK'
    BY <2>5 DEF Adopt
  <2>6. ASSUME NEW s \in Scope, SaveConfig(s) PROVE TypeOK'
    BY <2>6 DEF SaveConfig
  <2>7. ASSUME NEW s \in Scope, NEW on \in BOOLEAN, ReviewBinding(s, on) PROVE TypeOK'
    BY <2>7 DEF ReviewBinding
  <2> QED BY <1>21, <2>1, <2>2, <2>3, <2>4, <2>5, <2>6, <2>7 DEF Administration
<1>22. CASE UNCHANGED vars
  BY <1>22 DEF vars
<1> HIDE DEF TypeOK
<1> QED
  BY <1>1, <1>2, <1>3, <1>4, <1>5, <1>6, <1>7, <1>8, <1>9, <1>10, <1>11, <1>12, <1>13, <1>14,
     <1>15, <1>16, <1>17, <1>18, <1>19, <1>20, <1>21, <1>22 DEF Next, RunStep

LEMMA InitType == Init => TypeOK
  BY NoPlanType, VersionAssumption, BoundAssumption, PasswordAssumption
     DEF Init, TypeOK, ExecState, RunStepName, Revision, Version, NoPlan, Plan

\* Every behaviour keeps every variable in its type: no handler writes a state, a
\* lease or a step that the others do not know.
THEOREM TypeCorrect == Spec => []TypeOK
  BY InitType, TypeStep, PTL DEF Spec
-----------------------------------------------------------------------------
\* One row at a time holds the account, and only while its outcome is open.
LEMMA SlotOKStep == Structure /\ TypeOK' /\ [Next]_vars => SlotOK'
<1> SUFFICES ASSUME Structure, TypeOK', [Next]_vars PROVE SlotOK'
  OBVIOUS
<1> USE VersionAssumption, NoneAssumption
        DEF Structure, SlotOK, VersionOK, LeaseOK, StepOK, TypeOK, ExecState, Uncertain, Finished, RunStepName, Leased, Unsent, Version,
            rows, credentials, account, binding, target, runs
<1>1. ASSUME NEW r \in Run, NEW k \in Key, Start(r, k) PROVE SlotOK'
  BY <1>1 DEF Start, Fresh
<1>2. ASSUME NEW r \in Run, NEW e \in Exec, NEW recovery \in BOOLEAN, Continue(r, e, recovery) PROVE SlotOK'
  BY <1>2 DEF Continue, Fresh
<1>3. ASSUME NEW r \in Run, NEW e \in Exec, KeepOriginal(r, e) PROVE SlotOK'
  BY <1>3 DEF KeepOriginal, Fresh
<1>4. ASSUME NEW r \in Run, NEW e \in Exec, PrepareReplay(r, e) PROVE SlotOK'
  BY <1>4 DEF PrepareReplay
<1>5. ASSUME NEW r \in Run, NEW e \in Exec, Prepare(r, e) PROVE SlotOK'
  BY <1>5 DEF Prepare, NoExecution, Usable
<1>6. ASSUME NEW r \in Run, NEW e \in Exec, Claim(r, e) PROVE SlotOK'
  BY <1>6 DEF Claim, Lease, Goto
<1>7. ASSUME NEW r \in Run, NEW e \in Exec, Authorize(r, e) PROVE SlotOK'
  BY <1>7 DEF Authorize, Goto
<1>8. ASSUME NEW r \in Run, NEW e \in Exec, BeforeChange(r, e) PROVE SlotOK'
  BY <1>8 DEF BeforeChange, WithLease, SetState, Goto
<1>9. ASSUME NEW r \in Run, NEW e \in Exec, Send(r, e) PROVE SlotOK'
  BY <1>9 DEF Send, Goto
<1>10. ASSUME NEW r \in Run, NEW e \in Exec,
             NEW result \in {"changed", "rejected", "lost"}, Response(r, e, result) PROVE SlotOK'
  BY <1>10 DEF Response, Goto
<1>11. ASSUME NEW r \in Run, NEW e \in Exec, FinishUnsent(r, e) PROVE SlotOK'
  BY <1>11 DEF FinishUnsent, WithLease, Close, End
<1>12. ASSUME NEW r \in Run, NEW e \in Exec, RejectChange(r, e) PROVE SlotOK'
  BY <1>12 DEF RejectChange, WithLease, Close, End
<1>13. ASSUME NEW r \in Run, NEW e \in Exec, ChangeResult(r, e) PROVE SlotOK'
  BY <1>13 DEF ChangeResult, WithLease, SetState, Goto, End
<1>14. ASSUME NEW r \in Run, NEW e \in Exec, NEW accepted \in BOOLEAN, Verify(r, e, accepted) PROVE SlotOK'
  BY <1>14 DEF Verify, Goto
<1>15. ASSUME NEW r \in Run, NEW e \in Exec, CandidateResult(r, e) PROVE SlotOK'
  BY <1>15 DEF CandidateResult, WithLease, SetState, Goto, End
<1>16. ASSUME NEW r \in Run, NEW e \in Exec, Publish(r, e) PROVE SlotOK'
  BY <1>16 DEF Publish, WithLease, Activate, Close, End
<1>17. ASSUME NEW r \in Run, NEW e \in Exec, VerifyOriginal(r, e) PROVE SlotOK'
  BY <1>17 DEF VerifyOriginal, Goto
<1>18. ASSUME NEW r \in Run, NEW e \in Exec, PreserveOriginal(r, e) PROVE SlotOK'
  BY <1>18 DEF PreserveOriginal, WithLease, Close, End
<1>19. ASSUME NEW r \in Run, Refuse(r) PROVE SlotOK'
  BY <1>19 DEF Refuse, Goto
<1>20. ASSUME NEW r \in Run, NotAttempted(r) PROVE SlotOK'
  BY <1>20 DEF NotAttempted, Goto
<1>21. ASSUME NEW r \in Run, Abandon(r) PROVE SlotOK'
  BY <1>21 DEF Abandon, End
<1>22. ASSUME NEW r \in Run, ContextDone(r) PROVE SlotOK'
  BY <1>22 DEF ContextDone
<1>23. ASSUME NEW e \in Exec, LeaseExpires(e) PROVE SlotOK'
  BY <1>23 DEF LeaseExpires
<1>24. ASSUME NEW e \in Exec, NEW fate \in {"applied", "rejected", "dropped"}, Settle(e, fate) PROVE SlotOK'
  BY <1>24 DEF Settle
<1>25. ASSUME NEW s \in Scope, NEW m \in Manual, ChangeOutside(s, m) PROVE SlotOK'
  BY <1>25 DEF ChangeOutside
<1>26. ASSUME NEW m \in Manual, StoreCredential(m) PROVE SlotOK'
  BY <1>26 DEF StoreCredential, NoExecution, Activate
<1>27. ASSUME SetEnabled \/ EditAsset \/ \E s \in Scope : Adopt(s) \/ SaveConfig(s) \/ \E on \in BOOLEAN : ReviewBinding(s, on) PROVE SlotOK'
  BY <1>27 DEF SetEnabled, EditAsset, Adopt, SaveConfig, ReviewBinding
<1>28. ASSUME RemoveManagement PROVE SlotOK'
  BY <1>28 DEF RemoveManagement, NoExecution
<1>29. ASSUME UNCHANGED vars PROVE SlotOK'
  BY <1>29 DEF vars
<1> HIDE DEF Structure, SlotOK, VersionOK, LeaseOK, StepOK, TypeOK
<1> QED
  BY <1>1, <1>2, <1>3, <1>4, <1>5, <1>6, <1>7, <1>8, <1>9, <1>10, <1>11, <1>12, <1>13, <1>14, <1>15, <1>16, <1>17, <1>18, <1>19, <1>20, <1>21, <1>22, <1>23, <1>24, <1>25, <1>26, <1>27, <1>28, <1>29
  DEF Next, Request, RunStep, Target, Administration

\* The version that an open row replaces stays the account's version.
LEMMA VersionOKStep == Structure /\ TypeOK' /\ [Next]_vars => VersionOK'
<1> SUFFICES ASSUME Structure, TypeOK', [Next]_vars PROVE VersionOK'
  OBVIOUS
<1> USE VersionAssumption, NoneAssumption
        DEF Structure, VersionOK, SlotOK, PointerIsActive, TypeOK, ExecState, Uncertain, Finished, RunStepName, Leased, Unsent, Version,
            rows, credentials, account, binding, target, runs
<1>1. ASSUME NEW r \in Run, NEW k \in Key, Start(r, k) PROVE VersionOK'
  BY <1>1 DEF Start, Fresh
<1>2. ASSUME NEW r \in Run, NEW e \in Exec, NEW recovery \in BOOLEAN, Continue(r, e, recovery) PROVE VersionOK'
  BY <1>2 DEF Continue, Fresh
<1>3. ASSUME NEW r \in Run, NEW e \in Exec, KeepOriginal(r, e) PROVE VersionOK'
  BY <1>3 DEF KeepOriginal, Fresh
<1>4. ASSUME NEW r \in Run, NEW e \in Exec, PrepareReplay(r, e) PROVE VersionOK'
  BY <1>4 DEF PrepareReplay
<1>5. ASSUME NEW r \in Run, NEW e \in Exec, Prepare(r, e) PROVE VersionOK'
  BY <1>5 DEF Prepare, NoExecution, Usable
<1>6. ASSUME NEW r \in Run, NEW e \in Exec, Claim(r, e) PROVE VersionOK'
  BY <1>6 DEF Claim, Lease, Goto
<1>7. ASSUME NEW r \in Run, NEW e \in Exec, Authorize(r, e) PROVE VersionOK'
  BY <1>7 DEF Authorize, Goto
<1>8. ASSUME NEW r \in Run, NEW e \in Exec, BeforeChange(r, e) PROVE VersionOK'
  BY <1>8 DEF BeforeChange, WithLease, SetState, Goto
<1>9. ASSUME NEW r \in Run, NEW e \in Exec, Send(r, e) PROVE VersionOK'
  BY <1>9 DEF Send, Goto
<1>10. ASSUME NEW r \in Run, NEW e \in Exec,
             NEW result \in {"changed", "rejected", "lost"}, Response(r, e, result) PROVE VersionOK'
  BY <1>10 DEF Response, Goto
<1>11. ASSUME NEW r \in Run, NEW e \in Exec, FinishUnsent(r, e) PROVE VersionOK'
  BY <1>11 DEF FinishUnsent, WithLease, Close, End
<1>12. ASSUME NEW r \in Run, NEW e \in Exec, RejectChange(r, e) PROVE VersionOK'
  BY <1>12 DEF RejectChange, WithLease, Close, End
<1>13. ASSUME NEW r \in Run, NEW e \in Exec, ChangeResult(r, e) PROVE VersionOK'
  BY <1>13 DEF ChangeResult, WithLease, SetState, Goto, End
<1>14. ASSUME NEW r \in Run, NEW e \in Exec, NEW accepted \in BOOLEAN, Verify(r, e, accepted) PROVE VersionOK'
  BY <1>14 DEF Verify, Goto
<1>15. ASSUME NEW r \in Run, NEW e \in Exec, CandidateResult(r, e) PROVE VersionOK'
  BY <1>15 DEF CandidateResult, WithLease, SetState, Goto, End
<1>16. ASSUME NEW r \in Run, NEW e \in Exec, Publish(r, e) PROVE VersionOK'
  BY <1>16 DEF Publish, WithLease, Activate, Close, End
<1>17. ASSUME NEW r \in Run, NEW e \in Exec, VerifyOriginal(r, e) PROVE VersionOK'
  BY <1>17 DEF VerifyOriginal, Goto
<1>18. ASSUME NEW r \in Run, NEW e \in Exec, PreserveOriginal(r, e) PROVE VersionOK'
  BY <1>18 DEF PreserveOriginal, WithLease, Close, End
<1>19. ASSUME NEW r \in Run, Refuse(r) PROVE VersionOK'
  BY <1>19 DEF Refuse, Goto
<1>20. ASSUME NEW r \in Run, NotAttempted(r) PROVE VersionOK'
  BY <1>20 DEF NotAttempted, Goto
<1>21. ASSUME NEW r \in Run, Abandon(r) PROVE VersionOK'
  BY <1>21 DEF Abandon, End
<1>22. ASSUME NEW r \in Run, ContextDone(r) PROVE VersionOK'
  BY <1>22 DEF ContextDone
<1>23. ASSUME NEW e \in Exec, LeaseExpires(e) PROVE VersionOK'
  BY <1>23 DEF LeaseExpires
<1>24. ASSUME NEW e \in Exec, NEW fate \in {"applied", "rejected", "dropped"}, Settle(e, fate) PROVE VersionOK'
  BY <1>24 DEF Settle
<1>25. ASSUME NEW s \in Scope, NEW m \in Manual, ChangeOutside(s, m) PROVE VersionOK'
  BY <1>25 DEF ChangeOutside
<1>26. ASSUME NEW m \in Manual, StoreCredential(m) PROVE VersionOK'
  BY <1>26 DEF StoreCredential, NoExecution, Activate
<1>27. ASSUME SetEnabled \/ EditAsset \/ \E s \in Scope : Adopt(s) \/ SaveConfig(s) \/ \E on \in BOOLEAN : ReviewBinding(s, on) PROVE VersionOK'
  BY <1>27 DEF SetEnabled, EditAsset, Adopt, SaveConfig, ReviewBinding
<1>28. ASSUME RemoveManagement PROVE VersionOK'
  BY <1>28 DEF RemoveManagement, NoExecution
<1>29. ASSUME UNCHANGED vars PROVE VersionOK'
  BY <1>29 DEF vars
<1> HIDE DEF Structure, VersionOK, SlotOK, PointerIsActive, TypeOK
<1> QED
  BY <1>1, <1>2, <1>3, <1>4, <1>5, <1>6, <1>7, <1>8, <1>9, <1>10, <1>11, <1>12, <1>13, <1>14, <1>15, <1>16, <1>17, <1>18, <1>19, <1>20, <1>21, <1>22, <1>23, <1>24, <1>25, <1>26, <1>27, <1>28, <1>29
  DEF Next, Request, RunStep, Target, Administration

\* A living run keeps its lease: nobody claims a row whose owner still lives.
LEMMA LeaseOKStep == Structure /\ TypeOK' /\ [Next]_vars => LeaseOK'
<1> SUFFICES ASSUME Structure, TypeOK', [Next]_vars PROVE LeaseOK'
  OBVIOUS
<1> USE VersionAssumption, NoneAssumption
        DEF Structure, LeaseOK, SlotOK, TypeOK, ExecState, Uncertain, Finished, RunStepName, Leased, Unsent, Version,
            rows, credentials, account, binding, target, runs
<1>1. ASSUME NEW r \in Run, NEW k \in Key, Start(r, k) PROVE LeaseOK'
  BY <1>1 DEF Start, Fresh
<1>2. ASSUME NEW r \in Run, NEW e \in Exec, NEW recovery \in BOOLEAN, Continue(r, e, recovery) PROVE LeaseOK'
  BY <1>2 DEF Continue, Fresh
<1>3. ASSUME NEW r \in Run, NEW e \in Exec, KeepOriginal(r, e) PROVE LeaseOK'
  BY <1>3 DEF KeepOriginal, Fresh
<1>4. ASSUME NEW r \in Run, NEW e \in Exec, PrepareReplay(r, e) PROVE LeaseOK'
  BY <1>4 DEF PrepareReplay
<1>5. ASSUME NEW r \in Run, NEW e \in Exec, Prepare(r, e) PROVE LeaseOK'
  BY <1>5 DEF Prepare, NoExecution, Usable
<1>6. ASSUME NEW r \in Run, NEW e \in Exec, Claim(r, e) PROVE LeaseOK'
  BY <1>6 DEF Claim, Lease, Goto
<1>7. ASSUME NEW r \in Run, NEW e \in Exec, Authorize(r, e) PROVE LeaseOK'
  BY <1>7 DEF Authorize, Goto
<1>8. ASSUME NEW r \in Run, NEW e \in Exec, BeforeChange(r, e) PROVE LeaseOK'
  BY <1>8 DEF BeforeChange, WithLease, SetState, Goto
<1>9. ASSUME NEW r \in Run, NEW e \in Exec, Send(r, e) PROVE LeaseOK'
  BY <1>9 DEF Send, Goto
<1>10. ASSUME NEW r \in Run, NEW e \in Exec,
             NEW result \in {"changed", "rejected", "lost"}, Response(r, e, result) PROVE LeaseOK'
  BY <1>10 DEF Response, Goto
<1>11. ASSUME NEW r \in Run, NEW e \in Exec, FinishUnsent(r, e) PROVE LeaseOK'
  BY <1>11 DEF FinishUnsent, WithLease, Close, End
<1>12. ASSUME NEW r \in Run, NEW e \in Exec, RejectChange(r, e) PROVE LeaseOK'
  BY <1>12 DEF RejectChange, WithLease, Close, End
<1>13. ASSUME NEW r \in Run, NEW e \in Exec, ChangeResult(r, e) PROVE LeaseOK'
  BY <1>13 DEF ChangeResult, WithLease, SetState, Goto, End
<1>14. ASSUME NEW r \in Run, NEW e \in Exec, NEW accepted \in BOOLEAN, Verify(r, e, accepted) PROVE LeaseOK'
  BY <1>14 DEF Verify, Goto
<1>15. ASSUME NEW r \in Run, NEW e \in Exec, CandidateResult(r, e) PROVE LeaseOK'
  BY <1>15 DEF CandidateResult, WithLease, SetState, Goto, End
<1>16. ASSUME NEW r \in Run, NEW e \in Exec, Publish(r, e) PROVE LeaseOK'
  BY <1>16 DEF Publish, WithLease, Activate, Close, End
<1>17. ASSUME NEW r \in Run, NEW e \in Exec, VerifyOriginal(r, e) PROVE LeaseOK'
  BY <1>17 DEF VerifyOriginal, Goto
<1>18. ASSUME NEW r \in Run, NEW e \in Exec, PreserveOriginal(r, e) PROVE LeaseOK'
  BY <1>18 DEF PreserveOriginal, WithLease, Close, End
<1>19. ASSUME NEW r \in Run, Refuse(r) PROVE LeaseOK'
  BY <1>19 DEF Refuse, Goto
<1>20. ASSUME NEW r \in Run, NotAttempted(r) PROVE LeaseOK'
  BY <1>20 DEF NotAttempted, Goto
<1>21. ASSUME NEW r \in Run, Abandon(r) PROVE LeaseOK'
  BY <1>21 DEF Abandon, End
<1>22. ASSUME NEW r \in Run, ContextDone(r) PROVE LeaseOK'
  BY <1>22 DEF ContextDone
<1>23. ASSUME NEW e \in Exec, LeaseExpires(e) PROVE LeaseOK'
  BY <1>23 DEF LeaseExpires
<1>24. ASSUME NEW e \in Exec, NEW fate \in {"applied", "rejected", "dropped"}, Settle(e, fate) PROVE LeaseOK'
  BY <1>24 DEF Settle
<1>25. ASSUME NEW s \in Scope, NEW m \in Manual, ChangeOutside(s, m) PROVE LeaseOK'
  BY <1>25 DEF ChangeOutside
<1>26. ASSUME NEW m \in Manual, StoreCredential(m) PROVE LeaseOK'
  BY <1>26 DEF StoreCredential, NoExecution, Activate
<1>27. ASSUME SetEnabled \/ EditAsset \/ \E s \in Scope : Adopt(s) \/ SaveConfig(s) \/ \E on \in BOOLEAN : ReviewBinding(s, on) PROVE LeaseOK'
  BY <1>27 DEF SetEnabled, EditAsset, Adopt, SaveConfig, ReviewBinding
<1>28. ASSUME RemoveManagement PROVE LeaseOK'
  BY <1>28 DEF RemoveManagement, NoExecution
<1>29. ASSUME UNCHANGED vars PROVE LeaseOK'
  BY <1>29 DEF vars
<1> HIDE DEF Structure, LeaseOK, SlotOK, TypeOK
<1> QED
  BY <1>1, <1>2, <1>3, <1>4, <1>5, <1>6, <1>7, <1>8, <1>9, <1>10, <1>11, <1>12, <1>13, <1>14, <1>15, <1>16, <1>17, <1>18, <1>19, <1>20, <1>21, <1>22, <1>23, <1>24, <1>25, <1>26, <1>27, <1>28, <1>29
  DEF Next, Request, RunStep, Target, Administration

\* The row of a run is in the state that the run's last commit left it in.
LEMMA StepOKStep == Structure /\ TypeOK' /\ [Next]_vars => StepOK'
<1> SUFFICES ASSUME Structure, TypeOK', [Next]_vars PROVE StepOK'
  OBVIOUS
<1> USE VersionAssumption, NoneAssumption
        DEF Structure, StepOK, LeaseOK, SlotOK, SendOK, TypeOK, ExecState, Uncertain, Finished, RunStepName, Leased, Unsent, Version,
            rows, credentials, account, binding, target, runs
<1>1. ASSUME NEW r \in Run, NEW k \in Key, Start(r, k) PROVE StepOK'
  BY <1>1 DEF Start, Fresh
<1>2. ASSUME NEW r \in Run, NEW e \in Exec, NEW recovery \in BOOLEAN, Continue(r, e, recovery) PROVE StepOK'
  BY <1>2 DEF Continue, Fresh
<1>3. ASSUME NEW r \in Run, NEW e \in Exec, KeepOriginal(r, e) PROVE StepOK'
  BY <1>3 DEF KeepOriginal, Fresh
<1>4. ASSUME NEW r \in Run, NEW e \in Exec, PrepareReplay(r, e) PROVE StepOK'
  BY <1>4 DEF PrepareReplay
<1>5. ASSUME NEW r \in Run, NEW e \in Exec, Prepare(r, e) PROVE StepOK'
  BY <1>5 DEF Prepare, NoExecution, Usable
<1>6. ASSUME NEW r \in Run, NEW e \in Exec, Claim(r, e) PROVE StepOK'
  BY <1>6 DEF Claim, Lease, Goto
<1>7. ASSUME NEW r \in Run, NEW e \in Exec, Authorize(r, e) PROVE StepOK'
  BY <1>7 DEF Authorize, Goto
<1>8. ASSUME NEW r \in Run, NEW e \in Exec, BeforeChange(r, e) PROVE StepOK'
  BY <1>8 DEF BeforeChange, WithLease, SetState, Goto
<1>9. ASSUME NEW r \in Run, NEW e \in Exec, Send(r, e) PROVE StepOK'
  BY <1>9 DEF Send, Goto
<1>10. ASSUME NEW r \in Run, NEW e \in Exec,
             NEW result \in {"changed", "rejected", "lost"}, Response(r, e, result) PROVE StepOK'
  BY <1>10 DEF Response, Goto
<1>11. ASSUME NEW r \in Run, NEW e \in Exec, FinishUnsent(r, e) PROVE StepOK'
  BY <1>11 DEF FinishUnsent, WithLease, Close, End
<1>12. ASSUME NEW r \in Run, NEW e \in Exec, RejectChange(r, e) PROVE StepOK'
  BY <1>12 DEF RejectChange, WithLease, Close, End
<1>13. ASSUME NEW r \in Run, NEW e \in Exec, ChangeResult(r, e) PROVE StepOK'
  BY <1>13 DEF ChangeResult, WithLease, SetState, Goto, End
<1>14. ASSUME NEW r \in Run, NEW e \in Exec, NEW accepted \in BOOLEAN, Verify(r, e, accepted) PROVE StepOK'
  BY <1>14 DEF Verify, Goto
<1>15. ASSUME NEW r \in Run, NEW e \in Exec, CandidateResult(r, e) PROVE StepOK'
  BY <1>15 DEF CandidateResult, WithLease, SetState, Goto, End
<1>16. ASSUME NEW r \in Run, NEW e \in Exec, Publish(r, e) PROVE StepOK'
  BY <1>16 DEF Publish, WithLease, Activate, Close, End
<1>17. ASSUME NEW r \in Run, NEW e \in Exec, VerifyOriginal(r, e) PROVE StepOK'
  BY <1>17 DEF VerifyOriginal, Goto
<1>18. ASSUME NEW r \in Run, NEW e \in Exec, PreserveOriginal(r, e) PROVE StepOK'
  BY <1>18 DEF PreserveOriginal, WithLease, Close, End
<1>19. ASSUME NEW r \in Run, Refuse(r) PROVE StepOK'
  BY <1>19 DEF Refuse, Goto
<1>20. ASSUME NEW r \in Run, NotAttempted(r) PROVE StepOK'
  BY <1>20 DEF NotAttempted, Goto
<1>21. ASSUME NEW r \in Run, Abandon(r) PROVE StepOK'
  BY <1>21 DEF Abandon, End
<1>22. ASSUME NEW r \in Run, ContextDone(r) PROVE StepOK'
  BY <1>22 DEF ContextDone
<1>23. ASSUME NEW e \in Exec, LeaseExpires(e) PROVE StepOK'
  BY <1>23 DEF LeaseExpires
<1>24. ASSUME NEW e \in Exec, NEW fate \in {"applied", "rejected", "dropped"}, Settle(e, fate) PROVE StepOK'
  BY <1>24 DEF Settle
<1>25. ASSUME NEW s \in Scope, NEW m \in Manual, ChangeOutside(s, m) PROVE StepOK'
  BY <1>25 DEF ChangeOutside
<1>26. ASSUME NEW m \in Manual, StoreCredential(m) PROVE StepOK'
  BY <1>26 DEF StoreCredential, NoExecution, Activate
<1>27. ASSUME SetEnabled \/ EditAsset \/ \E s \in Scope : Adopt(s) \/ SaveConfig(s) \/ \E on \in BOOLEAN : ReviewBinding(s, on) PROVE StepOK'
  BY <1>27 DEF SetEnabled, EditAsset, Adopt, SaveConfig, ReviewBinding
<1>28. ASSUME RemoveManagement PROVE StepOK'
  BY <1>28 DEF RemoveManagement, NoExecution
<1>29. ASSUME UNCHANGED vars PROVE StepOK'
  BY <1>29 DEF vars
<1> HIDE DEF Structure, StepOK, LeaseOK, SlotOK, SendOK, TypeOK
<1> QED
  BY <1>1, <1>2, <1>3, <1>4, <1>5, <1>6, <1>7, <1>8, <1>9, <1>10, <1>11, <1>12, <1>13, <1>14, <1>15, <1>16, <1>17, <1>18, <1>19, <1>20, <1>21, <1>22, <1>23, <1>24, <1>25, <1>26, <1>27, <1>28, <1>29
  DEF Next, Request, RunStep, Target, Administration

\* The send boundary is crossed once.
LEMMA SendOKStep == Structure /\ TypeOK' /\ [Next]_vars => SendOK'
<1> SUFFICES ASSUME Structure, TypeOK', [Next]_vars PROVE SendOK'
  OBVIOUS
<1> USE VersionAssumption, NoneAssumption
        DEF Structure, SendOK, StepOK, LeaseOK, SlotOK, TypeOK, ExecState, Uncertain, Finished, RunStepName, Leased, Unsent, Version,
            rows, credentials, account, binding, target, runs
<1>1. ASSUME NEW r \in Run, NEW k \in Key, Start(r, k) PROVE SendOK'
  BY <1>1 DEF Start, Fresh
<1>2. ASSUME NEW r \in Run, NEW e \in Exec, NEW recovery \in BOOLEAN, Continue(r, e, recovery) PROVE SendOK'
  BY <1>2 DEF Continue, Fresh
<1>3. ASSUME NEW r \in Run, NEW e \in Exec, KeepOriginal(r, e) PROVE SendOK'
  BY <1>3 DEF KeepOriginal, Fresh
<1>4. ASSUME NEW r \in Run, NEW e \in Exec, PrepareReplay(r, e) PROVE SendOK'
  BY <1>4 DEF PrepareReplay
<1>5. ASSUME NEW r \in Run, NEW e \in Exec, Prepare(r, e) PROVE SendOK'
  BY <1>5 DEF Prepare, NoExecution, Usable
<1>6. ASSUME NEW r \in Run, NEW e \in Exec, Claim(r, e) PROVE SendOK'
  BY <1>6 DEF Claim, Lease, Goto
<1>7. ASSUME NEW r \in Run, NEW e \in Exec, Authorize(r, e) PROVE SendOK'
  BY <1>7 DEF Authorize, Goto
<1>8. ASSUME NEW r \in Run, NEW e \in Exec, BeforeChange(r, e) PROVE SendOK'
  BY <1>8 DEF BeforeChange, WithLease, SetState, Goto
<1>9. ASSUME NEW r \in Run, NEW e \in Exec, Send(r, e) PROVE SendOK'
  BY <1>9 DEF Send, Goto
<1>10. ASSUME NEW r \in Run, NEW e \in Exec,
             NEW result \in {"changed", "rejected", "lost"}, Response(r, e, result) PROVE SendOK'
  BY <1>10 DEF Response, Goto
<1>11. ASSUME NEW r \in Run, NEW e \in Exec, FinishUnsent(r, e) PROVE SendOK'
  BY <1>11 DEF FinishUnsent, WithLease, Close, End
<1>12. ASSUME NEW r \in Run, NEW e \in Exec, RejectChange(r, e) PROVE SendOK'
  BY <1>12 DEF RejectChange, WithLease, Close, End
<1>13. ASSUME NEW r \in Run, NEW e \in Exec, ChangeResult(r, e) PROVE SendOK'
  BY <1>13 DEF ChangeResult, WithLease, SetState, Goto, End
<1>14. ASSUME NEW r \in Run, NEW e \in Exec, NEW accepted \in BOOLEAN, Verify(r, e, accepted) PROVE SendOK'
  BY <1>14 DEF Verify, Goto
<1>15. ASSUME NEW r \in Run, NEW e \in Exec, CandidateResult(r, e) PROVE SendOK'
  BY <1>15 DEF CandidateResult, WithLease, SetState, Goto, End
<1>16. ASSUME NEW r \in Run, NEW e \in Exec, Publish(r, e) PROVE SendOK'
  BY <1>16 DEF Publish, WithLease, Activate, Close, End
<1>17. ASSUME NEW r \in Run, NEW e \in Exec, VerifyOriginal(r, e) PROVE SendOK'
  BY <1>17 DEF VerifyOriginal, Goto
<1>18. ASSUME NEW r \in Run, NEW e \in Exec, PreserveOriginal(r, e) PROVE SendOK'
  BY <1>18 DEF PreserveOriginal, WithLease, Close, End
<1>19. ASSUME NEW r \in Run, Refuse(r) PROVE SendOK'
  BY <1>19 DEF Refuse, Goto
<1>20. ASSUME NEW r \in Run, NotAttempted(r) PROVE SendOK'
  BY <1>20 DEF NotAttempted, Goto
<1>21. ASSUME NEW r \in Run, Abandon(r) PROVE SendOK'
  BY <1>21 DEF Abandon, End
<1>22. ASSUME NEW r \in Run, ContextDone(r) PROVE SendOK'
  BY <1>22 DEF ContextDone
<1>23. ASSUME NEW e \in Exec, LeaseExpires(e) PROVE SendOK'
  BY <1>23 DEF LeaseExpires
<1>24. ASSUME NEW e \in Exec, NEW fate \in {"applied", "rejected", "dropped"}, Settle(e, fate) PROVE SendOK'
  BY <1>24 DEF Settle
<1>25. ASSUME NEW s \in Scope, NEW m \in Manual, ChangeOutside(s, m) PROVE SendOK'
  BY <1>25 DEF ChangeOutside
<1>26. ASSUME NEW m \in Manual, StoreCredential(m) PROVE SendOK'
  BY <1>26 DEF StoreCredential, NoExecution, Activate
<1>27. ASSUME SetEnabled \/ EditAsset \/ \E s \in Scope : Adopt(s) \/ SaveConfig(s) \/ \E on \in BOOLEAN : ReviewBinding(s, on) PROVE SendOK'
  BY <1>27 DEF SetEnabled, EditAsset, Adopt, SaveConfig, ReviewBinding
<1>28. ASSUME RemoveManagement PROVE SendOK'
  BY <1>28 DEF RemoveManagement, NoExecution
<1>29. ASSUME UNCHANGED vars PROVE SendOK'
  BY <1>29 DEF vars
<1> HIDE DEF Structure, SendOK, StepOK, LeaseOK, SlotOK, TypeOK
<1> QED
  BY <1>1, <1>2, <1>3, <1>4, <1>5, <1>6, <1>7, <1>8, <1>9, <1>10, <1>11, <1>12, <1>13, <1>14, <1>15, <1>16, <1>17, <1>18, <1>19, <1>20, <1>21, <1>22, <1>23, <1>24, <1>25, <1>26, <1>27, <1>28, <1>29
  DEF Next, Request, RunStep, Target, Administration

LEMMA StructureInit == Init => Structure
<1> SUFFICES ASSUME Init PROVE Structure
  OBVIOUS
<1>1. TypeOK
  BY InitType
<1> QED
  BY <1>1, VersionAssumption, NoneAssumption
  DEF Init, Structure, SlotOK, VersionOK, PointerIsActive, LeaseOK, StepOK, SendOK, TypeOK, Version,
      Uncertain, Leased, Unsent

LEMMA StructureStep == Structure /\ [Next]_vars => Structure'
<1> SUFFICES ASSUME Structure, [Next]_vars PROVE Structure'
  OBVIOUS
<1>1. TypeOK'
  BY TypeStep DEF Structure
<1> QED
  BY <1>1, SlotOKStep, VersionOKStep, LeaseOKStep, StepOKStep, SendOKStep DEF Structure

LEMMA StructureHolds == Spec => []Structure
  BY StructureInit, StructureStep, PTL DEF Spec

\* "It never repeats a mutation" (pam_execution_runner.go:21), for any number of
\* executions, concurrent requests, crashes, expired leases and recoveries.
THEOREM SentOnce == Spec => []SendOnce
<1>1. Structure => SendOnce
  BY DEF Structure, SendOK, SendOnce, TypeOK
<1> QED BY <1>1, StructureHolds, PTL

\* The account's version is its only active version, whatever publications,
\* preserved originals and manual edits interleave.
THEOREM PointerCorrect == Spec => []PointerIsActive
<1>1. Structure => PointerIsActive
  BY DEF Structure, VersionOK
<1> QED BY <1>1, StructureHolds, PTL

-----------------------------------------------------------------------------
(* One row for each key of an operator.                                    *)

\* Prepare alone makes a row; the other steps keep the plans and make none.
LEMMA KeyStep == Structure /\ OneRowPerKey /\ [Next]_vars => OneRowPerKey'
<1> SUFFICES ASSUME Structure, OneRowPerKey, [Next]_vars PROVE OneRowPerKey'
  OBVIOUS
<1>1. ASSUME UNCHANGED plan, \A e \in Exec : state'[e] # "absent" => state[e] # "absent"
      PROVE  OneRowPerKey'
  BY <1>1 DEF OneRowPerKey
<1>2. ASSUME UNCHANGED rows PROVE OneRowPerKey'
  BY <1>1, <1>2 DEF rows
<1>3. ASSUME NEW e \in Exec, active[e], NEW next, state' = [state EXCEPT ![e] = next], UNCHANGED plan
      PROVE  OneRowPerKey'
  <2>1. state[e] # "absent" /\ state \in [Exec -> ExecState]
    BY <1>3 DEF Structure, SlotOK, TypeOK, Uncertain
  <2> QED BY <1>1, <1>3, <2>1
<1>4. ASSUME NEW r \in Run, Request(r) PROVE OneRowPerKey'
  BY <1>2, <1>4 DEF Request, Start, Continue, KeepOriginal
<1>5. ASSUME NEW r \in Run, NEW e \in Exec, Prepare(r, e) PROVE OneRowPerKey'
  BY <1>5 DEF OneRowPerKey, Structure, TypeOK, Prepare, KeyTaken
\* Transactions on a row that holds the account's slot.
<1>6. ASSUME NEW r \in Run, NEW e \in Exec,
             \/ Claim(r, e) \/ BeforeChange(r, e) \/ FinishUnsent(r, e) \/ RejectChange(r, e)
             \/ ChangeResult(r, e) \/ CandidateResult(r, e) \/ Publish(r, e) \/ PreserveOriginal(r, e)
      PROVE  OneRowPerKey'
  <2>1. active[e] /\ UNCHANGED plan /\ \E next : state' = [state EXCEPT ![e] = next]
    BY <1>6 DEF Claim, Lease, BeforeChange, FinishUnsent, RejectChange, ChangeResult, CandidateResult,
       Publish, PreserveOriginal, WithLease, SetState, Close
  <2> QED BY <1>3, <2>1
\* The run's other steps.
<1>7. ASSUME NEW r \in Run,
             \/ \E e \in Exec :
                   \/ PrepareReplay(r, e) \/ Authorize(r, e) \/ Send(r, e) \/ VerifyOriginal(r, e)
                   \/ \E result \in {"changed", "rejected", "lost"} : Response(r, e, result)
                   \/ \E accepted \in BOOLEAN : Verify(r, e, accepted)
             \/ Refuse(r) \/ NotAttempted(r) \/ Abandon(r) \/ ContextDone(r)
      PROVE  OneRowPerKey'
  BY <1>2, <1>7 DEF PrepareReplay, Authorize, Send, VerifyOriginal, Response, Verify, Refuse,
     NotAttempted, Abandon, ContextDone
<1>8. ASSUME (\E e \in Exec : LeaseExpires(e)) \/ Target \/ Administration PROVE OneRowPerKey'
  <2>1. UNCHANGED <<state, plan>>
    BY <1>8 DEF LeaseExpires, Target, Settle, ChangeOutside, Administration, StoreCredential, SetEnabled,
       RemoveManagement, EditAsset, Adopt, SaveConfig, ReviewBinding, rows
  <2> QED BY <1>1, <2>1
<1>9. CASE UNCHANGED vars
  BY <1>2, <1>9 DEF vars, rows
<1> QED
  BY <1>4, <1>5, <1>6, <1>7, <1>8, <1>9 DEF Next, RunStep

\* A repeated or duplicated start request never becomes a second execution, however
\* many copies of it pass the first lookup (StartPAMPasswordChange, Prepare).
THEOREM OneRow == Spec => []OneRowPerKey
<1>1. Init => OneRowPerKey
  BY DEF Init, OneRowPerKey
<1> QED BY <1>1, KeyStep, StructureHolds, PTL DEF Spec

-----------------------------------------------------------------------------
\* What the target and the runs know stays true, one step at a time.
LEMMA OutcomeStep ==
    ASSUME DistinctPasswords, ConfirmListed, Structure, Structure', Outcome, [Next]_vars
    PROVE  Outcome'
<1> USE VersionAssumption, NoneAssumption, PasswordAssumption
        DEF Structure, SlotOK, LeaseOK, StepOK, SendOK, Outcome, KnownOutcome, OutcomeIsTrue, Settled,
            DistinctPasswords, TypeOK, ExecState, Uncertain, Finished, RunStepName, Leased, Unsent, Version,
            rows, credentials, account, binding, target, runs
<1>1. ASSUME NEW r \in Run, NEW k \in Key, Start(r, k) PROVE Outcome'
  BY <1>1 DEF Start, Fresh
<1>2. ASSUME NEW r \in Run, NEW e \in Exec, NEW recovery \in BOOLEAN, Continue(r, e, recovery) PROVE Outcome'
  BY <1>2 DEF Continue, Fresh
<1>3. ASSUME NEW r \in Run, NEW e \in Exec, KeepOriginal(r, e) PROVE Outcome'
  BY <1>3 DEF KeepOriginal, Fresh, CanReconcile
<1>4. ASSUME NEW r \in Run, NEW e \in Exec, PrepareReplay(r, e) PROVE Outcome'
  BY <1>4 DEF PrepareReplay
<1>5. ASSUME NEW r \in Run, NEW e \in Exec, Prepare(r, e) PROVE Outcome'
  BY <1>5, SMTT(20) DEF Prepare, NoExecution, Usable
<1>6. ASSUME NEW r \in Run, NEW e \in Exec, Claim(r, e) PROVE Outcome'
  BY <1>6 DEF Claim, Lease, Goto
<1>7. ASSUME NEW r \in Run, NEW e \in Exec, Authorize(r, e) PROVE Outcome'
  BY <1>7 DEF Authorize, Goto
<1>8. ASSUME NEW r \in Run, NEW e \in Exec, BeforeChange(r, e) PROVE Outcome'
  BY <1>8 DEF BeforeChange, WithLease, SetState, Goto
<1>9. ASSUME NEW r \in Run, NEW e \in Exec, Send(r, e) PROVE Outcome'
  BY <1>9 DEF Send, Goto
<1>10. ASSUME NEW r \in Run, NEW e \in Exec,
             NEW result \in {"changed", "rejected", "lost"}, Response(r, e, result) PROVE Outcome'
  BY <1>10, SMTT(20) DEF Response, Goto
<1>11. ASSUME NEW r \in Run, NEW e \in Exec, FinishUnsent(r, e) PROVE Outcome'
  BY <1>11, SMTT(20) DEF FinishUnsent, WithLease, Close, End
<1>12. ASSUME NEW r \in Run, NEW e \in Exec, RejectChange(r, e) PROVE Outcome'
  BY <1>12, SMTT(20) DEF RejectChange, WithLease, Close, End
<1>13. ASSUME NEW r \in Run, NEW e \in Exec, ChangeResult(r, e) PROVE Outcome'
  <2>1. CASE pc[r] = "changed"
    BY <1>13, <2>1 DEF ChangeResult, WithLease, SetState, Goto
  <2>2. CASE pc[r] # "changed"
    <3>1. SetState(e, "unknown") /\ End(r) /\ UNCHANGED <<credentials, account, binding, target>>
      BY <1>13, <2>2 DEF ChangeResult
    <3>2. job[r] = e /\ state[e] \notin {"absent", "prepared"} \cup Finished
      BY <1>13 DEF ChangeResult
    <3> QED BY <3>1, <3>2, SMTT(20) DEF SetState, End
  <2> QED BY <2>1, <2>2
<1>14. ASSUME NEW r \in Run, NEW e \in Exec, NEW accepted \in BOOLEAN, Verify(r, e, accepted) PROVE Outcome'
  BY <1>14, SMTT(20) DEF Verify, Goto, Plan
<1>15. ASSUME NEW r \in Run, NEW e \in Exec, CandidateResult(r, e) PROVE Outcome'
  <2>1. CASE pc[r] = "accepted"
    BY <1>15, <2>1 DEF CandidateResult, WithLease, SetState, Goto
  <2>2. CASE pc[r] # "accepted"
    <3>1. SetState(e, "unknown") /\ End(r) /\ UNCHANGED <<credentials, account, binding, target>>
      BY <1>15, <2>2 DEF CandidateResult
    <3>2. job[r] = e /\ state[e] \notin {"absent", "prepared"} \cup Finished
      BY <1>15 DEF CandidateResult
    <3> QED BY <3>1, <3>2, SMTT(20) DEF SetState, End
  <2> QED BY <2>1, <2>2
<1>16. ASSUME NEW r \in Run, NEW e \in Exec, Publish(r, e) PROVE Outcome'
  BY <1>16, SMTT(20) DEF Publish, WithLease, Activate, Close, End
<1>17. ASSUME NEW r \in Run, NEW e \in Exec, VerifyOriginal(r, e) PROVE Outcome'
  BY <1>17 DEF VerifyOriginal, Goto
<1>18. ASSUME NEW r \in Run, NEW e \in Exec, PreserveOriginal(r, e) PROVE Outcome'
  BY <1>18, SMTT(20) DEF PreserveOriginal, WithLease, Close, End
<1>19. ASSUME NEW r \in Run, Refuse(r) PROVE Outcome'
  BY <1>19 DEF Refuse, Goto
<1>20. ASSUME NEW r \in Run, NotAttempted(r) PROVE Outcome'
  BY <1>20 DEF NotAttempted, Goto
<1>21. ASSUME NEW r \in Run, Abandon(r) PROVE Outcome'
  BY <1>21, SMTT(20) DEF Abandon, End
<1>22. ASSUME NEW r \in Run, ContextDone(r) PROVE Outcome'
  BY <1>22 DEF ContextDone
<1>23. ASSUME NEW e \in Exec, LeaseExpires(e) PROVE Outcome'
  BY <1>23 DEF LeaseExpires
<1>24. ASSUME NEW e \in Exec, NEW fate \in {"applied", "rejected", "dropped"}, Settle(e, fate) PROVE Outcome'
  BY <1>24 DEF Settle
<1>25. ASSUME NEW s \in Scope, NEW m \in Manual, ChangeOutside(s, m) PROVE Outcome'
  BY <1>25 DEF ChangeOutside
<1>26. ASSUME NEW m \in Manual, StoreCredential(m) PROVE Outcome'
  BY <1>26 DEF StoreCredential, NoExecution, Activate
<1>27. ASSUME SetEnabled \/ EditAsset \/ \E s \in Scope : Adopt(s) \/ SaveConfig(s) \/ \E on \in BOOLEAN : ReviewBinding(s, on) PROVE Outcome'
  BY <1>27 DEF SetEnabled, EditAsset, Adopt, SaveConfig, ReviewBinding
<1>28. ASSUME RemoveManagement PROVE Outcome'
  BY <1>28 DEF RemoveManagement, NoExecution
<1>29. ASSUME UNCHANGED vars PROVE Outcome'
  BY <1>29 DEF vars
<1> HIDE DEF Structure, Outcome
<1> QED
  BY <1>1, <1>2, <1>3, <1>4, <1>5, <1>6, <1>7, <1>8, <1>9, <1>10, <1>11, <1>12, <1>13, <1>14, <1>15, <1>16, <1>17, <1>18, <1>19, <1>20, <1>21, <1>22, <1>23, <1>24, <1>25, <1>26, <1>27, <1>28, <1>29
  DEF Next, Request, RunStep, Target, Administration

LEMMA OutcomeInit == ASSUME DistinctPasswords PROVE Init => Outcome
  BY VersionAssumption, PasswordAssumption, NoneAssumption
  DEF Init, Outcome, KnownOutcome, OutcomeIsTrue, Settled, DistinctPasswords, Version, Finished, NoPlan

LEMMA OutcomeHolds ==
    ASSUME DistinctPasswords, ConfirmListed
    PROVE  Spec => []Outcome
<1>1. Init => Outcome
  BY OutcomeInit
<1>2. Structure /\ Structure' /\ Outcome /\ [Next]_vars => Outcome'
  BY OutcomeStep
<1> QED BY <1>1, <1>2, StructureHolds, PTL DEF Spec

\* "ActiveAccountID is cleared only after a known outcome" (model/pam_execution.go:16),
\* when candidates are all distinct and operators keep an original only where
\* the list of executions offers it; the two "violation" runs drop either condition.
THEOREM OutcomeKnown ==
    ASSUME DistinctPasswords, ConfirmListed
    PROVE  Spec => []KnownOutcome
<1>1. Outcome => KnownOutcome
  BY DEF Outcome
<1> QED BY <1>1, OutcomeHolds, PTL

\* A recorded success was applied on the target, a recorded failure was not.
THEOREM OutcomeTrue ==
    ASSUME DistinctPasswords, ConfirmListed
    PROVE  Spec => []OutcomeIsTrue
<1>1. Outcome => OutcomeIsTrue
  BY DEF Outcome
<1> QED BY <1>1, OutcomeHolds, PTL

\* While a mutation may still reach the target, its account stays managed and
\* both of its passwords stay recoverable.
THEOREM Pinned ==
    ASSUME DistinctPasswords, ConfirmListed
    PROVE  Spec => []InFlightPinned
<1>1. Structure /\ Outcome => InFlightPinned
  <2> SUFFICES ASSUME Structure, Outcome, NEW e \in Exec, mutation[e] = "inflight"
               PROVE  /\ managed
                      /\ current = plan[e].prev
                      /\ versionState[plan[e].prev] = "active"
                      /\ versionState[e] = "pending"
    BY DEF InFlightPinned
  <2>1. active[e]
    BY DEF Structure, Outcome, KnownOutcome, SendOK, SlotOK, TypeOK, ExecState
  <2> QED
    BY <2>1 DEF Structure, SlotOK, VersionOK, PointerIsActive, TypeOK
<1> QED BY <1>1, StructureHolds, OutcomeHolds, PTL
-----------------------------------------------------------------------------
(* The rows, leases and runs of PAMExecution implement the critical section *)
(* of PAMRotation.                                                          *)

holderOf == IF \E e \in Exec : active[e] THEN CHOOSE e \in Exec : active[e] ELSE None
sentOf == {e \in Exec : mutation[e] # "none"}
landedOf == {e \in Exec : mutation[e] \in {"applied", "rejected", "dropped"}}
closedOf == {e \in Exec : state[e] \in Finished}
-----------------------------------------------------------------------------
\* At most one row is active, so the holder is that row.
LEMMA HolderIs ==
    ASSUME SlotOK, NEW e \in Exec, active[e]
    PROVE  holderOf = e
  BY DEF SlotOK, holderOf

LEMMA HolderIsPrimed ==
    ASSUME SlotOK', NEW e \in Exec, active'[e]
    PROVE  holderOf' = e
  BY DEF SlotOK, holderOf

\* A step that leaves the account, the slots and the mutations alone is a stutter.
LEMMA StutterMaps ==
    ASSUME current' = current, active' = active, mutation' = mutation,
           \A e \in Exec : state'[e] \in Finished <=> state[e] \in Finished
    PROVE  UNCHANGED Rotation!vars
  BY DEF Rotation!vars

LEMMA RotationInit == Init => Rotation!Init
  BY DEF Init, Rotation!Init, Finished


LEMMA RotationStep ==
    ASSUME DistinctPasswords, ConfirmListed, Structure, Structure', Outcome, Outcome', [Next]_vars
    PROVE  [Rotation!Next]_Rotation!vars
<1> DEFINE Goal == [Rotation!Next]_Rotation!vars
<1> USE DEF rows, credentials, account, binding, target, runs
<1> HIDE DEF Goal
<1>1. ASSUME NEW r \in Run, NEW k \in Key, Start(r, k) PROVE Goal
  BY <1>1, StutterMaps DEF Goal, Start, Fresh
<1>2. ASSUME NEW r \in Run, NEW e \in Exec, NEW recovery \in BOOLEAN, Continue(r, e, recovery) PROVE Goal
  BY <1>2, StutterMaps DEF Goal, Continue, Fresh
<1>3. ASSUME NEW r \in Run, NEW e \in Exec, KeepOriginal(r, e) PROVE Goal
  BY <1>3, StutterMaps DEF Goal, KeepOriginal, Fresh
<1>4. ASSUME NEW r \in Run, NEW e \in Exec, PrepareReplay(r, e) PROVE Goal
  BY <1>4, StutterMaps DEF Goal, PrepareReplay
<1>5. ASSUME NEW r \in Run, NEW e \in Exec, Claim(r, e) PROVE Goal
  BY <1>5, StutterMaps DEF Goal, Structure, TypeOK, Claim, Lease, Goto, SlotOK, Uncertain, Finished, ExecState
<1>6. ASSUME NEW r \in Run, NEW e \in Exec, Authorize(r, e) PROVE Goal
  BY <1>6, StutterMaps DEF Goal, Authorize, Goto
<1>7. ASSUME NEW r \in Run, NEW e \in Exec, BeforeChange(r, e) PROVE Goal
  BY <1>7, StutterMaps DEF Goal, Structure, TypeOK, BeforeChange, WithLease, SetState, Goto, SlotOK, Uncertain, Finished, ExecState
<1>8. ASSUME NEW r \in Run, NEW e \in Exec,
             NEW result \in {"changed", "rejected", "lost"}, Response(r, e, result) PROVE Goal
  BY <1>8, StutterMaps DEF Goal, Response, Goto
<1>9. ASSUME NEW r \in Run, NEW e \in Exec, ChangeResult(r, e) PROVE Goal
  BY <1>9, StutterMaps DEF Goal, Structure, TypeOK, ChangeResult, WithLease, SetState, Goto, End, SlotOK, Uncertain, Finished, ExecState
<1>10. ASSUME NEW r \in Run, NEW e \in Exec, NEW accepted \in BOOLEAN, Verify(r, e, accepted) PROVE Goal
  BY <1>10, StutterMaps DEF Goal, Verify, Goto
<1>11. ASSUME NEW r \in Run, NEW e \in Exec, CandidateResult(r, e) PROVE Goal
  BY <1>11, StutterMaps DEF Goal, Structure, TypeOK, CandidateResult, WithLease, SetState, Goto, End, SlotOK, Uncertain, Finished, ExecState
<1>12. ASSUME NEW r \in Run, NEW e \in Exec, VerifyOriginal(r, e) PROVE Goal
  BY <1>12, StutterMaps DEF Goal, VerifyOriginal, Goto
<1>13. ASSUME NEW r \in Run, Refuse(r) PROVE Goal
  BY <1>13, StutterMaps DEF Goal, Refuse, Goto
<1>14. ASSUME NEW r \in Run, NotAttempted(r) PROVE Goal
  BY <1>14, StutterMaps DEF Goal, NotAttempted, Goto
<1>15. ASSUME NEW r \in Run, Abandon(r) PROVE Goal
  BY <1>15, StutterMaps DEF Goal, Abandon, End
<1>16. ASSUME NEW r \in Run, ContextDone(r) PROVE Goal
  BY <1>16, StutterMaps DEF Goal, ContextDone
<1>17. ASSUME NEW e \in Exec, LeaseExpires(e) PROVE Goal
  BY <1>17, StutterMaps DEF Goal, LeaseExpires
<1>18. ASSUME NEW s \in Scope, NEW m \in Manual, ChangeOutside(s, m) PROVE Goal
  BY <1>18, StutterMaps DEF Goal, ChangeOutside
<1>19. ASSUME SetEnabled \/ EditAsset \/ \E s \in Scope : Adopt(s) \/ SaveConfig(s) \/ \E on \in BOOLEAN : ReviewBinding(s, on) PROVE Goal
  BY <1>19, StutterMaps DEF Goal, SetEnabled, EditAsset, Adopt, SaveConfig, ReviewBinding
<1>20. ASSUME RemoveManagement PROVE Goal
  BY <1>20, StutterMaps DEF Goal, RemoveManagement, NoExecution
<1>21. ASSUME UNCHANGED vars PROVE Goal
  BY <1>21, StutterMaps DEF Goal, vars
<1>22. ASSUME NEW r \in Run, NEW e \in Exec, Prepare(r, e) PROVE Goal
  <2>1. holderOf = None /\ e \notin closedOf
    BY <1>22 DEF Prepare, NoExecution, holderOf, closedOf, Finished
  <2>2. holderOf' = e
    BY <1>22, HolderIsPrimed DEF Prepare, Structure, TypeOK
  <2>3. closedOf' = closedOf
    BY <1>22 DEF Prepare, closedOf, Finished, Structure, TypeOK
  <2>4. Rotation!Open(e)
    BY <1>22, <2>1, <2>2, <2>3 DEF Prepare, Rotation!Open, holderOf, closedOf
  <2> QED BY <2>4 DEF Goal, Rotation!Next
<1>23. ASSUME NEW r \in Run, NEW e \in Exec, Send(r, e) PROVE Goal
  <2>1. active[e] /\ mutation[e] = "none"
    BY <1>23 DEF Send, Structure, LeaseOK, StepOK, SlotOK, Leased, Unsent, Uncertain
  <2>2. holderOf = e
    BY <2>1, HolderIs DEF Structure
  <2>3. sentOf' = sentOf \cup {e} /\ landedOf' = landedOf
    BY <1>23, <2>1 DEF Send, sentOf, landedOf, Structure, TypeOK
  <2>4. Rotation!Send(e)
    BY <1>23, <2>1, <2>2, <2>3 DEF Send, Goto, Rotation!Send, holderOf, sentOf, landedOf
  <2> QED BY <2>4 DEF Goal, Rotation!Next
<1>24. ASSUME NEW e \in Exec, NEW fate \in {"applied", "rejected", "dropped"}, Settle(e, fate) PROVE Goal
  <2>1. active[e]
    BY <1>24 DEF Settle, Structure, SendOK, SlotOK, TypeOK, ExecState, Outcome, KnownOutcome
  <2>2. holderOf = e
    BY <2>1, HolderIs DEF Structure
  <2>3. landedOf' = landedOf \cup {e} /\ sentOf' = sentOf /\ e \in sentOf \ landedOf
    BY <1>24 DEF Settle, sentOf, landedOf, Structure, TypeOK
  <2>4. Rotation!Land(e)
    BY <1>24, <2>2, <2>3 DEF Settle, Rotation!Land, holderOf, sentOf, landedOf
  <2> QED BY <2>4 DEF Goal, Rotation!Next
<1>25. ASSUME NEW r \in Run, NEW e \in Exec, Publish(r, e) PROVE Goal
  <2>1. active[e] /\ mutation[e] = "applied"
    BY <1>25 DEF Publish, WithLease, Outcome
  <2>2. holderOf = e
    BY <2>1, HolderIs DEF Structure
  <2>3. holderOf' = None
    BY <1>25, <2>1 DEF Publish, Close, holderOf, Structure, SlotOK, TypeOK
  <2>4. closedOf' = closedOf \cup {e} /\ e \in landedOf
    BY <1>25, <2>1 DEF Publish, Close, closedOf, landedOf, Finished, Structure, TypeOK
  <2>5. Rotation!Publish(e)
    BY <1>25, <2>2, <2>3, <2>4 DEF Publish, Activate, Rotation!Publish, holderOf, closedOf, landedOf
  <2> QED BY <2>5 DEF Goal, Rotation!Next
<1>26. ASSUME NEW r \in Run, NEW e \in Exec, FinishUnsent(r, e) PROVE Goal
  <2>1. active[e]
    BY <1>26 DEF FinishUnsent, WithLease
  <2>2. holderOf = e
    BY <2>1, HolderIs DEF Structure
  <2>3. holderOf' = None
    BY <1>26, <2>1 DEF FinishUnsent, Close, holderOf, Structure, SlotOK, TypeOK
  <2>4. closedOf' = closedOf \cup {e}
    BY <1>26 DEF FinishUnsent, Close, closedOf, Finished, Structure, TypeOK
  <2>5. mutation[e] # "inflight"
    BY <1>26 DEF FinishUnsent, Close, Outcome, KnownOutcome, Finished, Structure, TypeOK
  <2>6. e \in sentOf => e \in landedOf
    BY <2>5 DEF sentOf, landedOf, Structure, TypeOK
  <2>7. Rotation!GiveUp(e)
    BY <1>26, <2>2, <2>3, <2>4, <2>6 DEF FinishUnsent, Rotation!GiveUp, holderOf, closedOf, sentOf, landedOf
  <2> QED BY <2>7 DEF Goal, Rotation!Next
<1>27. ASSUME NEW r \in Run, NEW e \in Exec, RejectChange(r, e) PROVE Goal
  <2>1. active[e]
    BY <1>27 DEF RejectChange, WithLease
  <2>2. holderOf = e
    BY <2>1, HolderIs DEF Structure
  <2>3. holderOf' = None
    BY <1>27, <2>1 DEF RejectChange, Close, holderOf, Structure, SlotOK, TypeOK
  <2>4. closedOf' = closedOf \cup {e}
    BY <1>27 DEF RejectChange, Close, closedOf, Finished, Structure, TypeOK
  <2>5. mutation[e] # "inflight"
    BY <1>27 DEF RejectChange, Close, Outcome, KnownOutcome, Finished, Structure, TypeOK
  <2>6. e \in sentOf => e \in landedOf
    BY <2>5 DEF sentOf, landedOf, Structure, TypeOK
  <2>7. Rotation!GiveUp(e)
    BY <1>27, <2>2, <2>3, <2>4, <2>6 DEF RejectChange, Rotation!GiveUp, holderOf, closedOf, sentOf, landedOf
  <2> QED BY <2>7 DEF Goal, Rotation!Next
<1>28. ASSUME NEW r \in Run, NEW e \in Exec, PreserveOriginal(r, e) PROVE Goal
  <2>1. active[e]
    BY <1>28 DEF PreserveOriginal, WithLease
  <2>2. holderOf = e
    BY <2>1, HolderIs DEF Structure
  <2>3. holderOf' = None
    BY <1>28, <2>1 DEF PreserveOriginal, Close, holderOf, Structure, SlotOK, TypeOK
  <2>4. closedOf' = closedOf \cup {e}
    BY <1>28 DEF PreserveOriginal, Close, closedOf, Finished, Structure, TypeOK
  <2>5. mutation[e] # "inflight"
    BY <1>28 DEF PreserveOriginal, Close, Outcome, KnownOutcome, Finished, Structure, TypeOK
  <2>6. e \in sentOf => e \in landedOf
    BY <2>5 DEF sentOf, landedOf, Structure, TypeOK
  <2>7. Rotation!GiveUp(e)
    BY <1>28, <2>2, <2>3, <2>4, <2>6 DEF PreserveOriginal, Rotation!GiveUp, holderOf, closedOf, sentOf, landedOf
  <2> QED BY <2>7 DEF Goal, Rotation!Next
<1>29. ASSUME NEW m \in Manual, StoreCredential(m) PROVE Goal
  <2>1. holderOf = None
    BY <1>29 DEF StoreCredential, NoExecution, holderOf, Structure, SlotOK
  <2>2. Rotation!Replace(m)
    BY <1>29, <2>1 DEF StoreCredential, Activate, Rotation!Replace, holderOf
  <2> QED BY <2>2 DEF Goal, Rotation!Next
<1> QED
  BY <1>1, <1>2, <1>3, <1>4, <1>5, <1>6, <1>7, <1>8, <1>9, <1>10, <1>11, <1>12, <1>13, <1>14, <1>15, <1>16, <1>17, <1>18, <1>19, <1>20, <1>21, <1>22, <1>23, <1>24, <1>25, <1>26, <1>27, <1>28, <1>29
  DEF Goal, Next, Request, RunStep, Target, Administration

\* One rotation of an account is open at a time, its mutation is sent at most once
\* and lands before the rotation closes, and the stored credential is replaced only
\* by the candidate of the open rotation or while none is open.
THEOREM ImplementsRotationHolds ==
    ASSUME DistinctPasswords, ConfirmListed
    PROVE  Spec => ImplementsRotation
<1>1. Structure /\ Structure' /\ Outcome /\ Outcome' /\ [Next]_vars => [Rotation!Next]_Rotation!vars
  BY RotationStep
<1> QED
  BY <1>1, RotationInit, StructureHolds, OutcomeHolds, PTL DEF Spec, ImplementsRotation, Rotation!Spec
=============================================================================
