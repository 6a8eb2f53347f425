--------------------------- MODULE ListPage_proofs ---------------------------
(***************************************************************************)
(* Proofs about ListPage for any pages, records and queries.               *)
(***************************************************************************)
EXTENDS ListPage, FiniteSetTheorems, WellFoundedInduction, TLAPS

\* A set of numbers that is not empty has a smallest member.
LEMMA Smallest ==
    ASSUME NEW T \in SUBSET Nat, T # {}
    PROVE  \E x \in T : \A y \in T : x <= y
<1>1. PICK x \in T : \A y \in T : ~(<<y, x>> \in OpToRel(<, Nat))
  BY NatLessThanWellFounded, WFMin, Zenon
<1>2. \A y \in T : ~(y < x)
  BY <1>1, Zenon DEF OpToRel
<1> QED BY <1>2

\* The records up to r are finitely many, and so is what comes after.
LEMMA RankGrows ==
    ASSUME NEW S \in SUBSET Nat, IsFiniteSet(S), NEW T \in SUBSET S, NEW r \in S \ T,
           \A x \in S : x <= r <=> x \in T \cup {r}
    PROVE  Rank(r, S) = Cardinality(T) + 1
<1>1. {x \in S : x <= r} = T \cup {r}
  OBVIOUS
<1>2. IsFiniteSet(T)
  BY FS_Subset
<1> QED BY <1>1, <1>2, FS_AddElement DEF Rank

\* Every place up to the number of records is taken by one of them.
LEMMA RankTaken ==
    ASSUME NEW S \in SUBSET Nat, IsFiniteSet(S)
    PROVE  \A i \in Nat : i < Cardinality(S) => \E r \in S : Rank(r, S) = i + 1
<1> DEFINE Free == {i \in Nat : i < Cardinality(S) /\ ~\E r \in S : Rank(r, S) = i + 1}
<1> SUFFICES ASSUME Free # {} PROVE FALSE
  OBVIOUS
<1>1. PICK i \in Free : \A j \in Free : i <= j
  BY Smallest
<1>2. Cardinality(S) \in Nat
  BY FS_CardinalityType
<1>3. CASE i = 0
  <2>1. S # {}
    BY <1>1, <1>3, FS_EmptySet
  <2>2. PICK r \in S : \A x \in S : r <= x
    BY <2>1, Smallest
  <2>3. Rank(r, S) = Cardinality({}) + 1
    BY <2>2, RankGrows
  <2> QED BY <1>1, <1>3, <2>3, FS_EmptySet
<1>4. CASE i # 0
  <2>1. i - 1 \in Nat /\ i - 1 < Cardinality(S) /\ i - 1 \notin Free
    BY <1>1, <1>2, <1>4
  <2>2. PICK r \in S : Rank(r, S) = i
    BY <2>1
  <2> DEFINE Below == {x \in S : x <= r}
  <2>3. Cardinality(Below) = i
    BY <2>2 DEF Rank
  <2>4. S \ Below # {}
    <3>1. Cardinality(Below) # Cardinality(S)
      BY <1>1, <2>3
    <3> QED BY <3>1
  <2>5. PICK n \in S \ Below : \A x \in S \ Below : n <= x
    BY <2>4, Smallest
  <2>6. Rank(n, S) = Cardinality(Below) + 1
    BY <2>5, RankGrows
  <2> QED BY <1>1, <2>3, <2>6
<1> QED BY <1>3, <1>4

\* What a batch reads from a set of records is one of them, or nothing.
LEMMA AtMember ==
    ASSUME NEW S \in SUBSET Records, NEW i \in Nat
    PROVE  /\ At(S, i) \in S \cup {New}
           /\ i < Cardinality(S) => At(S, i) \in S
<1>1. IsFiniteSet(S) /\ S \in SUBSET Nat
  BY RecordsAreOrdered, FS_Subset
<1>2. i < Cardinality(S) => \E r \in S : Rank(r, S) = i + 1
  BY <1>1, RankTaken
<1> QED BY <1>2 DEF At
-----------------------------------------------------------------------------
(* The types: a batch and the selection are of known records.              *)


\* Asking for a list keeps the types.
LEMMA AskType ==
    ASSUME TypeOK, NEW reason \in Reasons \cup {"turn"}, NEW q \in Queries, NEW p \in Nat,
           Ask(reason, q, p)
    PROVE  /\ page' \in Nat /\ loads' \subseteq Load /\ issued' \in Nat
           /\ \A l \in loads' : l.no <= issued'
<1>1. issued + 1 \in Nat /\ issued < issued + 1
  BY DEF TypeOK
<1> DEFINE asked == [no |-> issued + 1, query |-> q, page |-> p, reason |-> reason,
                     served |-> FALSE, rows |-> {}, total |-> 0]
<1>2. asked \in Load
  BY <1>1 DEF Load
<1>3. \A l \in loads : l.no \in Nat
  BY DEF TypeOK, Load
<1>4. asked.no = issued + 1 /\ loads' = loads \cup {asked} /\ issued' = issued + 1
  BY DEF Ask
<1> HIDE DEF asked
<1>5. loads' \subseteq Load
  BY <1>2, <1>4 DEF TypeOK
<1>6. \A l \in loads' : l.no <= issued'
  BY <1>1, <1>3, <1>4 DEF TypeOK
<1>7. page' \in Nat
  BY DEF Ask, TypeOK
<1> QED BY <1>1, <1>4, <1>5, <1>6, <1>7

LEMMA PageForType ==
    ASSUME TypeOK, NEW reason \in Reasons
    PROVE  PageFor(reason) \in Nat
  BY DEF TypeOK, PageFor

LEMMA ReloadType ==
    ASSUME TypeOK, NEW reason \in Reasons, NEW q \in Queries, NEW flag \in BOOLEAN,
           Reload(reason, q, flag)
    PROVE  /\ page' \in Nat /\ loads' \subseteq Load /\ issued' \in Nat
           /\ \A l \in loads' : l.no <= issued'
           /\ loading' \in BOOLEAN /\ selected' \subseteq Records
<1>1. CASE view.reload[reason] = "none"
  BY <1>1 DEF Reload, TypeOK
<1>2. CASE view.reload[reason] # "none"
  <2>1. Ask(reason, q, PageFor(reason)) /\ selected' \subseteq Records
    BY <1>2 DEF Reload, Request, TypeOK
  <2>2. loading' = Flagged(flag)
    BY <1>2 DEF Reload
  <2>3. Flagged(flag) \in BOOLEAN
    BY DEF Flagged
  <2> QED BY <2>1, <2>2, <2>3, PageForType, AskType
<1> QED BY <1>1, <1>2

LEMMA SentType ==
    ASSUME TypeOK
    PROVE  Sent \in Queries /\ Merged \in Queries
  BY DEF TypeOK, Sent, Merged

\* A subset of the records is finite.
LEMMA RecordsFinite ==
    ASSUME NEW S \in SUBSET Records
    PROVE  IsFiniteSet(S) /\ Cardinality(S) \in Nat
  BY RecordsAreOrdered, FS_Subset, FS_CardinalityType

LEMMA InitType == Init => TypeOK
<1> SUFFICES ASSUME Init PROVE TypeOK
  OBVIOUS
<1>1. query \in Queries /\ params \in Queries /\ server \subseteq Records
  BY NoFilterIsQuery, RecordsAreOrdered DEF Init
<1>2. table \in Load /\ loads \subseteq Load /\ \A l \in loads : l.no <= issued
  BY <1>1 DEF Init, Load, Reasons
<1> QED BY <1>1, <1>2 DEF Init, TypeOK, NoBatch

LEMMA ServeType ==
    ASSUME TypeOK, NEW l \in loads, Serve(l) PROVE TypeOK'
<1> DEFINE S == server \cap Hits[l.query]
           answer == [l EXCEPT !.served = TRUE,
                               !.rows = RowsOf(l.query, l.page, server),
                               !.total = Cardinality(S)]
<1>1. Cardinality(S) \in Nat
  BY RecordsFinite DEF TypeOK
<1>2. RowsOf(l.query, l.page, server) \subseteq Records
  BY DEF RowsOf, TypeOK
<1>3. l \in Load
  BY DEF TypeOK
<1> HIDE DEF S
<1>4. answer \in Load /\ answer.no = l.no
  BY <1>1, <1>2, <1>3 DEF Load
<1>5. loads' = (loads \ {l}) \cup {answer}
  BY DEF Serve, S
<1>6. loads' \subseteq Load /\ \A k \in loads' : k.no <= issued
  BY <1>4, <1>5 DEF TypeOK
<1> QED BY <1>6 DEF Serve, TypeOK, rowVars, dialogVars

LEMMA AnsweredType ==
    ASSUME TypeOK, NEW l \in loads, LoadAnswered(l) \/ LoadFailed(l) PROVE TypeOK'
<1>1. l \in Load /\ l.page \in Nat
  BY DEF TypeOK, Load
<1> QED
  BY <1>1 DEF LoadAnswered, LoadFailed, TypeOK, rowVars, dialogVars

LEMMA CallType ==
    ASSUME TypeOK, NEW c \in calls, CallDone(c) \/ CallFailed(c) PROVE TypeOK'
<1>1. c.kind \in Reasons
  BY DEF TypeOK, Reasons
<1>2. \A flag \in BOOLEAN : Flagged(flag) \in BOOLEAN /\ AfterDelete(flag) \in BOOLEAN
  BY DEF Flagged, AfterDelete
<1>3. loading' \in BOOLEAN
  BY <1>2 DEF CallDone, CallFailed, TypeOK
<1>4. CASE CallFailed(c)
  BY <1>3, <1>4 DEF CallFailed, TypeOK, dialogVars
<1>5. CASE CallDone(c) /\ view.reload[c.kind] = "none"
  BY <1>3, <1>5 DEF CallDone, TypeOK, dialogVars
<1>6. CASE CallDone(c) /\ view.reload[c.kind] # "none"
  <2>1. Ask(c.kind, Sent, PageFor(c.kind)) /\ selected' \subseteq Records
    BY <1>6 DEF CallDone, Request, TypeOK
  <2>2. /\ page' \in Nat /\ loads' \subseteq Load /\ issued' \in Nat
        /\ \A l \in loads' : l.no <= issued'
    BY <1>1, <2>1, PageForType, SentType, AskType
  <2> QED BY <1>3, <1>6, <2>1, <2>2 DEF CallDone, TypeOK, dialogVars
<1> QED BY <1>4, <1>5, <1>6

LEMMA StepType ==
    ASSUME TypeOK, NEW ok \in BOOLEAN, BatchStep(ok) PROVE TypeOK'
<1> DEFINE next == At(Remaining, batch.at + 1)
<1>1. batch.at + 1 \in Nat /\ Remaining \subseteq Records
  BY DEF TypeOK, Remaining
<1>2. next \in Records \cup {New}
  BY <1>1, AtMember
<1>3. server' \subseteq Records
  BY DEF BatchStep, TypeOK
<1>4. CASE next # New
  BY <1>1, <1>2, <1>3, <1>4 DEF BatchStep, TypeOK, pageVars, dialogVars
<1>5. CASE next = New
  <2>1. Ask("batch", Sent, PageFor("batch"))
    BY <1>5 DEF BatchStep
  <2>2. /\ page' \in Nat /\ loads' \subseteq Load /\ issued' \in Nat
        /\ \A l \in loads' : l.no <= issued'
    BY <2>1, PageForType, SentType, AskType DEF Reasons
  <2>3. batch' = NoBatch /\ selected' = {} /\ loading' = TRUE
    BY <1>5 DEF BatchStep
  <2> QED BY <1>3, <1>5, <2>2, <2>3 DEF BatchStep, TypeOK, NoBatch, dialogVars
<1> QED BY <1>4, <1>5

LEMMA SaveType ==
    ASSUME TypeOK, NEW s \in saves, SaveDone(s) \/ SaveFailed(s) PROVE TypeOK'
<1>1. CASE SaveFailed(s)
  BY <1>1 DEF SaveFailed, TypeOK, pageVars, rowVars
<1>2. CASE SaveDone(s)
  <2>1. server' \subseteq Records
    BY <1>2 DEF SaveDone, TypeOK
  <2>2. Reload("save", Sent, loading) /\ loading \in BOOLEAN
    BY <1>2 DEF SaveDone, TypeOK
  <2> QED BY <1>2, <2>1, <2>2, SentType, ReloadType DEF SaveDone, TypeOK, Reasons
<1> QED BY <1>1, <1>2

LEMMA UserType ==
    ASSUME TypeOK, User PROVE TypeOK'
<1> DEFINE Goal == TypeOK'
<1>0. loading \in BOOLEAN /\ ops + 1 \in Nat
  BY DEF TypeOK
<1>1. ASSUME NEW q \in Queries, Type(q) PROVE Goal
  BY <1>0, <1>1 DEF Type, Counted, TypeOK, rowVars, dialogVars
<1>2. ASSUME NEW q \in Queries, Filter(q) PROVE Goal
  <2>1. Reload("filter", q, loading)
    BY <1>2 DEF Filter
  <2> QED BY <1>0, <1>2, <2>1, ReloadType DEF Filter, Counted, TypeOK, Reasons, dialogVars
<1>3. CASE Search
  <2>1. PICK q \in Queries :
          Reload("search", q, loading) /\ params' \in Queries
    BY <1>3, SentType DEF Search, TypeOK
  <2> QED BY <1>0, <1>3, <2>1, ReloadType DEF Search, Counted, TypeOK, Reasons, dialogVars
<1>4. CASE Reset
  <2>1. Reload("search", NoFilter, loading)
    BY <1>4 DEF Reset
  <2> QED BY <1>0, <1>4, <2>1, NoFilterIsQuery, ReloadType DEF Reset, Counted, TypeOK, Reasons, dialogVars
<1>5. CASE Refresh
  <2>1. Reload("refresh", Sent, loading)
    BY <1>5 DEF Refresh
  <2> QED BY <1>0, <1>5, <2>1, SentType, ReloadType DEF Refresh, Counted, TypeOK, Reasons, dialogVars
<1>6. CASE Export
  BY <1>0, <1>6 DEF Export, Counted, TypeOK, pageVars, dialogVars
<1>7. ASSUME NEW p \in 1..(Cardinality(Records) + 1), Turn(p) PROVE Goal
  <2>1. p \in Nat
    BY RecordsFinite
  <2>2. Ask("turn", Sent, p) /\ selected' \subseteq Records
    BY <1>7 DEF Turn, Request, TypeOK
  <2>3. loading' \in BOOLEAN
    BY <1>0, <1>7 DEF Turn, Flagged
  <2> QED BY <1>0, <1>7, <2>1, <2>2, <2>3, SentType, AskType DEF Turn, Counted, TypeOK, dialogVars
<1>8. ASSUME NEW r \in table.rows, Select(r) PROVE Goal
  <2>1. table.rows \subseteq Records
    BY DEF TypeOK, Load
  <2> QED BY <1>8, <2>1 DEF Select, TypeOK, pageVars, dialogVars
<1>9. ASSUME NEW kind \in {"delete", "toggle"}, NEW r \in table.rows, CallRow(kind, r) PROVE Goal
  <2>1. table.rows \subseteq Records
    BY DEF TypeOK, Load
  <2>2. loading' \in BOOLEAN
    BY <1>0, <1>9 DEF CallRow
  <2>3. calls' \subseteq [kind : {"delete", "toggle"}, id : Records]
    BY <1>9, <2>1 DEF CallRow, TypeOK
  <2> QED BY <1>0, <1>9, <2>2, <2>3 DEF CallRow, Counted, TypeOK, dialogVars
<1>10. ASSUME NEW kind \in {"delete", "toggle"}, BatchConfirm(kind) PROVE Goal
  <2>1. At(selected, 0) \in Records
    BY <1>10, AtMember, RecordsFinite, FS_EmptySet DEF TypeOK, BatchConfirm
  <2>2. loading' \in BOOLEAN
    BY <1>10 DEF BatchConfirm, TypeOK
  <2> QED BY <1>0, <1>10, <2>1, <2>2 DEF BatchConfirm, Counted, TypeOK, dialogVars
<1>11. CASE BatchCancel
  BY <1>11 DEF BatchCancel, TypeOK, pageVars, dialogVars
<1>12. CASE OpenDialog \/ CloseDialog
  BY <1>0, <1>12 DEF OpenDialog, CloseDialog, Counted, TypeOK, pageVars, rowVars
<1>13. ASSUME NEW new \in BOOLEAN, Submit(new) PROVE Goal
  BY <1>0, <1>13 DEF Submit, Counted, TypeOK, pageVars, rowVars
<1> QED
  BY <1>1, <1>2, <1>3, <1>4, <1>5, <1>6, <1>7, <1>8, <1>9, <1>10, <1>11, <1>12, <1>13
  DEF User, DeleteRow, Toggle

\* Whatever the user does and the server answers, the controls mean something:
\* the selection and a batch are of known records, and every load has a number.
THEOREM TypeCorrect == Spec => []TypeOK
<1>1. TypeOK /\ [Next]_vars => TypeOK'
  <2> SUFFICES ASSUME TypeOK, [Next]_vars PROVE TypeOK'
    OBVIOUS
  <2>1. CASE UNCHANGED vars
    BY <2>1 DEF vars, pageVars, rowVars, dialogVars, TypeOK
  <2> QED
    BY <2>1, ServeType, AnsweredType, CallType, StepType, SaveType, UserType DEF Next, Answers
<1> QED BY <1>1, InitType, PTL DEF Spec
-----------------------------------------------------------------------------
(* A batch that goes by a copy.                                            *)

BatchOK ==
    /\ batch.agreed = batch.copy
    /\ (batch.running /\ view.batch[batch.kind] = "copy") => batch.item \in batch.agreed

LEMMA BatchStepOK ==
    ASSUME TypeOK, BatchOK, [Next]_vars PROVE BatchOK'
<1>1. ASSUME NEW ok \in BOOLEAN, BatchStep(ok) PROVE BatchOK'
  <2> DEFINE next == At(Remaining, batch.at + 1)
  <2>1. CASE next # New
    <3>1. /\ batch' = [batch EXCEPT !.at = @ + 1, !.item = next] /\ view' = view
      BY <1>1, <2>1 DEF BatchStep
    <3>2. /\ batch'.agreed = batch.agreed /\ batch'.copy = batch.copy
          /\ batch'.kind = batch.kind /\ batch'.item = next
      BY <3>1 DEF TypeOK
    <3>3. view.batch[batch.kind] = "copy" => next \in batch.copy
      BY <2>1, AtMember DEF Remaining, TypeOK
    <3> QED BY <3>1, <3>2, <3>3 DEF BatchOK
  <2>2. CASE next = New
    BY <1>1, <2>2 DEF BatchStep, NoBatch, BatchOK
  <2> QED BY <2>1, <2>2
<1>2. ASSUME NEW kind \in {"delete", "toggle"}, BatchConfirm(kind) PROVE BatchOK'
  <2>1. At(selected, 0) \in selected
    <3>1. selected \in SUBSET Records /\ selected # {}
      BY <1>2 DEF TypeOK, BatchConfirm
    <3>2. 0 < Cardinality(selected)
      BY <3>1, RecordsFinite, FS_EmptySet
    <3> QED BY <3>1, <3>2, AtMember
  <2>2. /\ batch'.kind = kind /\ batch'.copy = selected /\ batch'.agreed = selected
        /\ view' = view
        /\ view.batch[kind] = "copy" => batch'.item = At(selected, 0)
    BY <1>2 DEF BatchConfirm
  <2> QED BY <2>1, <2>2 DEF BatchOK
<1>3. CASE BatchCancel
  <2>1. batch' = [batch EXCEPT !.asks = FALSE] /\ view' = view
    BY <1>3 DEF BatchCancel
  <2> QED BY <2>1 DEF TypeOK, BatchOK
<1>4. CASE UNCHANGED <<batch, view>>
  BY <1>4 DEF BatchOK
<1>5. ASSUME NEW l \in loads, Serve(l) \/ LoadAnswered(l) \/ LoadFailed(l) PROVE UNCHANGED <<batch, view>>
  BY <1>5 DEF Serve, LoadAnswered, LoadFailed, rowVars
<1>6. ASSUME NEW c \in calls, CallDone(c) \/ CallFailed(c) PROVE UNCHANGED <<batch, view>>
  BY <1>6 DEF CallDone, CallFailed
<1>7. ASSUME NEW x \in saves, SaveDone(x) \/ SaveFailed(x) PROVE UNCHANGED <<batch, view>>
  BY <1>7 DEF SaveDone, SaveFailed, rowVars
<1>8. ASSUME NEW q \in Queries, Type(q) \/ Filter(q) PROVE UNCHANGED <<batch, view>>
  BY <1>8 DEF Type, Filter, rowVars
<1>9. CASE Search \/ Reset \/ Refresh \/ Export \/ \E p \in 1..(Cardinality(Records) + 1) : Turn(p)
  BY <1>4, <1>9 DEF Search, Reset, Refresh, Export, Turn
<1>10. ASSUME NEW r \in table.rows, Select(r) \/ DeleteRow(r) \/ Toggle(r) PROVE UNCHANGED <<batch, view>>
  BY <1>10 DEF Select, DeleteRow, Toggle, CallRow
<1>11. CASE OpenDialog \/ CloseDialog \/ \E new \in BOOLEAN : Submit(new)
  BY <1>4, <1>11 DEF OpenDialog, CloseDialog, Submit, rowVars
<1>12. CASE UNCHANGED vars
  BY <1>4, <1>12 DEF vars, rowVars
<1> QED
  BY <1>1, <1>2, <1>3, <1>4, <1>5, <1>6, <1>7, <1>8, <1>9, <1>10, <1>11, <1>12
  DEF Next, Answers, User

\* A batch that goes by a copy of the selection calls only for rows the user had
\* agreed to, for selections and pages of any size: the copy is what was agreed to,
\* and the next item is one of the copy as long as there is one.
THEOREM BatchAgreedHolds == Spec => []BatchAgreed
<1>1. Init => BatchOK
  BY DEF Init, NoBatch, BatchOK
<1>2. BatchOK => BatchAgreed
  BY DEF BatchOK, BatchAgreed
<1> QED BY <1>1, <1>2, TypeCorrect, BatchStepOK, PTL DEF Spec

-----------------------------------------------------------------------------
(* The spinner.                                                            *)

\* Whatever set the flag is still under way and will clear it, when every
\* answer clears it.
SpinnerInv ==
    (view.clears = "always" /\ loading) =>
        \/ loads # {}
        \/ view.flagsDelete /\ \E c \in calls : c.kind = "delete"
        \/ batch.running

LEMMA ReloadSpins ==
    ASSUME SpinnerInv, NEW reason, NEW q, Reload(reason, q, loading),
           UNCHANGED <<view, calls, batch>>
    PROVE  SpinnerInv'
  BY DEF SpinnerInv, Reload, Request, Ask

LEMMA StaySpins ==
    ASSUME SpinnerInv, UNCHANGED <<view, loading, loads, calls, batch>>
    PROVE  SpinnerInv'
  BY DEF SpinnerInv

LEMMA SpinnerStep ==
    ASSUME TypeOK, SpinnerInv, [Next]_vars PROVE SpinnerInv'
<1>1. ASSUME NEW l \in loads, Serve(l) PROVE SpinnerInv'
  BY <1>1 DEF Serve, SpinnerInv, rowVars
<1>2. ASSUME NEW l \in loads, LoadAnswered(l) \/ LoadFailed(l) PROVE SpinnerInv'
  BY <1>2 DEF LoadAnswered, LoadFailed, SpinnerInv, rowVars
<1>3. ASSUME NEW c \in calls, CallDone(c) PROVE SpinnerInv'
  <2>1. view' = view /\ calls' = calls \ {c} /\ batch' = batch
    BY <1>3 DEF CallDone
  <2>2. CASE view.reload[c.kind] # "none"
    BY <1>3, <2>1, <2>2 DEF CallDone, Request, Ask, SpinnerInv
  <2>3. CASE view.reload[c.kind] = "none"
    BY <1>3, <2>1, <2>3 DEF CallDone, AfterDelete, SpinnerInv
  <2> QED BY <2>2, <2>3
<1>4. ASSUME NEW c \in calls, CallFailed(c) PROVE SpinnerInv'
  BY <1>4 DEF CallFailed, AfterDelete, SpinnerInv
<1>5. ASSUME NEW ok \in BOOLEAN, BatchStep(ok) PROVE SpinnerInv'
  <2>1. CASE At(Remaining, batch.at + 1) # New
    BY <1>5, <2>1 DEF BatchStep, SpinnerInv, TypeOK, pageVars
  <2>2. CASE At(Remaining, batch.at + 1) = New
    BY <1>5, <2>2 DEF BatchStep, Ask, SpinnerInv
  <2> QED BY <2>1, <2>2
<1>6. ASSUME NEW x \in saves, SaveDone(x) \/ SaveFailed(x) PROVE SpinnerInv'
  BY <1>6, ReloadSpins, StaySpins DEF SaveDone, SaveFailed, pageVars, rowVars
<1>7. ASSUME NEW q \in Queries, Type(q) \/ Filter(q) PROVE SpinnerInv'
  BY <1>7, ReloadSpins, StaySpins DEF Type, Filter, rowVars
<1>8. CASE Search \/ Reset \/ Refresh
  BY <1>8, ReloadSpins DEF Search, Reset, Refresh
<1>9. ASSUME NEW p \in 1..(Cardinality(Records) + 1), Turn(p) PROVE SpinnerInv'
  BY <1>9 DEF Turn, Request, Ask, SpinnerInv
<1>10. ASSUME NEW r \in table.rows, DeleteRow(r) \/ Toggle(r) PROVE SpinnerInv'
  <2>1. CASE DeleteRow(r)
    <3>1. [kind |-> "delete", id |-> r] \in calls' /\ calls \subseteq calls'
      BY <2>1 DEF DeleteRow, CallRow
    <3>2. loading' = (IF view.flagsDelete THEN TRUE ELSE loading)
      BY <2>1 DEF DeleteRow, CallRow
    <3> QED BY <2>1, <3>1, <3>2 DEF DeleteRow, CallRow, SpinnerInv
  <2>2. CASE Toggle(r)
    BY <2>2 DEF Toggle, CallRow, SpinnerInv
  <2> QED BY <1>10, <2>1, <2>2
<1>11. ASSUME NEW kind \in {"delete", "toggle"}, BatchConfirm(kind) PROVE SpinnerInv'
  BY <1>11 DEF BatchConfirm, SpinnerInv
<1>12. CASE BatchCancel
  BY <1>12 DEF BatchCancel, SpinnerInv, TypeOK, pageVars
<1>13. CASE Export \/ (\E r \in table.rows : Select(r)) \/ OpenDialog \/ CloseDialog \/ (\E new \in BOOLEAN : Submit(new))
  BY <1>13, StaySpins DEF Export, Select, OpenDialog, CloseDialog, Submit, pageVars, rowVars
<1>14. CASE UNCHANGED vars
  BY <1>14, StaySpins DEF vars, pageVars, rowVars
<1> QED
  BY <1>1, <1>2, <1>3, <1>4, <1>5, <1>6, <1>7, <1>8, <1>9, <1>10, <1>11, <1>12, <1>13, <1>14
  DEF Next, Answers, User

\* A page whose loads clear the flag whatever the answer never spins for ever, for
\* any number of loads, deletes and batches under way together.
THEOREM SpinnerEndsHolds == Spec => []SpinnerEnds
<1>1. Init => SpinnerInv
  BY DEF Init, SpinnerInv
<1>2. SpinnerInv => SpinnerEnds
  BY DEF SpinnerInv, SpinnerEnds, Quiet
<1> QED BY <1>1, <1>2, TypeCorrect, SpinnerStep, PTL DEF Spec

-----------------------------------------------------------------------------
(* The list that is shown.                                                 *)

\* Loads are numbered in the order in which they are asked for.
NumbersOK ==
    /\ issued \in Nat
    /\ \A l \in loads : l.no \in Nat /\ l.no <= issued
    /\ \A l, k \in loads : l.no = k.no => l = k

\* What the last load must agree with, on its way and when it is shown.
Current(l) ==
    /\ l.no = issued
    /\ view.reload.search = "none" => l.query = query
    /\ view.sends = "merged" => l.query = params

\* As long as answers come in order, the last load is on its way or shown.
LatestInv ==
    ~overtaken =>
        \/ /\ loads = {}
           /\ Current(table) /\ table.page = page
        \/ \E l \in loads :
               Current(l) /\ (view.pageSet = "request" => l.page = page)

\* What a query sent now must agree with, given the box and the last search
\* after the step.
Agrees(q) ==
    /\ view.reload.search = "none" => q = query'
    /\ view.sends = "merged" => q = params'

\* A load that is asked for becomes the current one.
LEMMA AskCurrent ==
    ASSUME NumbersOK, view' = view, NEW reason, NEW q, NEW p, Ask(reason, q, p), Agrees(q)
    PROVE  NumbersOK' /\ LatestInv'
<1>1. PICK l : /\ l.no = issued + 1 /\ l.query = q /\ l.page = p
               /\ loads' = loads \cup {l} /\ issued' = issued + 1
  <2>1. LET l == [no |-> issued + 1, query |-> q, page |-> p, reason |-> reason,
                  served |-> FALSE, rows |-> {}, total |-> 0]
        IN  /\ l.no = issued + 1 /\ l.query = q /\ l.page = p
            /\ loads' = loads \cup {l} /\ issued' = issued + 1
    BY DEF Ask
  <2> QED BY <2>1
<1>2. view.pageSet = "request" => page' = p
  BY DEF Ask
<1>3. NumbersOK'
  BY <1>1 DEF NumbersOK
<1>4. Current(l)'
  BY <1>1 DEF Current, Agrees
<1> QED BY <1>1, <1>2, <1>3, <1>4 DEF LatestInv

\* A step that leaves the loads, the table and what was sent last alone.
LEMMA StayCurrent ==
    ASSUME NumbersOK, LatestInv, UNCHANGED <<view, loads, issued, table, page, overtaken>>,
           view.reload.search = "none" => query' = query,
           view.sends = "merged" => params' = params
    PROVE  NumbersOK' /\ LatestInv'
  BY DEF NumbersOK, LatestInv, Current

LEMMA ReloadCurrent ==
    ASSUME NumbersOK, LatestInv, NEW reason, NEW q, NEW flag, Reload(reason, q, flag),
           UNCHANGED <<view, table, overtaken>>, Agrees(q),
           view.reload[reason] = "none" =>
               /\ view.reload.search = "none" => query' = query
               /\ view.sends = "merged" => params' = params
    PROVE  NumbersOK' /\ LatestInv'
<1>1. CASE view.reload[reason] = "none"
  BY <1>1, StayCurrent DEF Reload
<1>2. CASE view.reload[reason] # "none"
  BY <1>2, AskCurrent DEF Reload, Request
<1> QED BY <1>1, <1>2

\* What every load but a search sends agrees with the box or the last search.
LEMMA SentAgrees ==
    ASSUME TypeOK, UNCHANGED <<query, params>>
    PROVE  Agrees(Sent)
  BY MergingSearches, PagesAreProfiles DEF TypeOK, Sent, Agrees, Profile

\* The answer shown is the last one exactly when no load is left.
LEMMA AnsweredCurrent ==
    ASSUME NumbersOK, LatestInv, NEW l \in loads, LoadAnswered(l)
    PROVE  NumbersOK' /\ LatestInv'
<1>1. NumbersOK'
  BY DEF LoadAnswered, NumbersOK
<1>2. ASSUME ~overtaken' PROVE LatestInv'
  <2>1. ~overtaken /\ \A k \in loads : ~(k.no < l.no)
    BY <1>2 DEF LoadAnswered
  <2>2. PICK m \in loads : Current(m) /\ (view.pageSet = "request" => m.page = page)
    BY <2>1 DEF LatestInv
  <2>3. CASE m = l
    <3>1. loads' = {}
      BY <2>1, <2>2, <2>3 DEF LoadAnswered, NumbersOK, Current
    <3>2. Current(table)' /\ table'.page = page'
      BY <2>2, <2>3 DEF LoadAnswered, Current
    <3> QED BY <3>1, <3>2 DEF LatestInv
  <2>4. CASE m # l
    <3>1. m \in loads' /\ Current(m)'
      BY <2>2, <2>4 DEF LoadAnswered, Current
    <3>2. view'.pageSet = "request" => m.page = page'
      BY <2>2 DEF LoadAnswered
    <3> QED BY <3>1, <3>2 DEF LatestInv
  <2> QED BY <2>3, <2>4
<1> QED BY <1>1, <1>2 DEF LatestInv

\* The server's work changes nothing that the page could compare.
LEMMA ServeCurrent ==
    ASSUME TypeOK, NumbersOK, LatestInv, NEW l \in loads, Serve(l)
    PROVE  NumbersOK' /\ LatestInv'
<1>1. PICK s : /\ s.no = l.no /\ s.query = l.query /\ s.page = l.page
               /\ loads' = (loads \ {l}) \cup {s}
  <2>1. LET s == [l EXCEPT !.served = TRUE, !.rows = RowsOf(l.query, l.page, server),
                           !.total = Cardinality(server \cap Hits[l.query])]
        IN  /\ s.no = l.no /\ s.query = l.query /\ s.page = l.page
            /\ loads' = (loads \ {l}) \cup {s}
    BY DEF Serve, TypeOK, Load
  <2> QED BY <2>1
<1>2. UNCHANGED <<view, issued, query, params, page, table, overtaken>>
  BY DEF Serve
<1>3. NumbersOK'
  BY <1>1, <1>2 DEF NumbersOK
<1>4. Current(l) => Current(s)'
  BY <1>1, <1>2 DEF Current
<1>5. \A m : Current(m) => Current(m)'
  BY <1>2 DEF Current
<1> QED BY <1>1, <1>2, <1>3, <1>4, <1>5 DEF LatestInv

LEMMA CurrentStep ==
    ASSUME TypeOK, NumbersOK, LatestInv, [Next]_vars
    PROVE  NumbersOK' /\ LatestInv'
<1> DEFINE Goal == NumbersOK' /\ LatestInv'
<1> SUFFICES Goal
  OBVIOUS
<1> HIDE DEF Goal
<1>1. ASSUME NEW l \in loads, Serve(l) \/ LoadAnswered(l) PROVE Goal
  BY <1>1, ServeCurrent, AnsweredCurrent DEF Goal
<1>2. ASSUME NEW l \in loads, LoadFailed(l) PROVE Goal
  BY <1>2 DEF LoadFailed, NumbersOK, LatestInv, Goal
<1>3. ASSUME NEW c \in calls, CallDone(c) PROVE Goal
  <2>1. UNCHANGED <<view, table, overtaken, query, params>>
    BY <1>3 DEF CallDone
  <2>2. CASE view.reload[c.kind] = "none"
    BY <1>3, <2>1, <2>2, StayCurrent DEF CallDone, Goal
  <2>3. CASE view.reload[c.kind] # "none"
    <3>1. Ask(c.kind, Sent, PageFor(c.kind))
      BY <1>3, <2>3 DEF CallDone, Request
    <3> QED BY <2>1, <3>1, SentAgrees, AskCurrent DEF Goal
  <2> QED BY <2>2, <2>3
<1>4. ASSUME NEW c \in calls, CallFailed(c) PROVE Goal
  BY <1>4, StayCurrent DEF CallFailed, Goal
<1>5. ASSUME NEW ok \in BOOLEAN, BatchStep(ok) PROVE Goal
  <2>1. CASE At(Remaining, batch.at + 1) # New
    BY <1>5, <2>1, StayCurrent DEF BatchStep, pageVars, Goal
  <2>2. CASE At(Remaining, batch.at + 1) = New
    <3>1. Ask("batch", Sent, PageFor("batch")) /\ UNCHANGED <<view, query, params>>
      BY <1>5, <2>2 DEF BatchStep
    <3> QED BY <3>1, SentAgrees, AskCurrent DEF Goal
  <2> QED BY <2>1, <2>2
<1>6. ASSUME NEW x \in saves, SaveDone(x) \/ SaveFailed(x) PROVE Goal
  <2>1. CASE SaveDone(x)
    <3>1. Reload("save", Sent, loading) /\ UNCHANGED <<view, query, params, table, overtaken>>
      BY <2>1 DEF SaveDone
    <3> QED BY <3>1, SentAgrees, ReloadCurrent DEF Goal
  <2>2. CASE SaveFailed(x)
    BY <2>2, StayCurrent DEF SaveFailed, pageVars, Goal
  <2> QED BY <1>6, <2>1, <2>2
<1>7. ASSUME NEW q \in Queries, Type(q) PROVE Goal
  BY <1>7, StayCurrent DEF Type, Goal
<1>8. ASSUME NEW q \in Queries, Filter(q) PROVE Goal
  <2>1. Reload("filter", q, loading) /\ UNCHANGED <<view, params, table, overtaken>> /\ query' = q
    BY <1>8 DEF Filter
  <2>2. view.sends # "merged" /\ view.reload.filter # "none"
    BY <1>8, MergingSearches DEF Filter, TypeOK
  <2> QED BY <2>1, <2>2, ReloadCurrent DEF Agrees, Goal
<1>9. CASE Search
  <2>1. PICK q : /\ Reload("search", q, loading)
                 /\ view.sends = "box" => params' = params
                 /\ view.sends = "merged" => q = params'
    BY <1>9 DEF Search
  <2>2. UNCHANGED <<view, query, table, overtaken>> /\ view.reload.search # "none"
    BY <1>9 DEF Search
  <2> QED BY <2>1, <2>2, ReloadCurrent DEF Agrees, Goal
<1>10. CASE Reset
  <2>1. Reload("search", NoFilter, loading) /\ UNCHANGED <<view, table, overtaken>>
        /\ query' = NoFilter /\ params' = NoFilter
    BY <1>10 DEF Reset
  <2>2. view.reload.search # "none"
    BY <1>10, ResetSearches DEF Reset, TypeOK
  <2> QED BY <2>1, <2>2, ReloadCurrent DEF Agrees, Goal
<1>11. CASE Refresh
  <2>1. Reload("refresh", Sent, loading) /\ UNCHANGED <<view, query, params, table, overtaken>>
    BY <1>11 DEF Refresh
  <2> QED BY <2>1, SentAgrees, ReloadCurrent DEF Goal
<1>12. ASSUME NEW p \in 1..(Cardinality(Records) + 1), Turn(p) PROVE Goal
  <2>1. Ask("turn", Sent, p) /\ UNCHANGED <<view, query, params>>
    BY <1>12 DEF Turn, Request
  <2> QED BY <2>1, SentAgrees, AskCurrent DEF Goal
<1>13. CASE Export \/ BatchCancel \/ OpenDialog \/ CloseDialog \/ (\E new \in BOOLEAN : Submit(new))
  BY <1>13, StayCurrent DEF Export, BatchCancel, OpenDialog, CloseDialog, Submit, pageVars, Goal
<1>14. ASSUME NEW r \in table.rows, Select(r) \/ DeleteRow(r) \/ Toggle(r) PROVE Goal
  BY <1>14, StayCurrent DEF Select, DeleteRow, Toggle, CallRow, pageVars, Goal
<1>15. ASSUME NEW kind \in {"delete", "toggle"}, BatchConfirm(kind) PROVE Goal
  BY <1>15, StayCurrent DEF BatchConfirm, Goal
<1>16. CASE UNCHANGED vars
  BY <1>16, StayCurrent DEF vars, pageVars, Goal
<1> QED
  BY <1>1, <1>2, <1>3, <1>4, <1>5, <1>6, <1>7, <1>8, <1>9, <1>10, <1>11, <1>12, <1>13, <1>14, <1>15, <1>16
  DEF Next, Answers, User

\* When all loads are answered, in order, the table shows the last one asked for and
\* the pager its page, whenever the page assigns the number and whatever it sends.
THEOREM LatestShownHolds == Spec => []LatestShown
<1>1. Init => NumbersOK /\ LatestInv
  <2> SUFFICES ASSUME Init PROVE NumbersOK /\ LatestInv
    OBVIOUS
  <2>1. view.sends = "box" \/ query = params
    BY DEF Init
  <2>2. view.sends = "merged" => query = params
    BY <2>1
  <2> QED BY <2>2 DEF Init, NumbersOK, LatestInv, Current
<1>2. LatestInv => LatestShown
  BY DEF LatestInv, LatestShown, Current
<1> QED BY <1>1, <1>2, TypeCorrect, CurrentStep, PTL DEF Spec
=============================================================================
