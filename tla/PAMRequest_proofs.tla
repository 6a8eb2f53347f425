-------------------------- MODULE PAMRequest_proofs --------------------------
(***************************************************************************)
(* Proofs about PAMRequest for any number of requests, workers, attempts,  *)
(* revisions and late calls.                                               *)
(***************************************************************************)
EXTENDS PAMRequest, TLAPS

States == {"absent"} \cup Open \cup Finished
Reasons == {"no", "cancel", "expired", "itsm", "policy", "management", "scope"}
Syncs == {"none", "pending", "running", "done", "failed"}
Leases == {"none", "held", "expired"}
Verdicts == {"none", "open", "approved", "unqualified", "rejected", "cancelled", "withdrawn"}
Steps == {"idle", "load", "expire", "call", "bind", "accept", "settle", "close",
          "rebind", "finish", "fail"}

LEMMA Members ==
    /\ \A x \in {"absent", "pending", "approved", "rejected", "cancelled", "expired", "invalidated"} :
          x \in States
    /\ \A x \in {"no", "cancel", "expired", "itsm", "policy", "management", "scope"} : x \in Reasons
    /\ \A x \in {"none", "pending", "running", "done", "failed"} : x \in Syncs
    /\ \A x \in {"none", "held", "expired"} : x \in Leases
    /\ \A x \in {"none", "open", "approved", "unqualified", "rejected", "cancelled", "withdrawn"} :
          x \in Verdicts
    /\ \A x \in {"idle", "load", "expire", "call", "bind", "accept", "settle", "close",
                 "rebind", "finish", "fail"} : x \in Steps
    /\ \A x \in States : x = "absent" \/ x \in Open \/ x \in Finished
  BY DEF States, Reasons, Syncs, Leases, Verdicts, Steps, Open, Finished

\* Row, Ticket and Job without the bounds of their counters.
RowShape ==
    [state : States, policy : Nat, scope : Nat, ticket : BOOLEAN, provider : Nat,
     granted : BOOLEAN, revoked : Reasons, sync : Syncs, owner : Worker \cup {None},
     lease : Leases, attempts : Nat]

TicketShape == [verdict : Verdicts, id : BOOLEAN, rev : Nat, late : BOOLEAN]

JobShape ==
    [step : Steps, req : Req \cup {None}, ticket : BOOLEAN, term : BOOLEAN,
     answer : TicketShape, done : BOOLEAN, attempts : Nat]

Shape ==
    /\ row \in [Req -> RowShape]
    /\ policy \in [Kind -> Nat] /\ scope \in [Kind -> Nat]
    /\ due \in [Req -> BOOLEAN] /\ over \in [Req -> BOOLEAN]
    /\ remote \in [Req -> TicketShape]
    /\ job \in [Worker -> JobShape]
    /\ editor.copy \in RowShape

\* What the operators make of a row.
LEMMA RowOperators ==
    ASSUME NEW x \in RowShape, NEW why \in Reasons, why # "no"
    PROVE  /\ Scheduled(x) \in RowShape /\ Revoked(x, why) \in RowShape
           /\ Invalidated(x, why) \in RowShape
           /\ Revoked(x, why).state = x.state /\ Revoked(x, why).revoked # "no"
           /\ Scheduled(x).state = x.state
           /\ x.state \in Open => Invalidated(x, why).state = "invalidated"
           /\ x.state \notin Open => Invalidated(x, why) = x
<1> USE Members DEF RowShape
<1>1. Scheduled(x) \in RowShape /\ Scheduled(x).state = x.state
  BY DEF Scheduled
<1>2. Revoked(x, why) \in RowShape /\ Revoked(x, why).state = x.state
  BY DEF Revoked
<1>3. Revoked(x, why).revoked # "no"
  BY DEF Revoked
<1>4. Invalidated(x, why) \in RowShape
  BY DEF Invalidated
<1>5. /\ x.state \in Open => Invalidated(x, why).state = "invalidated"
      /\ x.state \notin Open => Invalidated(x, why) = x
  BY DEF Invalidated
<1> QED BY <1>1, <1>2, <1>3, <1>4, <1>5

LEMMA Kinds == \A r \in Req : KindOf(r) \in Kind
  BY DEF KindOf, Kind

LEMMA AbsentShape == Absent \in RowShape
  BY Members DEF Absent, RowShape

LEMMA NewRowShape ==
    ASSUME Shape, NEW k \in Kind
    PROVE  /\ NewRow(k) \in RowShape /\ NewRow(k).state = "pending"
           /\ NewRow(k).policy = policy[k] /\ ~NewRow(k).granted
           /\ NewRow(k).revoked = "no" /\ NewRow(k).provider = 0
<1>1. [Absent EXCEPT !.state = "pending", !.policy = policy[k], !.scope = scope[k]] \in RowShape
  BY AbsentShape, Members DEF RowShape, Shape
<1> QED
  BY <1>1, Members DEF NewRow, Scheduled, Absent, RowShape

\* A row expires, and only as the clock says, or stays as it is.
LEMMA ExpiredShape ==
    ASSUME Shape, NEW r \in Req
    PROVE  /\ Expired(r) \in RowShape
           /\ Expired(r) = row[r] \/ (Expired(r).state = "expired" /\ row[r].state \in Open)
<1>1. row[r] \in RowShape
  BY DEF Shape
<1>2. CASE Expired(r) = row[r]
  BY <1>1, <1>2
<1>3. CASE /\ row[r].state \in {"pending", "approved"}
           /\ Expired(r) = Revoked([row[r] EXCEPT !.state = "expired"], "expired")
  <2>1. PICK y \in RowShape : y = [row[r] EXCEPT !.state = "expired"]
    BY <1>1, Members DEF RowShape
  <2>2. y.state = "expired" /\ Expired(r) = Revoked(y, "expired")
    BY <1>1, <1>3, <2>1 DEF RowShape
  <2>3. "expired" \in Reasons /\ "expired" # "no"
    BY Members
  <2>4. Revoked(y, "expired") \in RowShape /\ Revoked(y, "expired").state = "expired"
    BY <2>2, <2>3, RowOperators
  <2>5. row[r].state \in Open
    BY <1>3 DEF Open
  <2> QED BY <2>2, <2>4, <2>5
<1> QED BY <1>2, <1>3 DEF Expired

\* What an event makes of a row: it is taken note of, or ends the request, or it is
\* the approval of a pending one, in time and under the present policy.
LEMMA DecidedShape ==
    ASSUME Shape, NEW r \in Req, NEW t \in TicketShape, t.verdict \notin {"none", "open"},
           ~(row[r].state = "pending" /\ t.verdict = "unqualified")
    PROVE  /\ Decided(r, t) \in RowShape
           /\ \/ /\ Decided(r, t) = [row[r] EXCEPT !.provider = t.rev]
                 /\ row[r].state = "approved" => t.verdict \in {"approved", "unqualified"}
              \/ Decided(r, t).state \in Finished /\ row[r].state \in Open
              \/ /\ row[r].state = "pending" /\ t.verdict = "approved" /\ ~t.late /\ ~over[r]
                 /\ row[r].policy = policy[KindOf(r)]
                 /\ Decided(r, t) = [row[r] EXCEPT !.provider = t.rev, !.state = "approved",
                                                   !.granted = TRUE]
<1> DEFINE x == [row[r] EXCEPT !.provider = t.rev]
<1>1. row[r] \in RowShape /\ t.rev \in Nat
  BY DEF Shape, TicketShape
<1>2. /\ x \in RowShape /\ x.state = row[r].state /\ x.policy = row[r].policy
  BY <1>1 DEF RowShape
<1>3. "itsm" \in Reasons /\ "itsm" # "no"
  BY Members
<1>4. CASE x.state \notin Open
  <2>1. Decided(r, t) = x
    BY <1>4 DEF Decided, Open
  <2> QED BY <1>2, <1>4, <2>1 DEF Open
<1>5. CASE x.state = "approved" /\ t.verdict \in {"approved", "unqualified"}
  BY <1>2, <1>5 DEF Decided, Open
<1>6. CASE x.state = "pending" /\ t.verdict = "approved"
  <2>1. Decided(r, t) = IF t.late \/ over[r] THEN [x EXCEPT !.state = "expired"]
                        ELSE IF ~Current(x, KindOf(r)) THEN [x EXCEPT !.state = "invalidated"]
                        ELSE [x EXCEPT !.state = "approved", !.granted = TRUE]
    BY <1>6 DEF Decided, Open
  <2>2. \A st \in {"expired", "invalidated"} :
           [x EXCEPT !.state = st] \in RowShape /\ [x EXCEPT !.state = st].state \in Finished
    BY <1>2, Members DEF RowShape, Finished
  <2>3. [x EXCEPT !.state = "approved", !.granted = TRUE] \in RowShape
    BY <1>2, Members DEF RowShape
  <2>4. [x EXCEPT !.state = "approved", !.granted = TRUE] =
        [row[r] EXCEPT !.provider = t.rev, !.state = "approved", !.granted = TRUE]
    OBVIOUS
  <2>5. Current(x, KindOf(r)) => row[r].policy = policy[KindOf(r)]
    BY <1>2 DEF Current
  <2> HIDE DEF x
  <2> QED BY <1>2, <1>6, <2>1, <2>2, <2>3, <2>4, <2>5 DEF Open
<1>7. CASE x.state \in Open /\ t.verdict \in {"rejected", "cancelled", "withdrawn"}
  <2>1. PICK st \in {"rejected", "cancelled"} :
           Decided(r, t) = Revoked([x EXCEPT !.state = st], "itsm")
    BY <1>7 DEF Decided, Open
  <2>2. [x EXCEPT !.state = st] \in RowShape /\ [x EXCEPT !.state = st].state = st
    BY <1>2, Members DEF RowShape
  <2>3. st \in Finished
    BY DEF Finished
  <2>4. x.state \in Open => row[r].state \in Open
    BY <1>2
  <2> HIDE DEF x
  <2>5. PICK y \in RowShape : y = [x EXCEPT !.state = st] /\ y.state = st
    BY <2>2
  <2>6. Revoked(y, "itsm") \in RowShape /\ Revoked(y, "itsm").state = y.state
    BY <1>3, RowOperators
  <2>7. Decided(r, t) = Revoked(y, "itsm")
    BY <2>1, <2>5
  <2>8. Decided(r, t) \in RowShape /\ Decided(r, t).state = st
    BY <2>5, <2>6, <2>7
  <2> QED BY <1>7, <2>3, <2>4, <2>8
<1>8. t.verdict \in Verdicts
  BY DEF TicketShape
<1> QED BY <1>2, <1>4, <1>5, <1>6, <1>7, <1>8 DEF Open, Verdicts

-----------------------------------------------------------------------------
(* What a step can do to a request.                                        *)

\* A ticket is decided once, and its approval can be withdrawn.
TicketOK(x) ==
    /\ x.verdict \in {"none", "open"} <=> x.rev = 0
    /\ x.verdict \in {"approved", "unqualified"} => x.rev = 1

TicketsOK == \A r \in Req : TicketOK(remote[r])

\* A worker goes on with a request that exists, and with a decision that stands, or
\* has been withdrawn since; the request it decides has its ticket, or is finished.
JobOK(j) ==
    LET x == remote[j.req] IN
    /\ j.step # "idle" => j.req \in Req /\ row[j.req].state # "absent"
    /\ TicketOK(j.answer)
    /\ (j.step # "idle" /\ j.answer.verdict = "approved") =>
          x.verdict \in {"approved", "withdrawn"} /\ x.late = j.answer.late
    /\ j.step = "accept" =>
          j.answer.rev # 0 /\ (row[j.req].ticket \/ row[j.req].state \in Finished)

AnswersOK == \A w \in Worker : JobOK(job[w])

\* A request that is being made does not exist yet, and the one it replaces does.
EditorOK ==
    ~Unlocked =>
        /\ editor.new \in View /\ row[editor.new].state = "absent"
        /\ editor.old \in View /\ row[editor.old].state # "absent"

\* Nobody synchronizes a request that does not exist.
AbsentOK == \A r \in Req : row[r].state = "absent" => row[r].sync = "none"

Base == Shape /\ TicketsOK /\ AnswersOK /\ EditorOK /\ AbsentOK

\* The parts of a row that matter here stay as they are.
Kept(x, y) ==
    /\ y.state = x.state /\ y.policy = x.policy
    /\ y.granted = x.granted /\ y.revoked = x.revoked
    /\ x.ticket => y.ticket
    /\ y.provider = x.provider \/ (x.state = "approved" => y.provider = 1)
    /\ x.state = "absent" => y.sync = x.sync

Stays(r) ==
    /\ Kept(row[r], row'[r])
    /\ row[r].state \in Open => policy'[KindOf(r)] = policy[KindOf(r)]

\* An open request ends; a finished one changes only where it is replaced.
Ends(r) ==
    /\ row'[r].state \in Finished /\ row[r].state # "absent"
    /\ row[r].state \in Open \/ (ReplaceView /\ r = editor.old)

Begins(r) ==
    /\ row[r].state = "absent" /\ row'[r].state = "pending"
    /\ row'[r].policy = policy[KindOf(r)] /\ policy' = policy
    /\ ~row'[r].granted /\ row'[r].revoked = "no"
    /\ \/ Unlocked /\ (r \in View => \A v \in View : row[v].state \notin Open)
       \/ ~Unlocked /\ editor' = NoEditor /\ row'[editor.old].state \in Finished
    /\ \A q \in Req \ {r} : row[q].state = "absent" => row'[q].state = "absent"

Grants(r) ==
    /\ row[r].state = "pending" /\ row'[r].state = "approved"
    /\ row'[r].policy = policy[KindOf(r)] /\ policy' = policy
    /\ row'[r].ticket /\ row'[r].provider = 1 /\ row'[r].revoked = row[r].revoked
    /\ row'[r].granted
    /\ ~over[r] /\ remote[r].verdict \in {"approved", "withdrawn"} /\ ~remote[r].late

Moves(r) == Stays(r) \/ Ends(r) \/ Begins(r) \/ Grants(r)

RowsMove == row' \in [Req -> RowShape] /\ \A r \in Req : Moves(r)

\* Nothing but the rows' bookkeeping, in one row.
LEMMA OneMoves ==
    ASSUME Shape, NEW q \in Req, NEW y \in RowShape, row' = [row EXCEPT ![q] = y],
           Moves(q), \A r \in Req \ {q} : policy'[KindOf(r)] = policy[KindOf(r)]
    PROVE  RowsMove
<1>1. row' \in [Req -> RowShape]
  BY DEF Shape
<1>2. ASSUME NEW r \in Req \ {q} PROVE Moves(r)
  <2>1. row'[r] = row[r]
    BY DEF Shape
  <2> QED BY <2>1, <1>2 DEF Moves, Stays, Kept
<1> QED BY <1>1, <1>2 DEF RowsMove

LEMMA NoneMoves ==
    ASSUME Shape, UNCHANGED <<row, policy>>
    PROVE  RowsMove
  BY DEF Shape, RowsMove, Moves, Stays, Kept

\* The steps of operators and administrators.
LEMMA OperatorsMove ==
    ASSUME Base, Operators \/ Administration
    PROVE  RowsMove
<1> USE DEF Base
<1>1. ASSUME NEW r \in Req, NEW k \in Kind, k = KindOf(r), row[r].state = "absent", Unlocked,
             r \in View => \A v \in View : row[v].state \notin Open,
             row' = [row EXCEPT ![r] = NewRow(k)], UNCHANGED database
      PROVE  RowsMove
  <2>1. row'[r] = NewRow(k)
    BY <1>1 DEF Shape
  <2>2. Begins(r) /\ policy' = policy
    BY <1>1, <2>1, NewRowShape DEF Begins, database, Shape
  <2> QED BY <1>1, <2>2, NewRowShape, OneMoves DEF Moves
<1>2. ASSUME NEW r \in Req, Create(r) PROVE RowsMove
  BY <1>1, <1>2 DEF Create, KindOf, Kind
<1>3. ASSUME NEW r \in Req, CreateView(r) PROVE RowsMove
  BY <1>1, <1>3 DEF CreateView, ViewAllowed, KindOf, Kind
<1>4. ASSUME NEW r \in Req, Cancel(r) PROVE RowsMove
  <2>1. PICK y \in RowShape : y = [row[r] EXCEPT !.state = "cancelled"]
    BY Members DEF Shape, RowShape
  <2>2. y.state = "cancelled" /\ row' = [row EXCEPT ![r] = Revoked(Scheduled(y), "cancel")]
    BY <1>4, <2>1 DEF Cancel, Shape, RowShape
  <2>3. "cancel" \in Reasons /\ "cancel" # "no"
    BY Members
  <2>4. PICK z \in RowShape : z = Revoked(Scheduled(y), "cancel") /\ z.state = "cancelled"
    BY <2>2, <2>3, RowOperators
  <2>5. Ends(r) /\ policy' = policy
    BY <1>4, <2>2, <2>4 DEF Ends, Cancel, database, Shape, Open, Finished
  <2> QED BY <2>2, <2>4, <2>5, OneMoves DEF Moves
<1>5. ASSUME NEW r \in Req, RetrySync(r) PROVE RowsMove
  <2>1. row[r] \in RowShape /\ row[r].state # "absent"
    BY <1>5 DEF Shape, RetrySync, AbsentOK
  <2>2. Scheduled(row[r]) \in RowShape /\ Kept(row[r], Scheduled(row[r]))
    BY <2>1, Members DEF Scheduled, Kept, RowShape
  <2>3. row' = [row EXCEPT ![r] = Scheduled(row[r])] /\ policy' = policy
    BY <1>5 DEF RetrySync, database
  <2>4. Stays(r)
    BY <2>2, <2>3 DEF Stays, Shape
  <2> QED BY <2>2, <2>3, <2>4, OneMoves DEF Moves
<1>6. ASSUME NEW r \in Req, NEW old \in Req, ReadOpenView(r, old) PROVE RowsMove
  BY <1>6, NoneMoves DEF ReadOpenView, database
<1>7. CASE ReplaceView
  <2> DEFINE new == editor.new
             old == editor.old
  <2>1. /\ new \in Req /\ old \in Req /\ new # old /\ ~Unlocked
        /\ row[new].state = "absent" /\ row[old].state # "absent"
        /\ KindOf(new) = "view" /\ "view" \in Kind /\ policy' = policy
    BY <1>7, RequestAssumption DEF ReplaceView, EditorOK, KindOf, Kind, database
  <2>2. PICK y \in RowShape : y = [editor.copy EXCEPT !.state = "invalidated"]
    BY Members DEF Shape, RowShape
  <2>3. y.state = "invalidated"
    BY <2>2 DEF Shape, RowShape
  <2>4. "scope" \in Reasons /\ "scope" # "no"
    BY Members
  <2>5. PICK z \in RowShape : z = Revoked(Scheduled(y), "scope") /\ z.state = "invalidated"
    BY <2>3, <2>4, RowOperators
  <2>6. row' = [row EXCEPT ![old] = z, ![new] = NewRow("view")]
    BY <1>7, <2>2, <2>5 DEF ReplaceView
  <2>7. row' \in [Req -> RowShape]
    BY <2>1, <2>6, NewRowShape DEF Shape
  <2>8. /\ row'[old] = z /\ row'[new] = NewRow("view")
        /\ \A r \in Req \ {old, new} : row'[r] = row[r]
    BY <2>1, <2>6 DEF Shape
  <2>9. Ends(old) /\ row'[old].state \in Finished
    BY <1>7, <2>1, <2>5, <2>8 DEF Ends, Finished
  <2>10. Begins(new)
    BY <1>7, <2>1, <2>8, <2>9, NewRowShape DEF Begins, ReplaceView
  <2>11. \A r \in Req \ {old, new} : Stays(r)
    BY <2>1, <2>8 DEF Stays, Kept
  <2> QED BY <2>7, <2>9, <2>10, <2>11 DEF RowsMove, Moves
<1>8. ASSUME NEW k \in Kind, NEW why \in Reasons, why # "no", InvalidateAll(k, why),
             \A j \in Kind : j # k => policy'[j] = policy[j]
      PROVE  RowsMove
  <2>1. ASSUME NEW r \in Req, KindOf(r) = k PROVE row'[r] \in RowShape /\ Moves(r)
    <3>1. row[r] \in RowShape /\ row'[r] = Invalidated(row[r], why)
      BY <1>8, <2>1 DEF Shape, InvalidateAll
    <3>2. CASE row[r].state \in Open
      <4>1. row'[r] \in RowShape /\ row'[r].state = "invalidated"
        BY <1>8, <3>1, <3>2, RowOperators
      <4>2. row[r].state # "absent" /\ "invalidated" \in Finished
        BY <3>2 DEF Open, Finished
      <4> QED BY <3>2, <4>1, <4>2 DEF Moves, Ends
    <3>3. CASE row[r].state \notin Open
      <4>1. row'[r] = row[r]
        BY <1>8, <3>1, <3>3, RowOperators
      <4> QED BY <3>1, <3>3, <4>1 DEF Moves, Stays, Kept
    <3> QED BY <3>2, <3>3
  <2>2. ASSUME NEW r \in Req, KindOf(r) # k PROVE row'[r] \in RowShape /\ Moves(r)
    <3>1. row'[r] = row[r] /\ row[r] \in RowShape /\ policy'[KindOf(r)] = policy[KindOf(r)]
      BY <1>8, <2>2, Kinds DEF Shape, InvalidateAll
    <3> QED BY <3>1 DEF Moves, Stays, Kept
  <2>3. row' \in [Req -> RowShape]
    BY <1>8, <2>1, <2>2 DEF InvalidateAll
  <2> QED BY <2>1, <2>2, <2>3 DEF RowsMove
<1>9. ASSUME NEW r \in Req, NEW on \in BOOLEAN, SavePolicy(KindOf(r), on) PROVE RowsMove
  <2>1. "policy" \in Reasons /\ KindOf(r) \in Kind
    BY Members, Kinds
  <2>2. \A j \in Kind : j # KindOf(r) => policy'[j] = policy[j]
    BY <1>9 DEF SavePolicy, Shape
  <2> QED BY <1>9, <2>1, <2>2, <1>8 DEF SavePolicy
<1>10. CASE RemoveManagement
  <2>1. "management" \in Reasons /\ "connect" \in Kind
    BY Members DEF Kind
  <2>2. \A j \in Kind : j # "connect" => policy'[j] = policy[j]
    BY <1>10 DEF RemoveManagement, Shape
  <2> QED BY <1>10, <2>1, <2>2, <1>8 DEF RemoveManagement
<1>11. CASE Adopt \/ \E r \in Req : EditScope(KindOf(r)) \/ SetAvailable(KindOf(r))
  BY <1>11, NoneMoves DEF Adopt, EditScope, SetAvailable
<1> QED
  BY <1>2, <1>3, <1>4, <1>5, <1>6, <1>7, <1>9, <1>10, <1>11 DEF Operators, Administration

\* The steps of the workers, and of what happens around them.
LEMMA WorkersMove ==
    ASSUME Base, (\E w \in Worker : WorkerStep(w)) \/ Trouble \/ Environment \/ UNCHANGED vars
    PROVE  RowsMove
<1> USE DEF Base
<1>1. ASSUME NEW r \in Req, NEW y \in RowShape, Kept(row[r], y), row' = [row EXCEPT ![r] = y],
             UNCHANGED database
      PROVE  RowsMove
  <2>1. policy' = policy /\ row'[r] = y
    BY <1>1 DEF database, Shape
  <2> QED BY <1>1, <2>1, OneMoves DEF Moves, Stays
<1>2. ASSUME NEW w \in Worker, NEW r \in Req, Claim(w, r) PROVE RowsMove
  <2>1. row[r].state # "absent" /\ row[r] \in RowShape
    BY <1>2 DEF Claim, AbsentOK, Shape
  <2>2. PICK y : y = [row[r] EXCEPT !.sync = "running", !.owner = w, !.lease = "held"]
    OBVIOUS
  <2>3. y \in RowShape /\ Kept(row[r], y)
    BY <2>1, <2>2, Members DEF RowShape, Kept
  <2> QED BY <1>1, <1>2, <2>2, <2>3 DEF Claim
<1>3. ASSUME NEW w \in Worker, ExpireFirst(w) \/ Settle(w) PROVE RowsMove
  <2> DEFINE r == job[w].req
  <2>1. r \in Req /\ row' = [row EXCEPT ![r] = Expired(r)] /\ UNCHANGED database
    BY <1>3 DEF ExpireFirst, Settle, AnswersOK, JobOK
  <2> HIDE DEF r
  <2>2. CASE Expired(r) = row[r]
    BY <2>1, <2>2, <1>1, ExpiredShape DEF Kept
  <2>3. CASE Expired(r).state = "expired" /\ row[r].state \in Open
    <3>1. Ends(r) /\ policy' = policy
      BY <2>1, <2>3 DEF Ends, Shape, Open, Finished, database
    <3> QED BY <2>1, <3>1, ExpiredShape, OneMoves DEF Moves
  <2> QED BY <2>1, <2>2, <2>3, ExpiredShape
<1>4. ASSUME NEW w \in Worker, Bind(w) PROVE RowsMove
  <2> DEFINE r == job[w].req
  <2>1. /\ r \in Req /\ row[r].state # "absent" /\ row[r] \in RowShape
        /\ row' = [row EXCEPT ![r] = [row[r] EXCEPT !.ticket = TRUE]] /\ UNCHANGED database
    BY <1>4 DEF Bind, Shape, AnswersOK, JobOK
  <2> HIDE DEF r
  <2>2. PICK y : y = [row[r] EXCEPT !.ticket = TRUE]
    OBVIOUS
  <2>3. y \in RowShape /\ Kept(row[r], y)
    BY <2>1, <2>2 DEF RowShape, Kept
  <2> QED BY <1>1, <2>1, <2>2, <2>3
<1>5. ASSUME NEW w \in Worker, Finish(w) PROVE RowsMove
  <2> DEFINE r == job[w].req
  <2>1. /\ r \in Req /\ row[r].state # "absent" /\ row[r] \in RowShape
        /\ job[w].attempts \in Nat /\ UNCHANGED database
    BY <1>5 DEF Finish, Shape, AnswersOK, JobOK, JobShape
  <2>2. CASE row' = row
    BY <2>1, <2>2, NoneMoves DEF database
  <2>3. ASSUME NEW next \in Syncs, NEW n \in Nat,
               row' = [row EXCEPT ![r] = [row[r] EXCEPT !.sync = next, !.owner = None,
                                                        !.lease = "none", !.attempts = n]]
        PROVE  RowsMove
    <3>1. PICK y : y = [row[r] EXCEPT !.sync = next, !.owner = None, !.lease = "none",
                                      !.attempts = n]
      OBVIOUS
    <3> HIDE DEF r
    <3>2. y \in RowShape /\ Kept(row[r], y)
      BY <2>1, <3>1, Members DEF RowShape, Kept
    <3> QED BY <1>1, <2>1, <2>3, <3>1, <3>2
  <2>4. \/ row' = row
        \/ \E next \in Syncs, n \in Nat :
              row' = [row EXCEPT ![r] = [row[r] EXCEPT !.sync = next, !.owner = None,
                                                       !.lease = "none", !.attempts = n]]
    <3> DEFINE failed == job[w].step = "fail"
               next == CASE failed /\ job[w].attempts + 1 >= MaxAttempts -> "failed"
                         [] ~failed /\ job[w].done -> "done"
                         [] OTHER -> "pending"
               n == IF failed THEN job[w].attempts + 1 ELSE 0
    <3>1. next \in Syncs /\ n \in Nat
      BY <2>1, Members
    <3>2. row' = IF row[r].owner # w THEN row
                 ELSE [row EXCEPT ![r] = [row[r] EXCEPT !.sync = next, !.owner = None,
                                                        !.lease = "none", !.attempts = n]]
      BY <1>5 DEF Finish
    <3> HIDE DEF next, n
    <3> QED BY <3>1, <3>2
  <2> HIDE DEF r
  <2> QED BY <2>2, <2>3, <2>4
<1>6. ASSUME NEW w \in Worker, Accept(w) PROVE RowsMove
  <2> DEFINE r == job[w].req
             t == job[w].answer
  <2>1. /\ r \in Req /\ t \in TicketShape /\ row[r] \in RowShape /\ row[r].state # "absent"
        /\ t.rev # 0 /\ t.verdict \notin {"none", "open"} /\ UNCHANGED database
        /\ row[r].ticket \/ row[r].state \in Finished
        /\ t.rev \in Nat /\ row[r].provider \in Nat
    BY <1>6 DEF Accept, Shape, AnswersOK, JobOK, TicketOK, JobShape, TicketShape, RowShape
  <2>2. CASE row' = row
    BY <2>1, <2>2, NoneMoves DEF database
  <2>3. CASE ~Refused(r, t) /\ t.rev # row[r].provider /\ row' = [row EXCEPT ![r] = Decided(r, t)]
    <3>1. ~(row[r].state = "pending" /\ t.verdict = "unqualified")
      BY <2>1, <2>3 DEF Refused
    <3>2. \/ /\ Decided(r, t) = [row[r] EXCEPT !.provider = t.rev]
             /\ row[r].state = "approved" => t.verdict \in {"approved", "unqualified"}
          \/ Decided(r, t).state \in Finished /\ row[r].state \in Open
          \/ /\ row[r].state = "pending" /\ t.verdict = "approved" /\ ~t.late /\ ~over[r]
             /\ row[r].policy = policy[KindOf(r)]
             /\ Decided(r, t) = [row[r] EXCEPT !.provider = t.rev, !.state = "approved",
                                               !.granted = TRUE]
      BY <2>1, <3>1, DecidedShape
    <3>3. Decided(r, t) \in RowShape
      BY <2>1, <3>1, DecidedShape
    <3>4. /\ t.verdict \in {"approved", "unqualified"} => t.rev = 1
          /\ t.verdict = "approved" => /\ remote[r].verdict \in {"approved", "withdrawn"}
                                       /\ remote[r].late = t.late
      BY <1>6 DEF AnswersOK, JobOK, TicketOK, Accept
    <3>5. row'[r] = Decided(r, t) /\ policy' = policy
      BY <2>1, <2>3 DEF Shape, database
    <3> HIDE DEF r, t
    <3>6. CASE /\ Decided(r, t) = [row[r] EXCEPT !.provider = t.rev]
               /\ row[r].state = "approved" => t.verdict \in {"approved", "unqualified"}
      <4>1. Kept(row[r], Decided(r, t))
        BY <2>1, <3>4, <3>6 DEF Kept, RowShape
      <4> QED BY <1>1, <2>1, <2>3, <3>3, <4>1
    <3>7. CASE Decided(r, t).state \in Finished /\ row[r].state \in Open
      <4>1. Ends(r)
        BY <3>5, <3>7 DEF Ends, Open
      <4> QED BY <2>1, <2>3, <3>3, <3>5, <4>1, OneMoves DEF Moves
    <3>8. CASE /\ row[r].state = "pending" /\ t.verdict = "approved" /\ ~t.late /\ ~over[r]
               /\ row[r].policy = policy[KindOf(r)]
               /\ Decided(r, t) = [row[r] EXCEPT !.provider = t.rev, !.state = "approved",
                                                 !.granted = TRUE]
      <4>1. /\ row'[r].state = "approved" /\ row'[r].provider = t.rev
            /\ row'[r].policy = row[r].policy /\ row'[r].ticket = row[r].ticket
            /\ row'[r].revoked = row[r].revoked /\ row'[r].granted
        BY <2>1, <3>5, <3>8 DEF RowShape
      <4>2. Grants(r)
        BY <2>1, <3>4, <3>5, <3>8, <4>1 DEF Grants, Finished
      <4> QED BY <2>1, <2>3, <3>3, <3>5, <4>2, OneMoves DEF Moves
    <3> QED BY <3>2, <3>6, <3>7, <3>8
  <2>4. row' = row \/ (~Refused(r, t) /\ t.rev # row[r].provider /\ row' = [row EXCEPT ![r] = Decided(r, t)])
    BY <1>6, <2>1 DEF Accept, Shape
  <2> QED BY <2>2, <2>3, <2>4
<1>7. ASSUME NEW r \in Req, LeaseExpires(r) PROVE RowsMove
  <2>1. row[r] \in RowShape /\ row' = [row EXCEPT ![r] = [row[r] EXCEPT !.lease = "expired"]]
    BY <1>7 DEF LeaseExpires, Shape
  <2>2. PICK y : y = [row[r] EXCEPT !.lease = "expired"]
    OBVIOUS
  <2>3. y \in RowShape /\ Kept(row[r], y)
    BY <2>1, <2>2, Members DEF RowShape, Kept
  <2> QED BY <1>1, <1>7, <2>1, <2>2, <2>3 DEF LeaseExpires
<1>8. ASSUME NEW w \in Worker, \/ Load(w) \/ \E served \in BOOLEAN : Call(w, served)
                               \/ Fail(w) \/ Crash(w) \/ \E lost \in BOOLEAN : CallFails(w, lost)
      PROVE  RowsMove
  BY <1>8, NoneMoves DEF Load, Call, Fail, Crash, CallFails, database
<1>9. CASE \/ \E r \in Req : RequestDue(r) \/ PeriodOver(r)
           \/ \E r \in Req, verdict \in Decision : Decide(r, verdict)
           \/ \E r \in Req, op \in {"create", "cancel"} : Arrive(r, op)
           \/ UNCHANGED vars
  BY <1>9, NoneMoves DEF RequestDue, PeriodOver, Decide, Arrive, vars, database
<1> QED
  BY <1>2, <1>3, <1>4, <1>5, <1>6, <1>7, <1>8, <1>9 DEF WorkerStep, Trouble, Environment

LEMMA NextMoves ==
    ASSUME Base, [Next]_vars
    PROVE  RowsMove
  BY OperatorsMove, WorkersMove DEF Next

-----------------------------------------------------------------------------
(* What a step can do around the requests.                                 *)

\* An approval lasts, or is withdrawn; when it was given does not change.
Lasts(x, y) ==
    x.verdict \in {"approved", "withdrawn"} =>
        y.verdict \in {"approved", "withdrawn"} /\ y.late = x.late

TicketsMove ==
    /\ remote' \in [Req -> TicketShape]
    /\ \A r \in Req : TicketOK(remote'[r]) /\ Lasts(remote[r], remote'[r])

LEMMA ServedTicket ==
    ASSUME NEW x \in TicketShape, TicketOK(x), NEW op
    PROVE  Served(x, op) \in TicketShape /\ TicketOK(Served(x, op)) /\ Lasts(x, Served(x, op))
<1>1. CASE op = "create" /\ x.verdict = "none"
  <2>1. Served(x, op) = [x EXCEPT !.verdict = "open", !.id = TRUE]
    BY <1>1 DEF Served
  <2>2. Served(x, op) \in TicketShape
    BY <2>1, Members DEF TicketShape
  <2> QED BY <1>1, <2>1, <2>2 DEF TicketShape, TicketOK, Lasts
<1>2. CASE op = "cancel" /\ x.verdict \in {"none", "open"}
  <2>1. Served(x, op) = [x EXCEPT !.verdict = "cancelled", !.rev = 1]
    BY <1>2 DEF Served
  <2>2. PICK y : y = [x EXCEPT !.verdict = "cancelled", !.rev = 1]
    OBVIOUS
  <2>3. "cancelled" \in Verdicts
    BY Members
  <2>4. y \in TicketShape /\ y.verdict = "cancelled" /\ y.rev = 1
    BY <2>2, <2>3 DEF TicketShape
  <2>5. TicketOK(y) /\ Lasts(x, y)
    BY <1>2, <2>4 DEF TicketOK, Lasts
  <2> QED BY <2>1, <2>2, <2>4, <2>5
<1>3. CASE /\ ~(op = "create" /\ x.verdict = "none")
           /\ ~(op = "cancel" /\ x.verdict \in {"none", "open"})
  BY <1>3 DEF Served, Lasts
<1> QED BY <1>1, <1>2, <1>3

LEMMA OneTicketMoves ==
    ASSUME Base, NEW r \in Req, NEW y \in TicketShape, TicketOK(y), Lasts(remote[r], y),
           remote' = [remote EXCEPT ![r] = y]
    PROVE  TicketsMove
  BY DEF TicketsMove, Lasts, Base, Shape, TicketsOK

LEMMA DecisionsAre == \A v \in Decision : v \in {"approved", "unqualified", "rejected", "withdrawn"}
  BY DecisionAssumption

LEMMA NextTickets ==
    ASSUME Base, [Next]_vars
    PROVE  TicketsMove
<1>1. CASE UNCHANGED remote
  BY <1>1 DEF TicketsMove, Lasts, Base, Shape, TicketsOK
<1>2. ASSUME NEW w \in Worker, NEW served \in BOOLEAN, Call(w, served) PROVE TicketsMove
  <2> DEFINE r == job[w].req
             x == IF served THEN Served(remote[r], OperationOf(job[w])) ELSE remote[r]
  <2>1. r \in Req /\ remote' = [remote EXCEPT ![r] = x]
    BY <1>2 DEF Call, Base, AnswersOK, JobOK
  <2>2. remote[r] \in TicketShape /\ TicketOK(remote[r])
    BY <2>1 DEF Base, Shape, TicketsOK
  <2>3. x \in TicketShape /\ TicketOK(x) /\ Lasts(remote[r], x)
    BY <2>2, ServedTicket DEF Lasts
  <2> HIDE DEF r, x
  <2> QED BY <2>1, <2>3, OneTicketMoves
<1>3. ASSUME NEW r \in Req, NEW verdict \in Decision, Decide(r, verdict) PROVE TicketsMove
  <2> DEFINE y == [id |-> remote[r].id, verdict |-> verdict, rev |-> remote[r].rev + 1,
                   late |-> IF verdict = "withdrawn" THEN remote[r].late ELSE due[r]]
  <2>1. remote' = [remote EXCEPT ![r] = y]
    BY <1>3 DEF Decide
  <2>2. remote[r] \in TicketShape /\ TicketOK(remote[r]) /\ due[r] \in BOOLEAN
    BY DEF Base, Shape, TicketsOK
  <2>3. verdict \in Verdicts
    BY DecisionsAre, Members
  <2>4. y \in TicketShape
    BY <2>2, <2>3 DEF TicketShape
  <2>5. /\ y.verdict = verdict /\ y.rev = remote[r].rev + 1 /\ remote[r].rev \in Nat
        /\ verdict = "withdrawn" => y.late = remote[r].late
    BY <2>2 DEF TicketShape
  <2>6. IF verdict = "withdrawn" THEN remote[r].verdict = "approved" ELSE remote[r].verdict = "open"
    BY <1>3 DEF Decide
  <2> HIDE DEF y
  <2>7. TicketOK(y) /\ Lasts(remote[r], y)
    BY <2>2, <2>5, <2>6, DecisionsAre DEF TicketOK, Lasts
  <2> QED BY <2>1, <2>4, <2>7, OneTicketMoves
<1>4. ASSUME NEW r \in Req, NEW op, Arrive(r, op) PROVE TicketsMove
  <2>1. remote[r] \in TicketShape /\ TicketOK(remote[r])
    BY DEF Base, Shape, TicketsOK
  <2>2. remote' = [remote EXCEPT ![r] = Served(remote[r], op)]
    BY <1>4 DEF Arrive
  <2> QED BY <2>1, <2>2, ServedTicket, OneTicketMoves
<1>5. ASSUME NEW w \in Worker, WorkerStep(w) PROVE TicketsMove
  BY <1>1, <1>2, <1>5 DEF WorkerStep, Claim, Load, ExpireFirst, Bind, Accept, Settle, Finish, itsm
<1>6. CASE Trouble
  BY <1>1, <1>6 DEF Trouble, Fail, Crash, CallFails, itsm
<1>7. CASE Operators \/ Administration
  BY <1>1, <1>7 DEF Operators, Administration, Create, CreateView, Cancel, RetrySync, ReadOpenView,
                    ReplaceView, SavePolicy, EditScope, SetAvailable, RemoveManagement, Adopt, itsm
<1>8. CASE Environment
  BY <1>1, <1>3, <1>4, <1>8 DEF Environment, RequestDue, PeriodOver, LeaseExpires, itsm
<1>9. CASE UNCHANGED vars
  BY <1>1, <1>9 DEF vars, itsm
<1> QED BY <1>5, <1>6, <1>7, <1>8, <1>9 DEF Next

\* Time does not run backwards, and the database keeps its form.
Around ==
    /\ policy' \in [Kind -> Nat] /\ scope' \in [Kind -> Nat]
    /\ due' \in [Req -> BOOLEAN] /\ over' \in [Req -> BOOLEAN]
    /\ \A r \in Req : over[r] => over'[r]

LEMMA NextAround ==
    ASSUME Base, [Next]_vars
    PROVE  Around
<1> USE DEF Base, Shape
<1>1. CASE UNCHANGED <<database, clock>>
  BY <1>1 DEF Around, database, clock
<1>2. ASSUME NEW w \in Worker, WorkerStep(w) PROVE Around
  BY <1>1, <1>2 DEF WorkerStep, Claim, Load, ExpireFirst, Call, Bind, Accept, Settle, Finish
<1>3. CASE Trouble
  BY <1>1, <1>3 DEF Trouble, Fail, Crash, CallFails
<1>4. CASE Operators
  BY <1>1, <1>4 DEF Operators, Create, CreateView, Cancel, RetrySync, ReadOpenView, ReplaceView
<1>5. CASE Administration
  <2>1. policy' \in [Kind -> Nat] /\ scope' \in [Kind -> Nat] /\ UNCHANGED clock
    BY <1>5 DEF Administration, SavePolicy, EditScope, SetAvailable, RemoveManagement, Adopt, Kind
  <2> QED BY <2>1 DEF Around, clock
<1>6. CASE Environment
  <2>1. UNCHANGED database
    BY <1>6 DEF Environment, RequestDue, PeriodOver, LeaseExpires, Decide, Arrive
  <2>2. /\ due' \in [Req -> BOOLEAN] /\ over' \in [Req -> BOOLEAN]
        /\ \A r \in Req : over[r] => over'[r]
    BY <1>6 DEF Environment, RequestDue, PeriodOver, LeaseExpires, Decide, Arrive, clock
  <2> QED BY <2>1, <2>2 DEF Around, database
<1>7. CASE UNCHANGED vars
  BY <1>1, <1>7 DEF vars
<1> QED BY <1>2, <1>3, <1>4, <1>5, <1>6, <1>7 DEF Next

\* The editor stays, ends, or begins with what it read of an open request.
EditorMoves ==
    \/ editor' = editor \/ editor' = NoEditor
    \/ /\ Unlocked /\ UNCHANGED row
       /\ editor'.new \in View /\ row[editor'.new].state = "absent"
       /\ editor'.old \in View /\ row[editor'.old].state \in Open
       /\ editor'.copy = row[editor'.old]

LEMMA NextEditor ==
    ASSUME Base, [Next]_vars
    PROVE  EditorMoves
<1>1. ASSUME NEW w \in Worker, WorkerStep(w) PROVE EditorMoves
  BY <1>1 DEF WorkerStep, Claim, Load, ExpireFirst, Call, Bind, Accept, Settle, Finish, EditorMoves
<1>2. CASE Trouble
  BY <1>2 DEF Trouble, Fail, Crash, CallFails, EditorMoves
<1>3. CASE Operators
  <2>1. ASSUME NEW r \in Req, NEW old \in Req, ReadOpenView(r, old) PROVE EditorMoves
    BY <2>1 DEF ReadOpenView, ViewAllowed, EditorMoves
  <2>2. CASE ReplaceView \/ \E r \in Req : Create(r) \/ CreateView(r) \/ Cancel(r) \/ RetrySync(r)
    BY <2>2 DEF Create, CreateView, Cancel, RetrySync, ReplaceView, EditorMoves
  <2> QED BY <1>3, <2>1, <2>2 DEF Operators
<1>4. CASE Administration
  BY <1>4 DEF Administration, SavePolicy, EditScope, SetAvailable, RemoveManagement, Adopt, EditorMoves
<1>5. CASE Environment
  BY <1>5 DEF Environment, RequestDue, PeriodOver, LeaseExpires, Decide, Arrive, EditorMoves
<1>6. CASE UNCHANGED vars
  BY <1>6 DEF vars, EditorMoves
<1> QED BY <1>1, <1>2, <1>3, <1>4, <1>5, <1>6 DEF Next

\* What a worker goes on with still holds after the step of another.
LEMMA JobStays ==
    ASSUME Base, RowsMove, TicketsMove, NEW j \in JobShape, JobOK(j)
    PROVE  JobOK(j)'
<1>1. CASE j.step = "idle"
  BY <1>1 DEF JobOK
<1>2. CASE j.step # "idle"
  <2> DEFINE r == j.req
  <2>1. r \in Req /\ row[r].state # "absent"
    BY <1>2 DEF JobOK
  <2>2. Moves(r) /\ Lasts(remote[r], remote'[r])
    BY <2>1 DEF RowsMove, TicketsMove
  <2>3. row'[r].state # "absent"
    BY <2>1, <2>2 DEF Moves, Stays, Kept, Ends, Begins, Grants, Finished
  <2>4. row[r].ticket \/ row[r].state \in Finished => row'[r].ticket \/ row'[r].state \in Finished
    BY <2>1, <2>2 DEF Moves, Stays, Kept, Ends, Begins, Grants
  <2> QED BY <1>2, <2>1, <2>2, <2>3, <2>4 DEF JobOK, Lasts
<1> QED BY <1>1, <1>2

JobsMove == job' \in [Worker -> JobShape] /\ AnswersOK'

LEMMA OneJobMoves ==
    ASSUME Base, RowsMove, TicketsMove, NEW w \in Worker, NEW j \in JobShape, JobOK(j)',
           job' = [job EXCEPT ![w] = j]
    PROVE  JobsMove
<1>1. job' \in [Worker -> JobShape]
  BY DEF Base, Shape
<1>2. ASSUME NEW v \in Worker PROVE JobOK(job[v])'
  <2>1. CASE v = w
    <3>1. job'[v] = j
      BY <2>1 DEF Base, Shape
    <3> QED BY <3>1 DEF JobOK
  <2>2. CASE v # w
    <3>1. job'[v] = job[v] /\ job[v] \in JobShape /\ JobOK(job[v])
      BY <2>2 DEF Base, Shape, AnswersOK
    <3>2. ASSUME NEW y \in JobShape, y = job[v] PROVE JobOK(y)'
      BY <3>1, <3>2, JobStays
    <3> QED BY <3>1, <3>2 DEF JobOK
  <2> QED BY <2>1, <2>2
<1> QED BY <1>1, <1>2 DEF JobsMove, AnswersOK

LEMMA NoJobMoves ==
    ASSUME Base, RowsMove, TicketsMove, job' = job
    PROVE  JobsMove
<1>1. ASSUME NEW v \in Worker PROVE JobOK(job[v])'
  <2>1. job'[v] = job[v] /\ job[v] \in JobShape /\ JobOK(job[v])
    BY DEF Base, Shape, AnswersOK
  <2>2. ASSUME NEW j \in JobShape, j = job[v] PROVE JobOK(j)'
    BY <2>1, <2>2, JobStays
  <2> QED BY <2>1, <2>2 DEF JobOK
<1> QED BY <1>1 DEF JobsMove, AnswersOK, Base, Shape

LEMMA IdleJob == Idle \in JobShape /\ NoTicket \in TicketShape /\ TicketOK(NoTicket)
  BY Members DEF Idle, NoTicket, JobShape, TicketShape, TicketOK

\* A busy worker goes on with its request, and with what it was answered.
LEMMA JobGoesOn ==
    ASSUME Base, RowsMove, TicketsMove, NEW w \in Worker, job[w].step # "idle",
           NEW j \in JobShape, j.req = job[w].req, job' = [job EXCEPT ![w] = j],
           j.answer \in {job[w].answer, NoTicket, remote'[j.req]},
           j.step = "accept" => j.answer.rev # 0 /\ row'[j.req].ticket
    PROVE  JobsMove
<1>1. job[w] \in JobShape /\ JobOK(job[w])
  BY DEF Base, Shape, AnswersOK
<1>2. ASSUME NEW y \in JobShape, y = job[w] PROVE JobOK(y)'
  BY <1>1, <1>2, JobStays
<1>3. j.req \in Req /\ row'[j.req].state # "absent"
  BY <1>1, <1>2 DEF JobOK
<1>4. CASE j.answer = job[w].answer
  BY <1>1, <1>2, <1>3, <1>4, OneJobMoves DEF JobOK
<1>5. CASE j.answer = NoTicket
  <2>1. JobOK(j)'
    BY <1>3, <1>5, IdleJob DEF JobOK, NoTicket, TicketOK
  <2> QED BY <2>1, OneJobMoves
<1>6. CASE j.answer = remote'[j.req]
  <2>1. TicketOK(remote'[j.req])
    BY <1>3 DEF TicketsMove
  <2>2. JobOK(j)'
    BY <1>3, <1>6, <2>1 DEF JobOK, TicketOK
  <2> QED BY <2>2, OneJobMoves
<1> QED BY <1>4, <1>5, <1>6

LEMMA ReturnedJob ==
    ASSUME Base, NEW w \in Worker, job[w].step # "idle", NEW step \in Steps, NEW done \in BOOLEAN
    PROVE  LET j == Returned(w, step, done) IN
           j \in JobShape /\ j.step = step /\ j.req = job[w].req /\ j.answer = NoTicket
<1>1. job[w].req \in Req /\ job[w].attempts \in Nat
  BY DEF Base, Shape, AnswersOK, JobOK, JobShape
<1>2. Idle \in JobShape /\ Idle.answer = NoTicket
  BY IdleJob DEF Idle
<1> QED BY <1>1, <1>2 DEF Returned, JobShape

LEMMA JobReturns ==
    ASSUME Base, RowsMove, TicketsMove, NEW w \in Worker, job[w].step # "idle",
           NEW step \in Steps, step # "accept", NEW done \in BOOLEAN, Return(w, step, done)
    PROVE  JobsMove
<1> DEFINE j == Returned(w, step, done)
<1>1. j \in JobShape /\ j.step = step /\ j.req = job[w].req /\ j.answer = NoTicket
  BY ReturnedJob
<1>2. job' = [job EXCEPT ![w] = j]
  BY DEF Return
<1> HIDE DEF j
<1> QED BY <1>1, <1>2, JobGoesOn

LEMMA WorkerJobs ==
    ASSUME Base, RowsMove, TicketsMove, NEW w \in Worker, WorkerStep(w)
    PROVE  JobsMove
<1> DEFINE r == job[w].req
<1>1. job[w] \in JobShape /\ JobOK(job[w])
  BY DEF Base, Shape, AnswersOK
<1>2. ASSUME NEW q \in Req, Claim(w, q) PROVE JobsMove
  <2>1. row[q] \in RowShape /\ row[q].state # "absent" /\ row[q].attempts \in Nat
    BY <1>2 DEF Base, Shape, AbsentOK, Claim, RowShape
  <2>2. PICK j : j = [Idle EXCEPT !.step = "load", !.req = q, !.attempts = row[q].attempts]
    OBVIOUS
  <2>3. j \in JobShape /\ j.req = q /\ j.step = "load" /\ j.answer = NoTicket
    BY <2>1, <2>2, Members, IdleJob DEF Idle, JobShape
  <2>4. job' = [job EXCEPT ![w] = j]
    BY <1>2, <2>2 DEF Claim
  <2>5. row'[q].state # "absent"
    BY <2>1 DEF RowsMove, Moves, Stays, Kept, Ends, Begins, Grants, Finished
  <2>6. JobOK(j)'
    BY <2>3, <2>5, IdleJob DEF JobOK, NoTicket, TicketOK
  <2> QED BY <2>3, <2>4, <2>6, OneJobMoves
<1>3. CASE Load(w) \/ ExpireFirst(w)
  <2>1. r \in Req /\ row[r].ticket \in BOOLEAN /\ job[w].step # "idle"
    BY <1>1, <1>3 DEF JobOK, Base, Shape, RowShape, Load, ExpireFirst
  <2>2. ASSUME NEW term \in BOOLEAN, NEW step \in {"call", "expire"},
               job' = [job EXCEPT ![w] = [job[w] EXCEPT !.ticket = row[r].ticket, !.term = term,
                                                        !.step = step]]
        PROVE  JobsMove
    <3>1. PICK j : j = [job[w] EXCEPT !.ticket = row[r].ticket, !.term = term, !.step = step]
      OBVIOUS
    <3>2. j \in JobShape /\ j.req = job[w].req /\ j.step # "accept" /\ j.answer = job[w].answer
      BY <1>1, <2>1, <3>1, Members DEF JobShape
    <3> QED BY <2>1, <2>2, <3>1, <3>2, JobGoesOn
  <2>3. CASE Load(w)
    <3> DEFINE term == row[r].state \in Finished
               step == IF row[r].ticket THEN "call" ELSE "expire"
    <3>1. job' = [job EXCEPT ![w] = [job[w] EXCEPT !.ticket = row[r].ticket, !.term = term,
                                                   !.step = step]]
      BY <2>3, Zenon DEF Load
    <3>2. term \in BOOLEAN /\ step \in {"call", "expire"}
      OBVIOUS
    <3> HIDE DEF term, step
    <3> QED BY <2>2, <3>1, <3>2
  <2>4. CASE ExpireFirst(w)
    <3> DEFINE term == Expired(r).state \in Finished
    <3>1. job' = [job EXCEPT ![w] = [job[w] EXCEPT !.ticket = row[r].ticket, !.step = "call",
                                                   !.term = term]]
      BY <2>4, Zenon DEF ExpireFirst
    <3>2. term \in BOOLEAN
      OBVIOUS
    <3> HIDE DEF term
    <3>3. job' = [job EXCEPT ![w] = [job[w] EXCEPT !.ticket = row[r].ticket, !.term = term,
                                                   !.step = "call"]]
      BY <1>1, <3>1 DEF JobShape
    <3> QED BY <2>2, <3>2, <3>3
  <2> QED BY <1>3, <2>3, <2>4
<1>4. CASE Bind(w)
  <2>1. CASE Return(w, "finish", TRUE) /\ job[w].step # "idle"
    BY <2>1, Members, JobReturns
  <2>2. ASSUME NEW step \in {"accept", "settle"}, Goto(w, step), job[w].step # "idle",
               step = "accept" => job[w].answer.rev > 0,
               row' = [row EXCEPT ![r] = [row[r] EXCEPT !.ticket = TRUE]]
        PROVE  JobsMove
    <3>1. r \in Req /\ row[r] \in RowShape
      BY <1>1, <2>2 DEF JobOK, Base, Shape
    <3>2. row'[r].ticket
      BY <2>2, <3>1 DEF Base, Shape, RowShape
    <3>3. PICK j : j = [job[w] EXCEPT !.step = step]
      OBVIOUS
    <3>4. j \in JobShape /\ j.req = r /\ j.step = step /\ j.answer = job[w].answer
      BY <1>1, <2>2, <3>3, Members DEF JobShape
    <3>5. job' = [job EXCEPT ![w] = j]
      BY <2>2, <3>3 DEF Goto
    <3>6. step = "accept" => j.answer.rev # 0
      BY <2>2, <3>4
    <3> QED BY <2>2, <3>2, <3>4, <3>5, <3>6, JobGoesOn
  <2> QED BY <1>4, <2>1, <2>2 DEF Bind
<1>5. CASE Accept(w)
  <2>1. CASE Return(w, "fail", FALSE) /\ job[w].step # "idle"
    BY <2>1, Members, JobReturns
  <2>2. CASE Goto(w, "settle") /\ job[w].step # "idle"
    <3>1. PICK j : j = [job[w] EXCEPT !.step = "settle"]
      OBVIOUS
    <3>2. j \in JobShape /\ j.req = r /\ j.step = "settle" /\ j.answer = job[w].answer
      BY <1>1, <3>1, Members DEF JobShape
    <3>3. job' = [job EXCEPT ![w] = j]
      BY <2>2, <3>1 DEF Goto
    <3> QED BY <2>2, <3>2, <3>3, JobGoesOn
  <2> QED BY <1>5, <2>1, <2>2 DEF Accept
<1>6. CASE Settle(w)
  <2>1. ASSUME NEW done \in BOOLEAN, Return(w, "finish", done), job[w].step # "idle" PROVE JobsMove
    BY <2>1, Members, JobReturns
  <2>2. CASE /\ job[w].step # "idle"
             /\ job' = [job EXCEPT ![w] = [Returned(w, "close", FALSE) EXCEPT !.ticket = TRUE]]
    <3>1. PICK y : y = Returned(w, "close", FALSE)
      OBVIOUS
    <3>2. y \in JobShape /\ y.step = "close" /\ y.req = job[w].req /\ y.answer = NoTicket
      BY <2>2, <3>1, Members, ReturnedJob
    <3>3. PICK j : j = [y EXCEPT !.ticket = TRUE]
      OBVIOUS
    <3>4. j \in JobShape /\ j.step = "close" /\ j.req = job[w].req /\ j.answer = NoTicket
      BY <3>2, <3>3 DEF JobShape
    <3> QED BY <2>2, <3>1, <3>3, <3>4, JobGoesOn
  <2>3. job[w].term \in BOOLEAN /\ (job[w].step # "idle" => row[r] \in RowShape /\ Expired(r) \in RowShape)
    BY <1>1, ExpiredShape DEF JobOK, Base, Shape, JobShape
  <2> QED BY <1>6, <2>1, <2>2, <2>3 DEF Settle, RowShape
<1>7. CASE Finish(w)
  <2>1. job' = [job EXCEPT ![w] = Idle]
    BY <1>7 DEF Finish
  <2>2. JobOK(Idle)'
    BY IdleJob DEF Idle, JobOK, NoTicket, TicketOK
  <2> QED BY <2>1, <2>2, IdleJob, OneJobMoves
<1>8. ASSUME NEW served \in BOOLEAN, Call(w, served) PROVE JobsMove
  <2> DEFINE x == IF served THEN Served(remote[r], OperationOf(job[w])) ELSE remote[r]
  <2>1. /\ r \in Req /\ job[w].step # "idle" /\ remote'[r] = x
    BY <1>1, <1>8 DEF Call, JobOK, Base, Shape
  <2>2. ASSUME NEW step \in Steps, step # "accept", NEW done \in BOOLEAN, Return(w, step, done)
        PROVE  JobsMove
    BY <2>1, <2>2, JobReturns
  <2>3. CASE job' = [job EXCEPT ![w] = [job[w] EXCEPT !.step = "rebind"]]
    <3>1. PICK j : j = [job[w] EXCEPT !.step = "rebind"]
      OBVIOUS
    <3>2. j \in JobShape /\ j.req = r /\ j.step = "rebind" /\ j.answer = job[w].answer
      BY <1>1, <3>1, Members DEF JobShape
    <3> QED BY <2>1, <2>3, <3>1, <3>2, JobGoesOn
  <2>4. CASE job' = [job EXCEPT ![w] = [job[w] EXCEPT !.step = "bind", !.answer = x]]
    <3>1. PICK j : j = [job[w] EXCEPT !.step = "bind", !.answer = x]
      OBVIOUS
    <3>2. x \in TicketShape
      BY <2>1 DEF TicketsMove
    <3> HIDE DEF x
    <3>3. j \in JobShape /\ j.req = r /\ j.step = "bind" /\ j.answer = x
      BY <1>1, <3>1, <3>2, Members DEF JobShape
    <3> QED BY <2>1, <2>4, <3>1, <3>3, JobGoesOn
  <2>5. \/ job' = [job EXCEPT ![w] = [job[w] EXCEPT !.step = "rebind"]]
        \/ job' = [job EXCEPT ![w] = [job[w] EXCEPT !.step = "bind", !.answer = x]]
        \/ \E step \in {"finish", "fail"}, done \in BOOLEAN :
              job' = [job EXCEPT ![w] = Returned(w, step, done)]
    BY <1>8 DEF Call
  <2> HIDE DEF r, x
  <2>6. "finish" \in Steps /\ "fail" \in Steps
    BY Members
  <2> QED BY <2>2, <2>3, <2>4, <2>5, <2>6 DEF Return
<1> QED BY <1>2, <1>3, <1>4, <1>5, <1>6, <1>7, <1>8 DEF WorkerStep

LEMMA NextJobs ==
    ASSUME Base, [Next]_vars
    PROVE  JobsMove
<1>1. RowsMove /\ TicketsMove
  BY NextMoves, NextTickets
<1>2. ASSUME NEW w \in Worker, WorkerStep(w) PROVE JobsMove
  BY <1>1, <1>2, WorkerJobs
<1>3. CASE Trouble
  <2>1. ASSUME NEW w \in Worker, Return(w, "fail", FALSE), job[w].step # "idle" PROVE JobsMove
    BY <1>1, <2>1, Members, JobReturns
  <2>2. ASSUME NEW w \in Worker, Crash(w) PROVE JobsMove
    <3>1. JobOK(Idle)'
      BY IdleJob DEF Idle, JobOK, NoTicket, TicketOK
    <3> QED BY <1>1, <2>2, <3>1, IdleJob, OneJobMoves DEF Crash
  <2> QED BY <1>3, <2>1, <2>2 DEF Trouble, Fail, CallFails
<1>4. CASE Operators \/ Administration
  BY <1>1, <1>4, NoJobMoves
     DEF Operators, Administration, Create, CreateView, Cancel, RetrySync, ReadOpenView,
         ReplaceView, SavePolicy, EditScope, SetAvailable, RemoveManagement, Adopt
<1>5. CASE Environment
  BY <1>1, <1>5, NoJobMoves DEF Environment, RequestDue, PeriodOver, LeaseExpires, Decide, Arrive
<1>6. CASE UNCHANGED vars
  BY <1>1, <1>6, NoJobMoves DEF vars
<1> QED BY <1>2, <1>3, <1>4, <1>5, <1>6 DEF Next

LEMMA BaseInit == Init => Base
<1> SUFFICES ASSUME Init PROVE Base
  OBVIOUS
<1>1. Shape
  <2>1. \A k \in Kind : policy[k] = 1 /\ scope[k] = 1
    BY DEF Init
  <2>2. NoEditor.copy \in RowShape
    BY AbsentShape DEF NoEditor
  <2> QED BY <2>1, <2>2, AbsentShape, IdleJob DEF Init, Shape
<1>2. TicketsOK /\ AnswersOK
  BY IdleJob DEF Init, TicketsOK, AnswersOK, JobOK, Idle, TicketOK, NoTicket
<1>3. EditorOK /\ AbsentOK
  BY DEF Init, EditorOK, Unlocked, AbsentOK, Absent
<1> QED BY <1>1, <1>2, <1>3 DEF Base

LEMMA BaseStep == Base /\ [Next]_vars => Base'
<1> SUFFICES ASSUME Base, [Next]_vars PROVE Base'
  OBVIOUS
<1>1. RowsMove /\ TicketsMove /\ Around /\ EditorMoves /\ JobsMove
  BY NextMoves, NextTickets, NextAround, NextEditor, NextJobs
<1>2. editor'.copy \in RowShape
  <2>1. NoEditor.copy \in RowShape
    BY AbsentShape DEF NoEditor
  <2>2. \A v \in View : row[v] \in RowShape
    BY RequestAssumption DEF Base, Shape
  <2> QED BY <1>1, <2>1, <2>2 DEF EditorMoves, Base, Shape
<1>3. Shape' /\ TicketsOK' /\ AnswersOK'
  BY <1>1, <1>2 DEF Shape, TicketsOK, RowsMove, TicketsMove, Around, JobsMove
<1>4. EditorOK'
  <2>1. CASE editor' = NoEditor
    BY <2>1 DEF EditorOK, Unlocked
  <2>2. CASE editor' = editor /\ editor # NoEditor
    <3> DEFINE new == editor.new
               old == editor.old
    <3>1. /\ new \in View /\ row[new].state = "absent" /\ old \in View /\ row[old].state # "absent"
          /\ ~Unlocked
      BY <2>2 DEF Base, EditorOK, Unlocked
    <3>2. Moves(new) /\ Moves(old)
      BY <1>1, <3>1, RequestAssumption DEF RowsMove
    <3>3. row'[new].state = "absent"
      BY <2>2, <3>1, <3>2 DEF Moves, Stays, Kept, Ends, Begins, Grants
    <3>4. row'[old].state # "absent"
      BY <3>1, <3>2 DEF Moves, Stays, Kept, Ends, Begins, Grants, Finished
    <3> QED BY <2>2, <3>1, <3>3, <3>4 DEF EditorOK
  <2>3. CASE /\ UNCHANGED row
             /\ editor'.new \in View /\ row[editor'.new].state = "absent"
             /\ editor'.old \in View /\ row[editor'.old].state \in Open
    BY <2>3 DEF EditorOK, Open
  <2> QED BY <1>1, <2>1, <2>2, <2>3 DEF EditorMoves
<1>5. AbsentOK'
  <2> SUFFICES ASSUME NEW r \in Req, row'[r].state = "absent" PROVE row'[r].sync = "none"
    BY DEF AbsentOK
  <2>1. Moves(r)
    BY <1>1 DEF RowsMove
  <2> QED BY <2>1 DEF Moves, Stays, Kept, Ends, Begins, Grants, Finished, Base, AbsentOK
<1> QED BY <1>3, <1>4, <1>5 DEF Base

\* The form of the rows, and what everything else knows of them, always holds.
THEOREM BaseHolds == Spec => []Base
<1> QED BY BaseInit, BaseStep, PTL DEF Spec

-----------------------------------------------------------------------------
\* PAMRequest!PolicyCurrent: a request waits or gives access only under the present
\* revision of its policy.  A change invalidates all others, a new request reads
\* the revision under the policy's lock, and an approval compares it.
THEOREM PolicyCurrentHolds == Spec => []PolicyCurrent
<1>1. Init => PolicyCurrent
  BY DEF Init, PolicyCurrent, Absent, Open
<1>2. PolicyCurrent /\ Base /\ [Next]_vars => PolicyCurrent'
  <2> SUFFICES ASSUME PolicyCurrent, Base, [Next]_vars, NEW r \in Req, row'[r].state \in Open
               PROVE  row'[r].policy = policy'[KindOf(r)]
    BY DEF PolicyCurrent, KindOf
  <2>1. Moves(r)
    BY NextMoves DEF RowsMove
  <2> QED BY <2>1 DEF Moves, Stays, Kept, Ends, Begins, Grants, PolicyCurrent, Open, Finished
<1> QED BY <1>1, <1>2, BaseHolds, PTL DEF Spec

\* While an operator's open request is replaced, it is the only open one.
ViewsOK ==
    /\ OneOpenView
    /\ ~Unlocked => \A v \in View : row[v].state \in Open => v = editor.old

LEMMA ViewsStep == ViewsOK /\ Base /\ [Next]_vars => ViewsOK'
<1> SUFFICES ASSUME ViewsOK, Base, [Next]_vars PROVE ViewsOK'
  OBVIOUS
<1>1. EditorMoves /\ \A v \in View : Moves(v)
  BY NextMoves, NextEditor, RequestAssumption DEF RowsMove
<1>2. ASSUME NEW v \in View, row'[v].state \in Open
      PROVE  row[v].state \in Open \/ Begins(v)
  <2>1. Moves(v)
    BY <1>1
  <2> QED BY <1>2, <2>1 DEF Moves, Stays, Kept, Ends, Grants, Open, Finished
<1>3. ASSUME NEW v \in View, NEW q \in View, Begins(v), row[q].state \in Open PROVE row'[q].state \notin Open
  <2>1. ~Unlocked /\ row'[editor.old].state \in Finished
    BY <1>3 DEF Begins
  <2>2. q = editor.old
    BY <1>3, <2>1 DEF ViewsOK
  <2> QED BY <2>1, <2>2 DEF Open, Finished
<1>4. ASSUME NEW v \in View, NEW q \in View, Begins(v), Begins(q) PROVE v = q
  BY <1>4, RequestAssumption DEF Begins
<1>5. OneOpenView'
  <2> SUFFICES ASSUME NEW v \in View, NEW q \in View,
                      row'[v].state \in Open, row'[q].state \in Open
               PROVE  v = q
    BY DEF OneOpenView
  <2>1. (row[v].state \in Open \/ Begins(v)) /\ (row[q].state \in Open \/ Begins(q))
    BY <1>2
  <2> QED BY <1>3, <1>4, <2>1 DEF ViewsOK, OneOpenView
<1>6. ~Unlocked' => \A v \in View : row'[v].state \in Open => v = editor'.old
  <2> SUFFICES ASSUME ~Unlocked', NEW v \in View, row'[v].state \in Open PROVE v = editor'.old
    OBVIOUS
  <2>1. CASE editor' = editor
    <3>1. ~Unlocked
      BY <2>1 DEF Unlocked
    <3>2. ~Begins(v)
      BY <2>1, <3>1 DEF Begins, Unlocked
    <3> QED BY <1>2, <2>1, <3>1, <3>2 DEF ViewsOK
  <2>2. CASE UNCHANGED row /\ editor'.old \in View /\ row[editor'.old].state \in Open
    BY <2>2 DEF ViewsOK, OneOpenView
  <2> QED BY <1>1, <2>1, <2>2 DEF EditorMoves, Unlocked
<1> QED BY <1>5, <1>6 DEF ViewsOK

\* PAMRequest!OneOpenView: an operator has at most one open request to view the
\* password, also while the old one is decided or cancelled during its replacement.
THEOREM OneOpenViewHolds == Spec => []OneOpenView
<1>1. Init => ViewsOK
  BY RequestAssumption DEF Init, ViewsOK, OneOpenView, Unlocked, Absent, Open
<1>2. ViewsOK /\ Base /\ [Next]_vars => ViewsOK'
  BY ViewsStep
<1>3. ViewsOK => OneOpenView
  BY DEF ViewsOK
<1> QED BY <1>1, <1>2, <1>3, BaseHolds, PTL DEF Spec

\* PAMRequest!ApprovedByProvider: an active access has a ticket that ITSM approved in
\* time, and the bastion accepted that event; it may have been withdrawn since.
THEOREM ApprovedHolds == Spec => []ApprovedByProvider
<1>1. Init => ApprovedByProvider
  BY DEF Init, ApprovedByProvider, Access, Absent
<1>2. ApprovedByProvider /\ Base /\ [Next]_vars => ApprovedByProvider'
  <2> SUFFICES ASSUME ApprovedByProvider, Base, [Next]_vars, NEW r \in Req, Access(r)'
               PROVE  /\ row'[r].ticket /\ row'[r].provider = 1
                      /\ remote'[r].verdict \in {"approved", "withdrawn"} /\ ~remote'[r].late
    BY DEF ApprovedByProvider
  <2>1. Moves(r) /\ Lasts(remote[r], remote'[r]) /\ (over[r] => over'[r])
    BY NextMoves, NextTickets, NextAround DEF RowsMove, TicketsMove, Around
  <2>2. CASE Stays(r)
    <3>1. Access(r) /\ row[r].state = "approved"
      BY <2>1, <2>2 DEF Access, Stays, Kept
    <3>2. /\ row[r].ticket /\ row[r].provider = 1
          /\ remote[r].verdict \in {"approved", "withdrawn"} /\ ~remote[r].late
      BY <3>1 DEF ApprovedByProvider
    <3> QED BY <2>1, <2>2, <3>1, <3>2 DEF Stays, Kept, Lasts
  <2>3. CASE Grants(r)
    BY <2>1, <2>3 DEF Grants, Lasts
  <2>4. ~Ends(r) /\ ~Begins(r)
    BY DEF Ends, Begins, Access, Finished
  <2> QED BY <2>1, <2>2, <2>3, <2>4 DEF Moves
<1> QED BY <1>1, <1>2, BaseHolds, PTL DEF Spec

\* Only what was approved has been granted.
GrantedOK == \A r \in Req : row[r].granted => row[r].state \notin {"absent", "pending"}

LEMMA GrantedStep == GrantedOK /\ Base /\ [Next]_vars => GrantedOK'
<1> SUFFICES ASSUME GrantedOK, Base, [Next]_vars, NEW r \in Req, row'[r].granted
             PROVE  row'[r].state \notin {"absent", "pending"}
  BY DEF GrantedOK
<1>1. Moves(r)
  BY NextMoves DEF RowsMove
<1> QED BY <1>1 DEF Moves, Stays, Kept, Ends, Begins, Grants, GrantedOK, Finished

\* PAMRequest!NoReturn: a finished request never opens again, and an access that
\* ended never comes back, by whatever late approval, copy or worker.
THEOREM NoReturnHolds == Spec => NoReturn
<1>1. Init => GrantedOK
  BY DEF Init, GrantedOK, Absent
<1>2. GrantedOK /\ Base /\ [Next]_vars => GrantedOK'
  BY GrantedStep
<1>3. GrantedOK /\ Base /\ [Next]_vars =>
        [\A r \in Req :
            /\ row[r].state \in Finished => row'[r].state \in Finished
            /\ row[r].granted /\ ~Access(r) => ~Access(r)']_vars
  <2> SUFFICES ASSUME GrantedOK, Base, [Next]_vars, NEW r \in Req
               PROVE  /\ row[r].state \in Finished => row'[r].state \in Finished
                      /\ row[r].granted /\ ~Access(r) => ~Access(r)'
    OBVIOUS
  <2>1. Moves(r) /\ (over[r] => over'[r])
    BY NextMoves, NextAround DEF RowsMove, Around
  <2>2. row[r].state \in Finished => row'[r].state \in Finished
    BY <2>1 DEF Moves, Stays, Kept, Ends, Begins, Grants, Finished
  <2>3. ASSUME row[r].granted, ~Access(r) PROVE ~Access(r)'
    BY <2>1, <2>3 DEF Moves, Stays, Kept, Ends, Begins, Grants, GrantedOK, Access, Finished
  <2> QED BY <2>2, <2>3
<1> QED BY <1>1, <1>2, <1>3, BaseHolds, PTL DEF Spec, NoReturn

-----------------------------------------------------------------------------
(* Revocations.                                                            *)

\* Only what is over has been revoked.
UnrevokedOK == \A r \in Req : row[r].state \in {"absent"} \cup Open => row[r].revoked = "no"

LEMMA UnrevokedStep == UnrevokedOK /\ Base /\ [Next]_vars => UnrevokedOK'
<1> SUFFICES ASSUME UnrevokedOK, Base, [Next]_vars, NEW r \in Req,
                    row'[r].state \in {"absent"} \cup Open
             PROVE  row'[r].revoked = "no"
  BY DEF UnrevokedOK
<1>1. Moves(r)
  BY NextMoves DEF RowsMove
<1> QED BY <1>1 DEF Moves, Stays, Kept, Ends, Begins, Grants, UnrevokedOK, Open, Finished

\* Who revoked an access, and why, is recorded once: only CreatePasswordViewRequest,
\* which saves its copy over the request it replaces, overwrites it.
THEOREM OnlyReplacedOverwritten ==
    Spec => [][\A r \in Req : row[r].revoked # "no" =>
                  row'[r].revoked = row[r].revoked \/ (ReplaceView /\ r = editor.old)]_vars
<1>1. Init => UnrevokedOK
  BY DEF Init, UnrevokedOK, Absent
<1>2. UnrevokedOK /\ Base /\ [Next]_vars =>
        [\A r \in Req : row[r].revoked # "no" =>
            row'[r].revoked = row[r].revoked \/ (ReplaceView /\ r = editor.old)]_vars
  <2> SUFFICES ASSUME UnrevokedOK, Base, [Next]_vars, NEW r \in Req, row[r].revoked # "no",
                      ~(ReplaceView /\ r = editor.old)
               PROVE  row'[r].revoked = row[r].revoked
    OBVIOUS
  <2>1. Moves(r) /\ row[r].state \notin {"absent"} \cup Open
    BY NextMoves DEF RowsMove, UnrevokedOK
  <2> QED BY <2>1 DEF Moves, Stays, Kept, Ends, Begins, Grants, Open
<1> QED BY <1>1, <1>2, UnrevokedStep, BaseHolds, PTL DEF Spec

\* PAMRequest!RevocationKept, where no requests to view a password are made: those
\* to connect are never saved from a copy.
THEOREM RevocationKeptHolds ==
    ASSUME View = {}
    PROVE  Spec => RevocationKept
<1>1. Base /\ [\A r \in Req : row[r].revoked # "no" =>
                  row'[r].revoked = row[r].revoked \/ (ReplaceView /\ r = editor.old)]_vars
        => [\A r \in Req : row[r].revoked # "no" => row'[r].revoked = row[r].revoked]_vars
  BY DEF Base, EditorOK, ReplaceView
<1> QED BY <1>1, OnlyReplacedOverwritten, BaseHolds, PTL DEF RevocationKept

-----------------------------------------------------------------------------
(* The end of synchronization.                                             *)

Final == {"rejected", "cancelled", "withdrawn"}
Over(r) == row[r].state \in Finished
Closed(r) == remote[r].verdict \notin {"none", "open"}

\* What a ticket was, and what it is later: its events are numbered, a decision is
\* not taken back, and the final ones stay.
Advances(x, y) ==
    /\ x.rev <= y.rev
    /\ x.verdict \notin {"none", "open"} => y.verdict \notin {"none", "open"}
    /\ x.verdict \in Final => y.verdict = x.verdict /\ y.rev = x.rev
    /\ y.verdict \in Final => y.rev # x.rev \/ y.verdict = x.verdict

\* Nothing is done before it is closed, and a row that has taken note of the last
\* event of its ticket is finished when that event is final.
RowDone(r) ==
    /\ row[r].sync = "done" => Over(r) /\ Closed(r)
    /\ row[r].granted => Closed(r)
    /\ row[r].provider <= remote[r].rev
    /\ row[r].provider = remote[r].rev /\ remote[r].verdict \in Final => Over(r)

EditorDone ==
    ~Unlocked => /\ editor.copy.provider <= remote[editor.old].rev
                 /\ editor.copy.granted => Closed(editor.old)

\* What a worker knows of its request, step by step, still holds of it.
KnownOver(j) ==
    /\ j.term => Over(j.req)
    /\ j.step \in {"bind", "accept", "settle"} /\ j.term => Closed(j.req)
    /\ j.step = "settle" /\ j.answer.verdict \in Final => Over(j.req)
    /\ j.step \in {"close", "rebind"} => Over(j.req)
    /\ j.step = "rebind" => Closed(j.req)
    /\ j.step = "finish" /\ j.done => Over(j.req) /\ Closed(j.req)

JobDone(j) ==
    j.step # "idle" => Advances(j.answer, remote[j.req]) /\ KnownOver(j)

JobsDone == \A w \in Worker : JobDone(job[w])
RowsDone == \A r \in Req : RowDone(r)

DoneInv == GrantedOK /\ EditorDone /\ RowsDone /\ JobsDone

LEMMA AdvancesOn ==
    ASSUME NEW x \in TicketShape, NEW y \in TicketShape, NEW z \in TicketShape,
           Advances(x, y), Advances(y, z)
    PROVE  Advances(x, z)
<1>1. x.rev \in Nat /\ y.rev \in Nat /\ z.rev \in Nat
  BY DEF TicketShape
<1> QED BY <1>1 DEF Advances

LEMMA AdvancesNot ==
    ASSUME NEW x \in TicketShape, TicketOK(x)
    PROVE  Advances(x, x) /\ Advances(NoTicket, x)
  BY DEF Advances, NoTicket, TicketShape, TicketOK, Final

LEMMA ServedAdvances ==
    ASSUME NEW x \in TicketShape, TicketOK(x), NEW op
    PROVE  Advances(x, Served(x, op))
<1>1. CASE op = "create" /\ x.verdict = "none"
  <2>1. Served(x, op) = [x EXCEPT !.verdict = "open", !.id = TRUE]
    BY <1>1 DEF Served
  <2>2. Served(x, op).verdict = "open" /\ Served(x, op).rev = x.rev /\ x.rev \in Nat
    BY <2>1 DEF TicketShape
  <2> QED BY <1>1, <2>2 DEF Advances, Final
<1>2. CASE op = "cancel" /\ x.verdict \in {"none", "open"}
  <2>1. Served(x, op) = [x EXCEPT !.verdict = "cancelled", !.rev = 1]
    BY <1>2 DEF Served
  <2>2. Served(x, op).verdict = "cancelled" /\ Served(x, op).rev = 1 /\ x.rev = 0
    BY <1>2, <2>1 DEF TicketShape, TicketOK
  <2> QED BY <1>2, <2>2 DEF Advances, Final
<1>3. CASE /\ ~(op = "create" /\ x.verdict = "none")
           /\ ~(op = "cancel" /\ x.verdict \in {"none", "open"})
  <2>1. Served(x, op) = x
    BY <1>3 DEF Served
  <2> QED BY <2>1, AdvancesNot
<1> QED BY <1>1, <1>2, <1>3

\* A cancellation that is served leaves nothing to decide.
LEMMA CancelCloses ==
    ASSUME NEW x \in TicketShape
    PROVE  Served(x, "cancel").verdict \notin {"none", "open"}
<1>1. CASE x.verdict \in {"none", "open"}
  <2>1. Served(x, "cancel") = [x EXCEPT !.verdict = "cancelled", !.rev = 1]
    BY <1>1 DEF Served
  <2> QED BY <2>1 DEF TicketShape
<1>2. CASE x.verdict \notin {"none", "open"}
  <2>1. Served(x, "cancel") = x
    BY <1>2 DEF Served
  <2> QED BY <1>2, <2>1
<1> QED BY <1>1, <1>2

TicketsAdvance == \A r \in Req : Advances(remote[r], remote'[r])

LEMMA NextAdvances ==
    ASSUME Base, [Next]_vars
    PROVE  TicketsAdvance
<1>0. ASSUME NEW r \in Req PROVE remote[r] \in TicketShape /\ TicketOK(remote[r])
  BY DEF Base, Shape, TicketsOK
<1>1. CASE UNCHANGED remote
  BY <1>0, <1>1, AdvancesNot DEF TicketsAdvance
<1>2. ASSUME NEW q \in Req, NEW y, Advances(remote[q], y), remote' = [remote EXCEPT ![q] = y]
      PROVE  TicketsAdvance
  <2> SUFFICES ASSUME NEW r \in Req PROVE Advances(remote[r], remote'[r])
    BY DEF TicketsAdvance
  <2>1. remote'[r] = IF r = q THEN y ELSE remote[r]
    BY <1>2 DEF Base, Shape
  <2> QED BY <1>0, <1>2, <2>1, AdvancesNot
<1>3. ASSUME NEW w \in Worker, NEW served \in BOOLEAN, Call(w, served) PROVE TicketsAdvance
  <2> DEFINE r == job[w].req
             x == IF served THEN Served(remote[r], OperationOf(job[w])) ELSE remote[r]
  <2>1. r \in Req /\ remote' = [remote EXCEPT ![r] = x]
    BY <1>3 DEF Call, Base, AnswersOK, JobOK
  <2>2. Advances(remote[r], x)
    BY <1>0, <2>1, ServedAdvances, AdvancesNot
  <2> HIDE DEF r, x
  <2> QED BY <1>2, <2>1, <2>2
<1>4. ASSUME NEW r \in Req, NEW verdict \in Decision, Decide(r, verdict) PROVE TicketsAdvance
  <2> DEFINE y == [id |-> remote[r].id, verdict |-> verdict, rev |-> remote[r].rev + 1,
                   late |-> IF verdict = "withdrawn" THEN remote[r].late ELSE due[r]]
  <2>1. remote' = [remote EXCEPT ![r] = y]
    BY <1>4 DEF Decide
  <2>2. /\ y.verdict = verdict /\ y.rev = remote[r].rev + 1 /\ remote[r].rev \in Nat
        /\ remote[r].verdict \in {"open", "approved"}
        /\ verdict \in {"approved", "unqualified", "rejected", "withdrawn"}
    BY <1>0, <1>4, DecisionsAre DEF TicketShape, Decide
  <2> HIDE DEF y
  <2>3. Advances(remote[r], y)
    BY <2>2 DEF Advances, Final
  <2> QED BY <1>2, <2>1, <2>3
<1>5. ASSUME NEW r \in Req, NEW op, Arrive(r, op) PROVE TicketsAdvance
  <2>1. remote' = [remote EXCEPT ![r] = Served(remote[r], op)]
    BY <1>5 DEF Arrive
  <2> QED BY <1>0, <1>2, <2>1, ServedAdvances
<1>6. ASSUME NEW w \in Worker, WorkerStep(w) PROVE TicketsAdvance
  BY <1>1, <1>3, <1>6 DEF WorkerStep, Claim, Load, ExpireFirst, Bind, Accept, Settle, Finish, itsm
<1>7. CASE Trouble
  BY <1>1, <1>7 DEF Trouble, Fail, Crash, CallFails, itsm
<1>8. CASE Operators \/ Administration
  BY <1>1, <1>8 DEF Operators, Administration, Create, CreateView, Cancel, RetrySync, ReadOpenView,
                    ReplaceView, SavePolicy, EditScope, SetAvailable, RemoveManagement, Adopt, itsm
<1>9. CASE Environment
  BY <1>1, <1>4, <1>5, <1>9 DEF Environment, RequestDue, PeriodOver, LeaseExpires, itsm
<1>10. CASE UNCHANGED vars
  BY <1>1, <1>10 DEF vars, itsm
<1> QED BY <1>6, <1>7, <1>8, <1>9, <1>10 DEF Next

\* What a step makes of a row: its synchronization ends when all is over and closed,
\* an access is granted by a decision, and the event noted is the ticket's last, or
\* an earlier one, or none.
Follows(r, y) ==
    /\ y.sync = "done" => row[r].sync = "done" \/ (Over(r) /\ Closed(r))
    /\ y.granted => row[r].granted \/ Closed(r)
    /\ \/ y.provider \in {row[r].provider, 0}
       \/ /\ y.provider <= remote[r].rev /\ remote'[r] = remote[r]
          /\ y.provider = remote[r].rev /\ remote[r].verdict \in Final => y.state \in Finished

RowsFollow == \A r \in Req : Follows(r, row'[r])

\* The parts of a row that Follows is about stay as they are.
Same(x, y) ==
    /\ y.sync \in {x.sync, "none", "pending", "running", "failed"}
    /\ y.granted = x.granted /\ y.provider = x.provider

LEMMA SameFollows ==
    ASSUME NEW r \in Req, NEW y, Same(row[r], y)
    PROVE  Follows(r, y)
  BY DEF Same, Follows

LEMMA OneFollows ==
    ASSUME Shape, NEW q \in Req, NEW y, Follows(q, y), row' = [row EXCEPT ![q] = y]
    PROVE  RowsFollow
<1> SUFFICES ASSUME NEW r \in Req PROVE Follows(r, row'[r])
  BY DEF RowsFollow
<1>1. row'[r] = IF r = q THEN y ELSE row[r]
  BY DEF Shape
<1> QED BY <1>1, SameFollows DEF Same

LEMMA NoneFollows ==
    ASSUME row' = row PROVE RowsFollow
  BY SameFollows DEF RowsFollow, Same

\* What the operators of the model leave alone.
LEMMA RowOperatorsSame ==
    ASSUME NEW x \in RowShape, NEW why \in Reasons
    PROVE  /\ Scheduled(x).sync = "pending" /\ Scheduled(x).granted = x.granted
           /\ Scheduled(x).provider = x.provider
           /\ Revoked(x, why).sync = x.sync /\ Revoked(x, why).granted = x.granted
           /\ Revoked(x, why).provider = x.provider
           /\ Same(x, Invalidated(x, why))
           /\ \A state \in States : LET y == [x EXCEPT !.state = state] IN
                 /\ y \in RowShape /\ y.state = state
                 /\ y.sync = x.sync /\ y.granted = x.granted /\ y.provider = x.provider
<1> USE DEF RowShape
<1>1. /\ Scheduled(x).sync = "pending" /\ Scheduled(x).granted = x.granted
      /\ Scheduled(x).provider = x.provider
  BY DEF Scheduled
<1>2. /\ Revoked(x, why).sync = x.sync /\ Revoked(x, why).granted = x.granted
      /\ Revoked(x, why).provider = x.provider
  BY DEF Revoked
<1>3. Same(x, Invalidated(x, why))
  BY DEF Invalidated, Same
<1>4. \A state \in States : LET y == [x EXCEPT !.state = state] IN
         /\ y \in RowShape /\ y.state = state
         /\ y.sync = x.sync /\ y.granted = x.granted /\ y.provider = x.provider
  OBVIOUS
<1> QED BY <1>1, <1>2, <1>3, <1>4

\* A row in another state keeps the other parts.
LEMMA InState ==
    ASSUME NEW x \in RowShape, NEW state \in States
    PROVE  \E y \in RowShape :
               /\ y = [x EXCEPT !.state = state] /\ y.state = state
               /\ y.sync = x.sync /\ y.granted = x.granted /\ y.provider = x.provider
<1> DEFINE y == [x EXCEPT !.state = state]
<1>1. y \in RowShape
  BY DEF RowShape
<1>2. /\ y.state = state
      /\ y.sync = x.sync /\ y.granted = x.granted /\ y.provider = x.provider
  BY DEF RowShape
<1> QED BY <1>1, <1>2

\* What Scheduled and Revoked leave alone.
LEMMA ScheduledRow ==
    ASSUME NEW x \in RowShape
    PROVE  \E y \in RowShape :
               /\ y = Scheduled(x) /\ y.sync = "pending" /\ y.state = x.state
               /\ y.granted = x.granted /\ y.provider = x.provider
<1>1. "cancel" \in Reasons /\ "cancel" # "no"
  BY Members
<1>2. Scheduled(x) \in RowShape /\ Scheduled(x).state = x.state
  BY <1>1, RowOperators
<1>3. /\ Scheduled(x).sync = "pending" /\ Scheduled(x).granted = x.granted
      /\ Scheduled(x).provider = x.provider
  BY <1>1, RowOperatorsSame
<1> QED BY <1>2, <1>3

LEMMA RevokedRow ==
    ASSUME NEW x \in RowShape, NEW why \in Reasons, why # "no"
    PROVE  \E y \in RowShape :
               /\ y = Revoked(x, why) /\ y.sync = x.sync /\ y.state = x.state
               /\ y.granted = x.granted /\ y.provider = x.provider
<1>1. Revoked(x, why) \in RowShape /\ Revoked(x, why).state = x.state
  BY RowOperators
<1>2. /\ Revoked(x, why).sync = x.sync /\ Revoked(x, why).granted = x.granted
      /\ Revoked(x, why).provider = x.provider
  BY RowOperatorsSame
<1> QED BY <1>1, <1>2

LEMMA NewRowFollows ==
    ASSUME Shape, NEW r \in Req, NEW k \in Kind
    PROVE  Follows(r, NewRow(k))
<1>1. [Absent EXCEPT !.state = "pending", !.policy = policy[k], !.scope = scope[k]] \in RowShape
  BY AbsentShape, Members DEF RowShape, Shape
<1>2. NewRow(k).sync = "pending"
  BY <1>1, Members, RowOperatorsSame DEF NewRow
<1>3. NewRow(k).provider = 0 /\ ~NewRow(k).granted
  BY NewRowShape
<1> QED BY <1>2, <1>3 DEF Follows

LEMMA ExpiredFollows ==
    ASSUME Shape, NEW r \in Req
    PROVE  /\ Same(row[r], Expired(r)) /\ Expired(r).granted = row[r].granted
           /\ row[r].granted /\ over[r] => Expired(r).state # "approved"
<1>1. /\ row[r] \in RowShape /\ "expired" \in States
      /\ "expired" \in Reasons /\ "expired" # "no"
  BY Members DEF Shape
<1>2. CASE Expired(r) = row[r] /\ ~(row[r].state = "approved" /\ row[r].granted /\ over[r])
  BY <1>2 DEF Same
<1>3. CASE Expired(r) = Revoked([row[r] EXCEPT !.state = "expired"], "expired")
  <2>1. PICK y \in RowShape : /\ y = [row[r] EXCEPT !.state = "expired"] /\ y.state = "expired"
                              /\ y.sync = row[r].sync /\ y.granted = row[r].granted
                              /\ y.provider = row[r].provider
    BY <1>1, InState, Zenon
  <2>2. PICK z \in RowShape : /\ z = Revoked(y, "expired") /\ z.sync = y.sync /\ z.state = y.state
                              /\ z.granted = y.granted /\ z.provider = y.provider
    BY <1>1, RevokedRow
  <2>3. Expired(r) = z
    BY <1>3, <2>1, <2>2
  <2> QED BY <2>1, <2>2, <2>3 DEF Same
<1> QED BY <1>2, <1>3 DEF Expired

LEMMA OperatorsFollow ==
    ASSUME Base, DoneInv, Operators \/ Administration
    PROVE  RowsFollow
<1> USE DEF Base
<1>0. \A x \in {"cancel", "scope", "policy", "management"} : x \in Reasons
  BY Members
<1>1. ASSUME NEW r \in Req, NEW k \in Kind, row' = [row EXCEPT ![r] = NewRow(k)] PROVE RowsFollow
  BY <1>1, NewRowFollows, OneFollows
<1>2. ASSUME NEW r \in Req, Create(r) \/ CreateView(r) PROVE RowsFollow
  BY <1>1, <1>2 DEF Create, CreateView, Kind
<1>3. ASSUME NEW r \in Req, NEW z, z.sync = "pending", z.granted = row[r].granted,
             z.provider = row[r].provider, row' = [row EXCEPT ![r] = z]
      PROVE  RowsFollow
  <2>1. Follows(r, z)
    BY <1>3 DEF Follows
  <2> QED BY <1>3, <2>1, OneFollows
<1>4. ASSUME NEW r \in Req, Cancel(r) PROVE RowsFollow
  <2>1. row[r] \in RowShape /\ "cancelled" \in States /\ "cancel" \in Reasons /\ "cancel" # "no"
    BY <1>0, Members DEF Shape
  <2>2. PICK y \in RowShape : /\ y = [row[r] EXCEPT !.state = "cancelled"] /\ y.state = "cancelled"
                              /\ y.sync = row[r].sync /\ y.granted = row[r].granted
                              /\ y.provider = row[r].provider
    BY <2>1, InState
  <2>3. PICK u \in RowShape : /\ u = Scheduled(y) /\ u.sync = "pending" /\ u.state = y.state
                              /\ u.granted = y.granted /\ u.provider = y.provider
    BY ScheduledRow
  <2>4. PICK z \in RowShape : /\ z = Revoked(u, "cancel") /\ z.sync = u.sync /\ z.state = u.state
                              /\ z.granted = u.granted /\ z.provider = u.provider
    BY <2>1, RevokedRow
  <2>5. row' = [row EXCEPT ![r] = z]
    BY <1>4, <2>2, <2>3, <2>4 DEF Cancel
  <2>6. z.sync = "pending" /\ z.granted = row[r].granted /\ z.provider = row[r].provider
    BY <2>2, <2>3, <2>4
  <2> QED BY <1>3, <2>5, <2>6
<1>5. ASSUME NEW r \in Req, RetrySync(r) PROVE RowsFollow
  <2>1. row[r] \in RowShape /\ row' = [row EXCEPT ![r] = Scheduled(row[r])]
    BY <1>5 DEF RetrySync, Shape
  <2>2. /\ Scheduled(row[r]).sync = "pending" /\ Scheduled(row[r]).granted = row[r].granted
        /\ Scheduled(row[r]).provider = row[r].provider
    BY <1>0, <2>1, RowOperatorsSame
  <2> QED BY <1>3, <2>1, <2>2
<1>6. CASE ReplaceView
  <2> DEFINE new == editor.new
             old == editor.old
  <2>1. /\ new \in Req /\ old \in Req /\ new # old /\ "view" \in Kind /\ UNCHANGED remote
        /\ "invalidated" \in States
        /\ editor.copy \in RowShape /\ editor.copy.provider <= remote[old].rev
        /\ editor.copy.granted => Closed(old)
    BY <1>6, RequestAssumption, Members
       DEF ReplaceView, EditorOK, Kind, itsm, Shape, DoneInv, EditorDone
  <2>2. PICK y \in RowShape : /\ y = [editor.copy EXCEPT !.state = "invalidated"]
                              /\ y.state = "invalidated" /\ y.sync = editor.copy.sync
                              /\ y.granted = editor.copy.granted
                              /\ y.provider = editor.copy.provider
    BY <2>1, InState
  <2>3. PICK u \in RowShape : /\ u = Scheduled(y) /\ u.sync = "pending" /\ u.state = y.state
                              /\ u.granted = y.granted /\ u.provider = y.provider
    BY ScheduledRow
  <2>4. PICK z \in RowShape : /\ z = Revoked(u, "scope") /\ z.sync = u.sync /\ z.state = u.state
                              /\ z.granted = u.granted /\ z.provider = u.provider
    BY <1>0, Members, RevokedRow
  <2>5. row' = [row EXCEPT ![old] = z, ![new] = NewRow("view")]
    BY <1>6, <2>2, <2>3, <2>4 DEF ReplaceView
  <2>6. Follows(old, z)
    BY <2>1, <2>2, <2>3, <2>4 DEF Follows, Finished
  <2>7. Follows(new, NewRow("view"))
    BY <2>1, NewRowFollows
  <2>8. ASSUME NEW r \in Req PROVE Follows(r, row'[r])
    <3>1. row'[r] = IF r = new THEN NewRow("view") ELSE IF r = old THEN z ELSE row[r]
      BY <2>1, <2>5 DEF Shape
    <3> QED BY <2>6, <2>7, <3>1, SameFollows DEF Same
  <2> QED BY <2>8 DEF RowsFollow
<1>7. ASSUME NEW k, NEW why \in Reasons, InvalidateAll(k, why) PROVE RowsFollow
  <2>1. ASSUME NEW r \in Req PROVE Follows(r, row'[r])
    <3>1. row[r] \in RowShape /\ row'[r] \in {row[r], Invalidated(row[r], why)}
      BY <1>7 DEF InvalidateAll, Shape
    <3>2. Same(row[r], row'[r])
      BY <3>1, RowOperatorsSame DEF Same
    <3> QED BY <3>2, SameFollows
  <2> QED BY <2>1 DEF RowsFollow
<1>8. ASSUME NEW r \in Req, NEW on \in BOOLEAN, SavePolicy(KindOf(r), on) PROVE RowsFollow
  BY <1>0, <1>7, <1>8 DEF SavePolicy
<1>9. CASE RemoveManagement
  BY <1>0, <1>7, <1>9 DEF RemoveManagement
<1>10. ASSUME NEW r \in Req, EditScope(KindOf(r)) \/ SetAvailable(KindOf(r)) PROVE RowsFollow
  BY <1>10, NoneFollows DEF EditScope, SetAvailable
<1>11. ASSUME NEW r \in Req, NEW old \in Req, ReadOpenView(r, old) PROVE RowsFollow
  BY <1>11, NoneFollows DEF ReadOpenView
<1>12. CASE Adopt
  BY <1>12, NoneFollows DEF Adopt
<1> QED
  BY <1>2, <1>4, <1>5, <1>6, <1>8, <1>9, <1>10, <1>11, <1>12 DEF Operators, Administration

LEMMA DecidedFollows ==
    ASSUME Shape, NEW r \in Req, NEW t \in TicketShape, t.verdict \notin {"none", "open"},
           ~(row[r].state = "pending" /\ t.verdict = "unqualified"), row[r].state # "absent",
           Advances(t, remote[r]), remote' = remote
    PROVE  /\ Follows(r, Decided(r, t))
           /\ t.verdict \in Final => Decided(r, t).state \in Finished
<1>1. /\ row[r] \in RowShape /\ t.rev \in Nat /\ Closed(r)
      /\ remote[r].rev \in Nat /\ t.rev <= remote[r].rev
      /\ t.rev = remote[r].rev /\ remote[r].verdict \in Final => t.verdict \in Final
  BY DEF Shape, TicketShape, Advances, Closed
<1>2. PICK x : x = [row[r] EXCEPT !.provider = t.rev]
  OBVIOUS
<1>2a. /\ x \in RowShape /\ x.state = row[r].state /\ x.provider = t.rev
      /\ x.sync = row[r].sync /\ x.granted = row[r].granted
  BY <1>1, <1>2 DEF RowShape
<1>3. ASSUME NEW y, y.sync = x.sync, y.granted => x.granted \/ Closed(r), y.provider = x.provider,
             t.verdict \in Final => y.state \in Finished
      PROVE  Follows(r, y)
  <2>1. y.provider = t.rev /\ y.sync = row[r].sync /\ (y.granted => row[r].granted \/ Closed(r))
    BY <1>3, <1>2a
  <2>2. y.provider <= remote[r].rev
    BY <1>1, <2>1
  <2>3. y.provider = remote[r].rev /\ remote[r].verdict \in Final => y.state \in Finished
    BY <1>1, <1>3, <2>1
  <2> QED BY <2>1, <2>2, <2>3, Zenon DEF Follows
<1>4. CASE x.state \notin Open
  <2>1. Decided(r, t) = x /\ x.state \in Finished
    BY <1>2, <1>2a, <1>4, Members DEF Decided, RowShape, Open
  <2> QED BY <1>3, <2>1
<1>5. CASE x.state = "approved" /\ t.verdict \in {"approved", "unqualified"}
  <2>1. Decided(r, t) = x /\ t.verdict \notin Final
    BY <1>2, <1>2a, <1>5 DEF Decided, Open, Final
  <2> QED BY <1>3, <2>1
<1>6. CASE x.state = "pending" /\ t.verdict = "approved"
  <2>1. Decided(r, t) = IF t.late \/ over[r] THEN [x EXCEPT !.state = "expired"]
                        ELSE IF ~Current(x, KindOf(r)) THEN [x EXCEPT !.state = "invalidated"]
                        ELSE [x EXCEPT !.state = "approved", !.granted = TRUE]
    BY <1>2, <1>2a, <1>6 DEF Decided, Open
  <2>2. Decided(r, t).sync = x.sync /\ Decided(r, t).provider = x.provider
    BY <2>1 DEF RowShape
  <2> QED BY <1>1, <1>3, <1>6, <2>2 DEF Final
<1>7. CASE x.state \in Open /\ t.verdict \in Final
  <2>1. PICK st \in {"rejected", "cancelled"} :
           Decided(r, t) = Revoked([x EXCEPT !.state = st], "itsm")
    BY <1>2, <1>2a, <1>7 DEF Decided, Open, Final
  <2>2. st \in Finished /\ st \in States /\ "itsm" \in Reasons /\ "itsm" # "no"
    BY Members DEF Finished
  <2>3. PICK y \in RowShape : /\ y = [x EXCEPT !.state = st] /\ y.state = st
                              /\ y.sync = x.sync /\ y.granted = x.granted /\ y.provider = x.provider
    BY <1>2a, <2>2, RowOperatorsSame
  <2>4. /\ Revoked(y, "itsm").sync = y.sync /\ Revoked(y, "itsm").granted = y.granted
        /\ Revoked(y, "itsm").provider = y.provider /\ Revoked(y, "itsm").state = y.state
    BY <2>2, RowOperatorsSame, RowOperators
  <2> QED BY <1>3, <2>1, <2>2, <2>3, <2>4
<1>8. t.verdict \in Verdicts
  BY DEF TicketShape
<1> QED BY <1>2, <1>2a, <1>4, <1>5, <1>6, <1>7, <1>8 DEF Open, Verdicts, Final

LEMMA WorkersFollow ==
    ASSUME Base, DoneInv,
           (\E w \in Worker : WorkerStep(w)) \/ Trouble \/ Environment \/ UNCHANGED vars
    PROVE  RowsFollow
<1> USE DEF Base
<1>0. ASSUME NEW w \in Worker, job[w].step # "idle"
      PROVE  /\ job[w].req \in Req /\ job[w].answer \in TicketShape
             /\ row[job[w].req] \in RowShape /\ row[job[w].req].state # "absent"
             /\ JobOK(job[w]) /\ JobDone(job[w])
  BY <1>0 DEF Shape, AnswersOK, JobOK, JobShape, DoneInv, JobsDone
<1>1. ASSUME NEW r \in Req, NEW y, Same(row[r], y), row' = [row EXCEPT ![r] = y] PROVE RowsFollow
  BY <1>1, SameFollows, OneFollows
<1>2. ASSUME NEW w \in Worker, NEW r \in Req, Claim(w, r) PROVE RowsFollow
  <2>1. PICK y : y = [row[r] EXCEPT !.sync = "running", !.owner = w, !.lease = "held"]
    OBVIOUS
  <2>2. Same(row[r], y) /\ row' = [row EXCEPT ![r] = y]
    BY <1>2, <2>1 DEF Claim, Same, Shape, RowShape
  <2> QED BY <1>1, <2>2
<1>3. ASSUME NEW w \in Worker, ExpireFirst(w) \/ Settle(w) PROVE RowsFollow
  <2>1. job[w].req \in Req /\ row' = [row EXCEPT ![job[w].req] = Expired(job[w].req)]
    BY <1>0, <1>3 DEF ExpireFirst, Settle
  <2> QED BY <1>1, <2>1, ExpiredFollows
<1>4. ASSUME NEW w \in Worker, Bind(w) PROVE RowsFollow
  <2>1. /\ job[w].req \in Req /\ row[job[w].req] \in RowShape
        /\ row' = [row EXCEPT ![job[w].req] = [row[job[w].req] EXCEPT !.ticket = TRUE]]
    BY <1>0, <1>4 DEF Bind
  <2>2. PICK y : y = [row[job[w].req] EXCEPT !.ticket = TRUE]
    OBVIOUS
  <2>3. Same(row[job[w].req], y)
    BY <2>1, <2>2 DEF Same, RowShape
  <2> QED BY <1>1, <2>1, <2>2, <2>3
<1>5. ASSUME NEW w \in Worker, Finish(w) PROVE RowsFollow
  <2> DEFINE r == job[w].req
             failed == job[w].step = "fail"
             next == CASE failed /\ job[w].attempts + 1 >= MaxAttempts -> "failed"
                       [] ~failed /\ job[w].done -> "done"
                       [] OTHER -> "pending"
             n == IF failed THEN job[w].attempts + 1 ELSE 0
  <2>1. r \in Req /\ row[r] \in RowShape /\ JobDone(job[w]) /\ job[w].step \in {"finish", "fail"}
    BY <1>0, <1>5 DEF Finish
  <2>2. next \in {"failed", "pending"} \/ (next = "done" /\ job[w].step = "finish" /\ job[w].done)
    BY <2>1
  <2>3. row' = IF row[r].owner # w THEN row
               ELSE [row EXCEPT ![r] = [row[r] EXCEPT !.sync = next, !.owner = None,
                                                      !.lease = "none", !.attempts = n]]
    BY <1>5 DEF Finish
  <2> HIDE DEF next, n
  <2>4. PICK y : y = [row[r] EXCEPT !.sync = next, !.owner = None, !.lease = "none", !.attempts = n]
    OBVIOUS
  <2>5. y.sync = next /\ y.granted = row[r].granted /\ y.provider = row[r].provider
    BY <2>1, <2>4 DEF RowShape
  <2>6. Follows(r, y)
    BY <2>1, <2>2, <2>5 DEF Follows, JobDone, KnownOver
  <2> HIDE DEF r
  <2> QED BY <2>1, <2>3, <2>4, <2>6, OneFollows, NoneFollows
<1>6. ASSUME NEW w \in Worker, Accept(w) PROVE RowsFollow
  <2> DEFINE r == job[w].req
             t == job[w].answer
  <2>1. /\ r \in Req /\ t \in TicketShape /\ row[r] \in RowShape /\ row[r].state # "absent"
        /\ t.rev # 0 /\ TicketOK(t) /\ Advances(t, remote[r]) /\ remote' = remote
        /\ t.rev \in Nat /\ row[r].provider \in Nat
    BY <1>0, <1>6 DEF Accept, JobOK, JobDone, itsm, TicketShape, RowShape
  <2>2. row' = row \/ (~Refused(r, t) /\ t.rev # row[r].provider /\ row' = [row EXCEPT ![r] = Decided(r, t)])
    BY <1>6, <2>1 DEF Accept, Shape
  <2>3. CASE ~Refused(r, t) /\ t.rev # row[r].provider /\ row' = [row EXCEPT ![r] = Decided(r, t)]
    <3>1. ~(row[r].state = "pending" /\ t.verdict = "unqualified")
      BY <2>1, <2>3 DEF Refused
    <3>2. t.verdict \notin {"none", "open"}
      BY <2>1 DEF TicketOK
    <3> HIDE DEF r, t
    <3>3. Follows(r, Decided(r, t))
      BY <2>1, <3>1, <3>2, DecidedFollows
    <3> QED BY <2>1, <2>3, <3>3, OneFollows
  <2> QED BY <2>2, <2>3, NoneFollows
<1>7. ASSUME NEW r \in Req, LeaseExpires(r) PROVE RowsFollow
  <2>1. PICK y : y = [row[r] EXCEPT !.lease = "expired"]
    OBVIOUS
  <2>2. Same(row[r], y) /\ row' = [row EXCEPT ![r] = y]
    BY <1>7, <2>1 DEF LeaseExpires, Same, Shape, RowShape
  <2> QED BY <1>1, <2>2
<1>8. ASSUME NEW w \in Worker, \/ Load(w) \/ \E served \in BOOLEAN : Call(w, served)
                               \/ Fail(w) \/ Crash(w) \/ \E lost \in BOOLEAN : CallFails(w, lost)
      PROVE  RowsFollow
  BY <1>8, NoneFollows DEF Load, Call, Fail, Crash, CallFails
<1>9. CASE \/ \E r \in Req : RequestDue(r) \/ PeriodOver(r)
           \/ \E r \in Req, verdict \in Decision : Decide(r, verdict)
           \/ \E r \in Req, op \in {"create", "cancel"} : Arrive(r, op)
           \/ UNCHANGED vars
  BY <1>9, NoneFollows DEF RequestDue, PeriodOver, Decide, Arrive, vars
<1> QED
  BY <1>2, <1>3, <1>4, <1>5, <1>6, <1>7, <1>8, <1>9 DEF WorkerStep, Trouble, Environment

LEMMA NextFollows ==
    ASSUME Base, DoneInv, [Next]_vars
    PROVE  RowsFollow
  BY OperatorsFollow, WorkersFollow DEF Next

\* What is over or closed stays so.
OverLasts(r) == (Over(r) => Over(r)') /\ (Closed(r) => Closed(r)')

LEMMA NextOver ==
    ASSUME Base, [Next]_vars, NEW r \in Req
    PROVE  OverLasts(r)
<1>1. Moves(r) /\ Advances(remote[r], remote'[r])
  BY NextMoves, NextAdvances DEF RowsMove, TicketsAdvance
<1>2. Over(r) => Over(r)'
  BY <1>1 DEF Moves, Stays, Kept, Ends, Begins, Grants, Over, Finished
<1>3. Closed(r) => Closed(r)'
  BY <1>1 DEF Advances, Closed
<1> QED BY <1>2, <1>3 DEF OverLasts

LEMMA RowsStep == Base /\ DoneInv /\ [Next]_vars => RowsDone'
<1> SUFFICES ASSUME Base, DoneInv, [Next]_vars, NEW r \in Req PROVE RowDone(r)'
  BY DEF RowsDone
<1>1. Follows(r, row'[r]) /\ Advances(remote[r], remote'[r]) /\ OverLasts(r)
  BY NextFollows, NextAdvances, NextOver DEF RowsFollow, TicketsAdvance
<1>2. RowDone(r)
  BY DEF DoneInv, RowsDone
<1>3. /\ remote[r] \in TicketShape /\ remote'[r] \in TicketShape /\ TicketOK(remote'[r])
      /\ remote[r].rev \in Nat /\ remote'[r].rev \in Nat /\ row[r].provider \in Nat
  BY NextTickets DEF TicketsMove, Base, Shape, TicketShape, RowShape
<1>4. row'[r].sync = "done" => Over(r)' /\ Closed(r)'
  BY <1>1, <1>2 DEF Follows, RowDone, OverLasts
<1>5. row'[r].granted => Closed(r)'
  BY <1>1, <1>2 DEF Follows, RowDone, OverLasts
<1>6. CASE row'[r].provider = row[r].provider
  <2>1. row'[r].provider <= remote'[r].rev
    BY <1>1, <1>2, <1>3, <1>6 DEF RowDone, Advances
  <2>2. ASSUME row'[r].provider = remote'[r].rev, remote'[r].verdict \in Final PROVE Over(r)'
    <3>1. remote'[r].rev = remote[r].rev /\ remote[r].rev = row[r].provider
      BY <1>1, <1>2, <1>3, <1>6, <2>2 DEF RowDone, Advances
    <3>2. remote[r].verdict \in Final
      BY <1>1, <2>2, <3>1 DEF Advances
    <3> QED BY <1>1, <1>2, <3>1, <3>2 DEF RowDone, OverLasts
  <2> QED BY <1>4, <1>5, <2>1, <2>2, Zenon DEF RowDone, Over, Closed
<1>7. CASE row'[r].provider = 0
  <2>1. row'[r].provider <= remote'[r].rev
    BY <1>3, <1>7
  <2>2. ~(row'[r].provider = remote'[r].rev /\ remote'[r].verdict \in Final)
    BY <1>3, <1>7 DEF TicketOK, Final
  <2> QED BY <1>4, <1>5, <2>1, <2>2, Zenon DEF RowDone, Over, Closed
<1>8. CASE /\ row'[r].provider <= remote[r].rev /\ remote'[r] = remote[r]
           /\ row'[r].provider = remote[r].rev /\ remote[r].verdict \in Final =>
                 row'[r].state \in Finished
  BY <1>4, <1>5, <1>8 DEF RowDone, Over, Closed
<1> QED BY <1>1, <1>6, <1>7, <1>8 DEF Follows

LEMMA EditorStep == Base /\ DoneInv /\ [Next]_vars => EditorDone'
<1> SUFFICES ASSUME Base, DoneInv, [Next]_vars, editor' # NoEditor
             PROVE  /\ editor'.copy.provider <= remote'[editor'.old].rev
                    /\ editor'.copy.granted => remote'[editor'.old].verdict \notin {"none", "open"}
  BY DEF EditorDone, Unlocked, Closed
<1>1. \A r \in Req : OverLasts(r) /\ Advances(remote[r], remote'[r])
  BY NextOver, NextAdvances DEF TicketsAdvance
<1>2. \A r \in Req : remote[r].rev \in Nat /\ remote'[r].rev \in Nat
  BY NextTickets DEF TicketsMove, Base, Shape, TicketShape
<1>3. ASSUME NEW r \in Req, NEW x \in RowShape, x.provider <= remote[r].rev,
             x.granted => Closed(r), editor'.old = r, editor'.copy = x
      PROVE  /\ editor'.copy.provider <= remote'[editor'.old].rev
             /\ editor'.copy.granted => remote'[editor'.old].verdict \notin {"none", "open"}
  <2>1. x.provider \in Nat
    BY DEF RowShape
  <2> QED BY <1>1, <1>2, <1>3, <2>1 DEF OverLasts, Closed, Advances
<1>4. CASE editor' = editor
  <2>1. editor.old \in Req /\ editor.copy \in RowShape
    BY <1>4, RequestAssumption DEF Base, Shape, EditorOK, Unlocked
  <2>2. editor.copy.provider <= remote[editor.old].rev /\ (editor.copy.granted => Closed(editor.old))
    BY <1>4 DEF DoneInv, EditorDone, Unlocked
  <2> QED BY <1>3, <1>4, <2>1, <2>2
<1>5. CASE editor'.old \in View /\ editor'.copy = row[editor'.old]
  <2>1. PICK r \in Req : r = editor'.old
    BY <1>5, RequestAssumption
  <2>2. row[r] \in RowShape /\ RowDone(r) /\ editor'.copy = row[r]
    BY <1>5, <2>1 DEF Base, Shape, DoneInv, RowsDone
  <2> QED BY <1>3, <2>1, <2>2 DEF RowDone
<1> QED BY <1>4, <1>5, NextEditor DEF EditorMoves

\* What the tickets and the rows promise to the workers.
Onward ==
    /\ \A r \in Req : OverLasts(r) /\ Advances(remote[r], remote'[r])
    /\ \A r \in Req : remote'[r] \in TicketShape /\ TicketOK(remote'[r])

LEMMA NextOnward == Base /\ [Next]_vars => Onward
  BY NextOver, NextAdvances, NextTickets DEF Onward, TicketsAdvance, TicketsMove

\* A worker that has a request knows it, and what it was answered.
LEMMA BusyJob ==
    ASSUME Base, DoneInv, NEW w \in Worker, job[w].step # "idle"
    PROVE  /\ job[w] \in JobShape /\ job[w].req \in Req /\ job[w].answer \in TicketShape
           /\ TicketOK(job[w].answer) /\ row[job[w].req].state # "absent"
           /\ Advances(job[w].answer, remote[job[w].req]) /\ KnownOver(job[w])
  BY DEF Base, Shape, AnswersOK, JobOK, JobShape, DoneInv, JobsDone, JobDone

LEMMA AnswerLasts ==
    ASSUME Base, Onward, NEW r \in Req, NEW a \in TicketShape, Advances(a, remote[r])
    PROVE  Advances(a, remote'[r])
  BY AdvancesOn DEF Onward, Base, Shape

\* What the other workers know still holds.
LEMMA JobDoneStays ==
    ASSUME Base, DoneInv, Onward, NEW v \in Worker, job'[v] = job[v]
    PROVE  JobDone(job[v])'
<1>1. CASE job[v].step = "idle"
  BY <1>1 DEF JobDone
<1>2. CASE job[v].step # "idle"
  <2>1. PICK j : j = job[v]
    OBVIOUS
  <2>2. /\ j \in JobShape /\ j.req \in Req /\ j.answer \in TicketShape
        /\ Advances(j.answer, remote[j.req]) /\ KnownOver(j)
    BY <1>2, <2>1, BusyJob
  <2>3. Advances(j.answer, remote'[j.req]) /\ OverLasts(j.req)
    BY <2>2, AnswerLasts DEF Onward
  <2>4. KnownOver(j)'
    BY <2>2, <2>3 DEF KnownOver, OverLasts
  <2> QED BY <2>1, <2>3, <2>4 DEF JobDone, KnownOver, Over, Closed
<1> QED BY <1>1, <1>2

LEMMA OneJobDone ==
    ASSUME Base, DoneInv, Onward, NEW w \in Worker, NEW j, job' = [job EXCEPT ![w] = j],
           JobDone(j)'
    PROVE  JobsDone'
<1> SUFFICES ASSUME NEW v \in Worker PROVE JobDone(job[v])'
  BY DEF JobsDone
<1>1. job'[v] = IF v = w THEN j ELSE job[v]
  BY DEF Base, Shape
<1>2. CASE v = w
  BY <1>1, <1>2 DEF JobDone, KnownOver, Over, Closed
<1>3. CASE v # w
  BY <1>1, <1>3, JobDoneStays
<1> QED BY <1>2, <1>3

LEMMA NoJobDone ==
    ASSUME Base, DoneInv, Onward, job' = job
    PROVE  JobsDone'
  BY JobDoneStays DEF JobsDone

\* A worker goes on with its request.
LEMMA JobDoneGoesOn ==
    ASSUME Base, DoneInv, Onward, NEW w \in Worker, job[w].step # "idle", NEW j,
           j.req = job[w].req, j.answer \in {job[w].answer, NoTicket, remote'[j.req]},
           KnownOver(j)', job' = [job EXCEPT ![w] = j]
    PROVE  JobsDone'
<1>1. j.req \in Req /\ job[w].answer \in TicketShape /\ Advances(job[w].answer, remote[j.req])
  BY BusyJob
<1>2. Advances(job[w].answer, remote'[j.req])
  BY <1>1, AnswerLasts
<1>3. Advances(remote'[j.req], remote'[j.req]) /\ Advances(NoTicket, remote'[j.req])
  BY <1>1, AdvancesNot DEF Onward
<1>4. Advances(j.answer, remote'[j.req])
  BY <1>2, <1>3
<1>5. JobDone(j)'
  BY <1>4 DEF JobDone
<1> QED BY <1>5, OneJobDone

\* A worker returns from the synchronization.
LEMMA JobDoneReturns ==
    ASSUME Base, DoneInv, Onward, NEW w \in Worker, job[w].step # "idle",
           NEW r, r = job[w].req, NEW step \in {"finish", "fail"}, NEW done \in BOOLEAN,
           Return(w, step, done), step = "finish" /\ done => Over(r)' /\ Closed(r)'
    PROVE  JobsDone'
<1>1. PICK j : j = Returned(w, step, done)
  OBVIOUS
<1>2. /\ j.step = step /\ j.req = job[w].req /\ j.answer = NoTicket /\ j.term = FALSE
      /\ j.done = done
  BY <1>1 DEF Returned, Idle
<1>3. job' = [job EXCEPT ![w] = j]
  BY <1>1 DEF Return
<1>4. KnownOver(j)'
  BY <1>2 DEF KnownOver
<1> QED BY <1>2, <1>3, <1>4, JobDoneGoesOn

LEMMA WorkerDone ==
    ASSUME Base, DoneInv, Onward, NEW w \in Worker, WorkerStep(w)
    PROVE  JobsDone'
<1>1. PICK r : r = job[w].req
  OBVIOUS
<1>2. ASSUME job[w].step # "idle"
      PROVE  /\ job[w] \in JobShape /\ r \in Req /\ job[w].answer \in TicketShape
             /\ TicketOK(job[w].answer) /\ row[r].state # "absent" /\ row[r] \in RowShape
             /\ Advances(job[w].answer, remote[r]) /\ KnownOver(job[w])
             /\ OverLasts(r) /\ RowDone(r) /\ remote[r] \in TicketShape
  <2>1. r \in Req
    BY <1>1, <1>2, BusyJob
  <2> QED BY <1>1, <1>2, <2>1, BusyJob DEF Onward, Base, Shape, DoneInv, RowsDone
<1>3. ASSUME NEW q \in Req, Claim(w, q) PROVE JobsDone'
  <2>1. PICK j : j = [Idle EXCEPT !.step = "load", !.req = q, !.attempts = row[q].attempts]
    OBVIOUS
  <2>2. /\ j.step = "load" /\ j.req = q /\ j.term = FALSE /\ j.answer = NoTicket
        /\ job' = [job EXCEPT ![w] = j]
    BY <1>3, <2>1 DEF Claim, Idle
  <2>3. Advances(NoTicket, remote'[q])
    BY AdvancesNot DEF Onward
  <2>4. JobDone(j)'
    BY <2>2, <2>3 DEF JobDone, KnownOver
  <2> QED BY <2>2, <2>4, OneJobDone
<1>4. ASSUME NEW term \in BOOLEAN, NEW ticket, NEW step \in {"call", "expire"},
             job[w].step # "idle", term => Over(r)',
             job' = [job EXCEPT ![w] = [job[w] EXCEPT !.ticket = ticket, !.term = term,
                                                      !.step = step]]
      PROVE  JobsDone'
  <2>1. PICK j : j = [job[w] EXCEPT !.ticket = ticket, !.term = term, !.step = step]
    OBVIOUS
  <2>2. /\ j.step = step /\ j.req = r /\ j.term = term /\ j.answer = job[w].answer
        /\ job' = [job EXCEPT ![w] = j]
    BY <1>1, <1>2, <1>4, <2>1 DEF JobShape
  <2>3. KnownOver(j)'
    BY <1>4, <2>2 DEF KnownOver
  <2> QED BY <1>1, <1>4, <2>2, <2>3, JobDoneGoesOn
<1>5. CASE Load(w)
  <2> DEFINE term == row[r].state \in Finished
             step == IF row[r].ticket THEN "call" ELSE "expire"
  <2>1. job[w].step # "idle"
    BY <1>5 DEF Load
  <2>2. job' = [job EXCEPT ![w] = [job[w] EXCEPT !.ticket = row[r].ticket, !.term = term,
                                                 !.step = step]]
    BY <1>1, <1>5, Zenon DEF Load
  <2>3. term \in BOOLEAN /\ step \in {"call", "expire"}
    OBVIOUS
  <2>4. term => Over(r)'
    BY <1>2, <2>1 DEF OverLasts, Over
  <2> HIDE DEF term, step
  <2> QED BY <1>4, <2>1, <2>2, <2>3, <2>4
<1>6. CASE ExpireFirst(w)
  <2> DEFINE term == Expired(r).state \in Finished
  <2>1. job[w].step # "idle" /\ r \in Req /\ job[w] \in JobShape
    BY <1>2, <1>6 DEF ExpireFirst
  <2>2. job' = [job EXCEPT ![w] = [job[w] EXCEPT !.ticket = row[r].ticket, !.step = "call",
                                                 !.term = term]]
    BY <1>1, <1>6, Zenon DEF ExpireFirst
  <2>3. row'[r] = Expired(r)
    BY <1>1, <1>6, <2>1 DEF ExpireFirst, Base, Shape
  <2>4. term \in BOOLEAN /\ (term => Over(r)')
    BY <2>3 DEF Over
  <2> HIDE DEF term
  <2>5. job' = [job EXCEPT ![w] = [job[w] EXCEPT !.ticket = row[r].ticket, !.term = term,
                                                 !.step = "call"]]
    BY <2>1, <2>2 DEF JobShape
  <2> QED BY <1>4, <2>1, <2>4, <2>5
<1>7. ASSUME NEW step \in {"finish", "fail"}, NEW done \in BOOLEAN, job[w].step # "idle",
             Return(w, step, done), step = "finish" /\ done => Over(r)' /\ Closed(r)'
      PROVE  JobsDone'
  BY <1>1, <1>7, JobDoneReturns
<1>8. CASE Bind(w)
  <2>1. /\ job[w].step \in {"bind", "rebind"} /\ job[w] \in JobShape /\ KnownOver(job[w])
        /\ OverLasts(r) /\ TicketOK(job[w].answer) /\ job[w].answer.rev \in Nat
    BY <1>2, <1>8 DEF Bind, TicketShape
  <2>2. CASE job[w].step = "rebind"
    <3>1. Over(r)' /\ Closed(r)'
      BY <1>1, <2>1, <2>2 DEF KnownOver, OverLasts
    <3>2. Return(w, "finish", TRUE)
      BY <1>8, <2>2 DEF Bind
    <3> QED BY <1>7, <2>2, <3>1, <3>2
  <2>3. CASE job[w].step = "bind"
    <3>1. PICK step \in {"accept", "settle"} :
             /\ Goto(w, step)
             /\ step = "settle" => ~(job[w].answer.rev > 0)
      BY <1>8, <2>3 DEF Bind
    <3>2. PICK j : j = [job[w] EXCEPT !.step = step]
      OBVIOUS
    <3>3. /\ j.step = step /\ j.req = r /\ j.term = job[w].term /\ j.answer = job[w].answer
          /\ job' = [job EXCEPT ![w] = j]
      BY <1>1, <2>1, <3>1, <3>2 DEF JobShape, Goto
    <3>4. step = "settle" => j.answer.verdict \notin Final
      BY <2>1, <3>1, <3>3 DEF TicketOK, Final
    <3>5. j.term => Over(r)' /\ Closed(r)'
      BY <1>1, <2>1, <2>3, <3>3 DEF KnownOver, OverLasts
    <3>6. KnownOver(j)'
      BY <3>1, <3>3, <3>4, <3>5 DEF KnownOver
    <3> QED BY <1>1, <2>3, <3>3, <3>6, JobDoneGoesOn
  <2> QED BY <2>1, <2>2, <2>3
<1>9. CASE Finish(w)
  <2>1. job' = [job EXCEPT ![w] = Idle]
    BY <1>9 DEF Finish
  <2> QED BY <2>1, OneJobDone DEF JobDone, Idle
<1>10. CASE Accept(w)
  <2> DEFINE t == job[w].answer
  <2>1. /\ job[w].step = "accept" /\ job[w] \in JobShape /\ KnownOver(job[w]) /\ OverLasts(r)
        /\ r \in Req /\ row[r] \in RowShape /\ row[r].state # "absent" /\ t \in TicketShape
        /\ TicketOK(t) /\ Advances(t, remote[r]) /\ RowDone(r) /\ remote' = remote
        /\ t.rev \in Nat /\ row[r].provider \in Nat
    BY <1>2, <1>10 DEF Accept, TicketShape, RowShape, itsm
  <2>2. CASE Return(w, "fail", FALSE)
    BY <1>7, <2>1, <2>2
  <2>3. CASE /\ ~Refused(r, t) /\ Goto(w, "settle")
             /\ row' = [row EXCEPT ![r] = IF t.rev = row[r].provider THEN row[r] ELSE Decided(r, t)]
    <3>1. ASSUME t.verdict \in Final PROVE Over(r)'
      <4>1. CASE t.rev = row[r].provider
        <5>1. remote[r].rev = t.rev /\ remote[r].verdict = t.verdict
          BY <2>1, <3>1 DEF Advances
        <5> QED BY <2>1, <3>1, <4>1, <5>1 DEF RowDone, OverLasts
      <4>2. CASE t.rev # row[r].provider
        <5>1. t.verdict \notin {"none", "open"} /\ t.verdict # "unqualified"
          BY <3>1 DEF Final
        <5>2. row'[r] = Decided(r, t)
          BY <2>1, <2>3, <4>2 DEF Base, Shape
        <5> HIDE DEF t
        <5>3. Decided(r, t).state \in Finished
          BY <2>1, <3>1, <5>1, DecidedFollows DEF Base
        <5> QED BY <5>2, <5>3 DEF Over
      <4> QED BY <4>1, <4>2
    <3>2. PICK j : j = [job[w] EXCEPT !.step = "settle"]
      OBVIOUS
    <3>3. /\ j.step = "settle" /\ j.req = r /\ j.term = job[w].term /\ j.answer = job[w].answer
          /\ job' = [job EXCEPT ![w] = j]
      BY <1>1, <2>1, <2>3, <3>2 DEF JobShape, Goto
    <3>4. j.term => Over(r)' /\ Closed(r)'
      BY <1>1, <2>1, <3>3 DEF KnownOver, OverLasts
    <3>5. KnownOver(j)'
      BY <3>1, <3>3, <3>4 DEF KnownOver
    <3> QED BY <1>1, <2>1, <3>3, <3>5, JobDoneGoesOn
  <2>4. \/ Return(w, "fail", FALSE)
        \/ /\ ~Refused(r, t) /\ Goto(w, "settle")
           /\ row' = [row EXCEPT ![r] = IF t.rev = row[r].provider THEN row[r] ELSE Decided(r, t)]
    BY <1>1, <1>10, Zenon DEF Accept
  <2> QED BY <2>2, <2>3, <2>4
<1>11. CASE Settle(w)
  <2> DEFINE x == Expired(r)
  <2>1. /\ job[w].step = "settle" /\ job[w] \in JobShape /\ KnownOver(job[w]) /\ OverLasts(r)
        /\ r \in Req /\ row[r] \in RowShape /\ row[r].state # "absent" /\ RowDone(r)
        /\ Advances(job[w].answer, remote[r]) /\ row'[r] = x
    BY <1>1, <1>2, <1>11 DEF Settle, Base, Shape
  <2>2. CASE /\ x.state \in {"expired", "invalidated"}
             /\ job' = [job EXCEPT ![w] = [Returned(w, "close", FALSE) EXCEPT !.ticket = TRUE]]
    <3>1. PICK j : j = [Returned(w, "close", FALSE) EXCEPT !.ticket = TRUE]
      OBVIOUS
    <3>2. /\ j.step = "close" /\ j.req = r /\ j.term = FALSE /\ j.answer = NoTicket
          /\ job' = [job EXCEPT ![w] = j]
      BY <1>1, <2>2, <3>1 DEF Returned, Idle
    <3>3. Over(r)'
      BY <2>1, <2>2 DEF Over, Finished
    <3>4. KnownOver(j)'
      BY <3>2, <3>3 DEF KnownOver
    <3> QED BY <1>1, <2>1, <3>2, <3>4, JobDoneGoesOn
  <2>3. ASSUME NEW done \in BOOLEAN, Return(w, "finish", done),
               done => job[w].term \/ job[w].answer.verdict \in Final \/ (x.granted /\ over[r])
        PROVE  JobsDone'
    <3>1. CASE job[w].term \/ job[w].answer.verdict \in Final
      <4>1. Over(r) /\ Closed(r)
        BY <1>1, <2>1, <3>1 DEF KnownOver, Advances, Closed, Final
      <4> QED BY <1>7, <2>1, <2>3, <4>1 DEF OverLasts
    <3>2. CASE x.granted /\ over[r]
      <4>1. row[r].granted /\ x.state # "approved"
        BY <2>1, <3>2, ExpiredFollows DEF Base
      <4>2. row[r].state \notin {"absent", "pending"} /\ row[r].state \in States
        BY <2>1, <4>1 DEF DoneInv, GrantedOK, RowShape
      <4>3. x.state \in Finished
        BY <2>1, <4>1, <4>2, ExpiredShape DEF States, Open, Finished, Base
      <4>4. Over(r)' /\ Closed(r)'
        BY <2>1, <4>1, <4>3 DEF Over, RowDone, OverLasts
      <4> QED BY <1>7, <2>1, <2>3, <4>4
    <3>3. CASE ~done
      BY <1>7, <2>1, <2>3, <3>3
    <3> QED BY <2>3, <3>1, <3>2, <3>3
  <2>4. \/ /\ x.state \in {"expired", "invalidated"}
           /\ job' = [job EXCEPT ![w] = [Returned(w, "close", FALSE) EXCEPT !.ticket = TRUE]]
        \/ Return(w, "finish", \/ job[w].term
                               \/ job[w].answer.verdict \in Final
                               \/ x.granted /\ over[r])
    BY <1>1, <1>11, Zenon DEF Settle, Final
  <2>5. x \in RowShape /\ x.granted \in BOOLEAN /\ over[r] \in BOOLEAN /\ job[w].term \in BOOLEAN
    BY <2>1, ExpiredShape DEF RowShape, JobShape, Base, Shape
  <2> DEFINE done == \/ job[w].term
                     \/ job[w].answer.verdict \in Final
                     \/ x.granted /\ over[r]
  <2>6. done \in BOOLEAN
    BY <2>5
  <2>7. CASE Return(w, "finish", done)
    <3>1. done => job[w].term \/ job[w].answer.verdict \in Final \/ (x.granted /\ over[r])
      OBVIOUS
    <3> HIDE DEF x, done
    <3> QED BY <2>3, <2>6, <2>7, <3>1
  <2> QED BY <2>2, <2>4, <2>7
<1>12. ASSUME NEW served \in BOOLEAN, Call(w, served) PROVE JobsDone'
  <2>1. PICK op : op = OperationOf(job[w])
    OBVIOUS
  <2>2. PICK x : x = IF served THEN Served(remote[r], op) ELSE remote[r]
    OBVIOUS
  <2>3. /\ job[w].step \in {"call", "close"} /\ job[w] \in JobShape /\ KnownOver(job[w])
        /\ OverLasts(r) /\ r \in Req /\ remote[r] \in TicketShape
        /\ ~served => op = "create"
    BY <1>1, <1>2, <1>12, <2>1 DEF Call
  <2>4. /\ remote' = [remote EXCEPT ![r] = x]
        /\ job' = [job EXCEPT ![w] =
              CASE job[w].step = "close" -> [job[w] EXCEPT !.step = "rebind"]
                [] job[w].step = "call" /\ op = "cancel" /\ ~job[w].ticket ->
                      Returned(w, IF x.verdict = "cancelled" THEN "finish" ELSE "fail",
                               x.verdict = "cancelled")
                [] job[w].step = "call" /\ ~(op = "cancel" /\ ~job[w].ticket) /\ x.id ->
                      [job[w] EXCEPT !.step = "bind", !.answer = x]
                [] OTHER -> Returned(w, "finish", FALSE)]
    BY <1>1, <1>12, <2>1, <2>2 DEF Call
  <2>5. remote'[r] = x
    BY <2>3, <2>4 DEF Base, Shape
  <2>6. op = "cancel" => Closed(r)'
    <3> SUFFICES ASSUME op = "cancel" PROVE x.verdict \notin {"none", "open"}
      BY <2>5 DEF Closed
    <3>1. x = Served(remote[r], "cancel")
      BY <2>2, <2>3
    <3> QED BY <2>3, <3>1, CancelCloses
  <2>7. /\ op = "cancel" <=> (job[w].step = "close" \/ job[w].term)
    BY <2>1, <2>3 DEF OperationOf, JobShape
  <2>8. (job[w].term \/ job[w].step = "close") => Over(r)' /\ Closed(r)'
    BY <1>1, <2>3, <2>6, <2>7 DEF KnownOver, OverLasts
  <2>9. ASSUME NEW step \in {"rebind", "bind"}, NEW a \in {job[w].answer, x}, NEW j,
               j.step = step, j.req = r, j.term = job[w].term, j.answer = a,
               step = "rebind" => job[w].step = "close", job' = [job EXCEPT ![w] = j]
        PROVE  JobsDone'
    <3>1. KnownOver(j)'
      BY <2>8, <2>9 DEF KnownOver
    <3>2. j.answer \in {job[w].answer, NoTicket, remote'[j.req]} /\ job[w].step # "idle"
      BY <2>3, <2>5, <2>9
    <3> QED BY <1>1, <2>9, <3>1, <3>2, JobDoneGoesOn
  <2>10. CASE job[w].step = "close"
    <3>1. PICK j : j = [job[w] EXCEPT !.step = "rebind"]
      OBVIOUS
    <3>2. /\ j.step = "rebind" /\ j.req = r /\ j.term = job[w].term /\ j.answer = job[w].answer
      BY <1>1, <2>3, <3>1 DEF JobShape
    <3>3. job' = [job EXCEPT ![w] = j]
      BY <2>4, <2>10, <3>1
    <3> QED BY <2>9, <2>10, <3>2, <3>3
  <2>11. CASE job' = [job EXCEPT ![w] = [job[w] EXCEPT !.step = "bind", !.answer = x]]
    <3>1. PICK j : j = [job[w] EXCEPT !.step = "bind", !.answer = x]
      OBVIOUS
    <3>2. /\ j.step = "bind" /\ j.req = r /\ j.term = job[w].term /\ j.answer = x
      BY <1>1, <2>3, <3>1 DEF JobShape
    <3> QED BY <2>9, <2>11, <3>1, <3>2
  <2>12. CASE /\ job[w].step = "call" /\ op = "cancel"
              /\ job' = [job EXCEPT ![w] = Returned(w, IF x.verdict = "cancelled" THEN "finish"
                                                       ELSE "fail", x.verdict = "cancelled")]
    <3>1. PICK step \in {"finish", "fail"}, done \in BOOLEAN : Return(w, step, done)
      <4> DEFINE step == IF x.verdict = "cancelled" THEN "finish" ELSE "fail"
                 done == x.verdict = "cancelled"
      <4>1. step \in {"finish", "fail"} /\ done \in BOOLEAN /\ Return(w, step, done)
        BY <2>12 DEF Return
      <4> HIDE DEF step, done
      <4> QED BY <4>1
    <3>2. Over(r)' /\ Closed(r)'
      BY <2>7, <2>8, <2>12
    <3> QED BY <1>7, <2>12, <3>1, <3>2
  <2>13. CASE Return(w, "finish", FALSE)
    BY <1>7, <2>3, <2>13
  <2> QED BY <2>3, <2>4, <2>10, <2>11, <2>12, <2>13 DEF Return
<1> QED
  BY <1>3, <1>5, <1>6, <1>8, <1>9, <1>10, <1>11, <1>12 DEF WorkerStep

LEMMA JobsStep == Base /\ DoneInv /\ [Next]_vars => JobsDone'
<1> SUFFICES ASSUME Base, DoneInv, [Next]_vars PROVE JobsDone'
  OBVIOUS
<1>1. Onward
  BY NextOnward
<1>2. ASSUME NEW w \in Worker, WorkerStep(w) PROVE JobsDone'
  BY <1>1, <1>2, WorkerDone
<1>3. CASE Trouble
  <2>1. ASSUME NEW w \in Worker, Return(w, "fail", FALSE), job[w].step # "idle" PROVE JobsDone'
    BY <1>1, <2>1, JobDoneReturns
  <2>2. ASSUME NEW w \in Worker, Crash(w) PROVE JobsDone'
    BY <1>1, <2>2, OneJobDone DEF Crash, JobDone, Idle
  <2> QED BY <1>3, <2>1, <2>2 DEF Trouble, Fail, CallFails
<1>4. CASE Operators \/ Administration
  BY <1>1, <1>4, NoJobDone
     DEF Operators, Administration, Create, CreateView, Cancel, RetrySync, ReadOpenView,
         ReplaceView, SavePolicy, EditScope, SetAvailable, RemoveManagement, Adopt
<1>5. CASE Environment
  BY <1>1, <1>5, NoJobDone DEF Environment, RequestDue, PeriodOver, LeaseExpires, Decide, Arrive
<1>6. CASE UNCHANGED vars
  BY <1>1, <1>6, NoJobDone DEF vars
<1> QED BY <1>2, <1>3, <1>4, <1>5, <1>6 DEF Next

\* PAMRequest!DoneIsClosed: synchronization ends only when the request is finished and
\* nobody can decide on its ticket any more, not even if its creation arrives late;
\* whatever a worker learned before others changed the row still justifies its result.
THEOREM DoneIsClosedHolds == Spec => []DoneIsClosed
<1>1. Init => DoneInv
  BY DEF Init, DoneInv, GrantedOK, EditorDone, RowsDone, JobsDone, RowDone, JobDone, Unlocked,
         Absent, NoTicket, Idle, Final
<1>2. DoneInv /\ Base /\ [Next]_vars => DoneInv'
  BY GrantedStep, EditorStep, RowsStep, JobsStep DEF DoneInv
<1>3. DoneInv => DoneIsClosed
  BY DEF DoneInv, RowsDone, RowDone, Over, Closed, DoneIsClosed
<1> QED BY <1>1, <1>2, <1>3, BaseHolds, PTL DEF Spec

-----------------------------------------------------------------------------
(* PAMRequest implements PAMAccess.                                        *)

\* A call that still travels is for a request that exists, and one that cancels a
\* ticket is for a request that is over.
LateOK ==
    \A r \in Req : /\ <<r, "create">> \in late => row[r].state # "absent"
                   /\ <<r, "cancel">> \in late => Over(r)

LEMMA DoneStep == DoneInv /\ Base /\ [Next]_vars => DoneInv'
  BY GrantedStep, EditorStep, RowsStep, JobsStep DEF DoneInv

\* Only a caller that gives up leaves a call behind.
LEMMA LateGrows ==
    ASSUME [Next]_vars
    PROVE  \/ late' \subseteq late
           \/ \E w \in Worker : /\ job[w].step \in {"call", "close"}
                                /\ OperationOf(job[w]) # "status"
                                /\ late' = late \cup {<<job[w].req, OperationOf(job[w])>>}
<1>1. CASE UNCHANGED late
  BY <1>1
<1>2. ASSUME NEW w \in Worker, WorkerStep(w) PROVE UNCHANGED late
  BY <1>2 DEF WorkerStep, Claim, Load, ExpireFirst, Call, Bind, Accept, Settle, Finish, itsm
<1>3. ASSUME NEW w \in Worker, Fail(w) \/ Crash(w) PROVE UNCHANGED late
  BY <1>3 DEF Fail, Crash, itsm
<1>4. ASSUME NEW w \in Worker, NEW lost \in BOOLEAN, CallFails(w, lost)
      PROVE  \/ late' = late
             \/ /\ job[w].step \in {"call", "close"} /\ OperationOf(job[w]) # "status"
                /\ late' = late \cup {<<job[w].req, OperationOf(job[w])>>}
  BY <1>4 DEF CallFails
<1>5. CASE Operators \/ Administration
  BY <1>5 DEF Operators, Administration, Create, CreateView, Cancel, RetrySync, ReadOpenView,
              ReplaceView, SavePolicy, EditScope, SetAvailable, RemoveManagement, Adopt, itsm
<1>6. CASE Environment
  BY <1>6 DEF Environment, RequestDue, PeriodOver, LeaseExpires, Decide, Arrive, itsm
<1>7. CASE UNCHANGED vars
  BY <1>7 DEF vars, itsm
<1> QED BY <1>1, <1>2, <1>3, <1>4, <1>5, <1>6, <1>7, Zenon DEF Next, Trouble

\* A worker creates tickets of requests that exist, and cancels those of requests
\* that are over.
LEMMA OperationFits ==
    ASSUME Base, DoneInv, NEW w \in Worker, job[w].step \in {"call", "close"}
    PROVE  /\ job[w].req \in Req /\ row[job[w].req].state # "absent"
           /\ OperationOf(job[w]) = "cancel" => Over(job[w].req)
           /\ OperationOf(job[w]) \in {"create", "cancel", "status"}
<1>1. job[w].step # "idle"
  OBVIOUS
<1>2. job[w].req \in Req /\ row[job[w].req].state # "absent" /\ KnownOver(job[w])
  BY <1>1, BusyJob
<1>3. OperationOf(job[w]) = "cancel" => job[w].step = "close" \/ job[w].term
  BY DEF OperationOf
<1>4. OperationOf(job[w]) \in {"create", "cancel", "status"}
  BY DEF OperationOf
<1> QED BY <1>2, <1>3, <1>4 DEF KnownOver

LEMMA LateStep == LateOK /\ DoneInv /\ Base /\ [Next]_vars => LateOK'
<1> SUFFICES ASSUME LateOK, DoneInv, Base, [Next]_vars, NEW r \in Req
             PROVE  /\ <<r, "create">> \in late' => row'[r].state # "absent"
                    /\ <<r, "cancel">> \in late' => Over(r)'
  BY DEF LateOK
<1>1. row[r].state # "absent" => row'[r].state # "absent"
  <2>1. Moves(r)
    BY NextMoves DEF RowsMove
  <2> QED BY <2>1 DEF Moves, Stays, Kept, Ends, Begins, Grants, Finished
<1>2. Over(r) => Over(r)'
  BY NextOver DEF OverLasts
<1>3. /\ <<r, "create">> \in late => row[r].state # "absent"
      /\ <<r, "cancel">> \in late => Over(r)
  BY DEF LateOK
<1>4. CASE late' \subseteq late
  BY <1>1, <1>2, <1>3, <1>4
<1>5. ASSUME NEW w \in Worker, job[w].step \in {"call", "close"},
             late' = late \cup {<<job[w].req, OperationOf(job[w])>>}
      PROVE  /\ <<r, "create">> \in late' => row'[r].state # "absent"
             /\ <<r, "cancel">> \in late' => Over(r)'
  <2>1. \A op : <<r, op>> \in late' => <<r, op>> \in late \/ (r = job[w].req /\ op = OperationOf(job[w]))
    BY <1>5
  <2>2. row[job[w].req].state # "absent" /\ (OperationOf(job[w]) = "cancel" => Over(job[w].req))
    BY <1>5, OperationFits
  <2> QED BY <1>1, <1>2, <1>3, <2>1, <2>2
<1> QED BY <1>4, <1>5, LateGrows

\* What the step-by-step correspondence rests on.
AccessInv == Base /\ DoneInv /\ ViewsOK /\ UnrevokedOK /\ LateOK

LEMMA AccessInvInit == Init => AccessInv
<1>1. Init => DoneInv
  BY DEF Init, DoneInv, GrantedOK, EditorDone, RowsDone, JobsDone, RowDone, JobDone, Unlocked,
         Absent, NoTicket, Idle, Final
<1>2. Init => ViewsOK
  BY RequestAssumption DEF Init, ViewsOK, OneOpenView, Unlocked, Absent, Open
<1>3. Init => UnrevokedOK /\ LateOK
  BY DEF Init, UnrevokedOK, LateOK, Absent
<1> QED BY <1>1, <1>2, <1>3, BaseInit DEF AccessInv

LEMMA AccessInvStep == AccessInv /\ [Next]_vars => AccessInv'
  BY BaseStep, DoneStep, ViewsStep, UnrevokedStep, LateStep DEF AccessInv

LEMMA StageValues ==
    ASSUME NEW x
    PROVE  /\ StageOf(x) \in {"pending", "approved"} <=> x.state \in Open
           /\ x.state \in Finished => StageOf(x) = "ended"
           /\ x.state \notin Finished => StageOf(x) = x.state
  BY DEF StageOf, Open, Finished

\* The book, request by request.
LEMMA Pages ==
    /\ \A r \in Req : Stage[r] = StageOf(row[r]) /\ Tickets[r] = TicketStage(remote[r])
    /\ \A r \in Req : AccessBook!Open(r) <=> row[r].state \in Open
    /\ \A r : r \in Active <=> r \in Req /\ Access(r)
<1>1. \A r \in Req : Stage[r] = StageOf(row[r]) /\ Tickets[r] = TicketStage(remote[r])
  BY DEF Stage, Tickets
<1>2. \A r \in Req : AccessBook!Open(r) <=> row[r].state \in Open
  BY <1>1, StageValues DEF AccessBook!Open
<1> QED BY <1>1, <1>2 DEF Active

LEMMA NextPages ==
    /\ Stage' = [r \in Req |-> StageOf(row'[r])]
    /\ Tickets' = [r \in Req |-> TicketStage(remote'[r])]
    /\ \A r : r \in Active' <=> r \in Req /\ Access(r)'
  BY DEF Stage, Tickets, Active

LEMMA SameKinds == AccessBook!Kind = Kind /\ \A r : AccessBook!KindOf(r) = KindOf(r)
  BY DEF AccessBook!Kind, Kind, AccessBook!KindOf, KindOf

\* Nothing that the book says of a request changes.
PageKept(r) == StageOf(row'[r]) = StageOf(row[r]) /\ (Access(r)' <=> Access(r))

\* A request that is over gives no access.
LEMMA OverNoAccess == \A r \in Req : row[r].state # "approved" => ~Access(r)
  BY DEF Access

LEMMA RowKept ==
    ASSUME NEW r \in Req, over'[r] = over[r], Stays(r)
    PROVE  PageKept(r)
<1>1. StageOf(row'[r]) = StageOf(row[r])
  BY DEF Stays, Kept, StageOf
<1>2. Access(r)' <=> Access(r)
  BY DEF Stays, Kept, Access
<1> QED BY <1>1, <1>2 DEF PageKept

\* All pages kept, and the rules and the tickets too.
LEMMA NothingInBook ==
    ASSUME \A r \in Req : PageKept(r), UNCHANGED <<remote, policy>>
    PROVE  UNCHANGED <<Stage, Active, Tickets, policy>>
<1>1. Stage' = Stage
  BY NextPages DEF PageKept, Stage
<1>2. Active' = Active
  BY NextPages, Pages DEF PageKept
<1>3. Tickets' = Tickets
  BY NextPages DEF Tickets
<1> QED BY <1>1, <1>2, <1>3

\* The open requests of S end; the others keep their page.
LEMMA BookEndsAll ==
    ASSUME NEW S \in SUBSET Req,
           \A r \in S : \/ row[r].state \in Open /\ row'[r].state \in Finished
                        \/ row[r].state \notin Open /\ PageKept(r),
           \A r \in Req \ S : PageKept(r)
    PROVE  AccessBook!EndAll(S)
<1>1. ASSUME NEW r \in Req
      PROVE  /\ StageOf(row'[r]) = IF r \in S /\ AccessBook!Open(r) THEN "ended" ELSE Stage[r]
             /\ Access(r)' <=> Access(r) /\ r \notin S
  <2>1. Stage[r] = StageOf(row[r]) /\ (AccessBook!Open(r) <=> row[r].state \in Open)
    BY Pages
  <2>2. CASE row[r].state \in Open /\ row'[r].state \in Finished /\ r \in S
    <3>1. StageOf(row'[r]) = "ended"
      BY <2>2, StageValues
    <3>2. ~Access(r)'
      BY <2>2 DEF Access, Finished
    <3> QED BY <2>1, <2>2, <3>1, <3>2
  <2>3. CASE row[r].state \notin Open /\ PageKept(r) /\ r \in S
    <3>1. ~Access(r)
      BY <2>3 DEF Access, Open
    <3> QED BY <2>1, <2>3, <3>1 DEF PageKept
  <2>4. CASE r \notin S
    BY <2>1, <2>4 DEF PageKept
  <2> QED BY <2>2, <2>3, <2>4
<1>2. Stage' = [r \in Req |-> IF r \in S /\ AccessBook!Open(r) THEN "ended" ELSE Stage[r]]
  BY <1>1, NextPages
<1>3. Active' = Active \ S
  BY <1>1, NextPages, Pages
<1> QED BY <1>2, <1>3 DEF AccessBook!EndAll

\* A step of PAMAccess, or none that it can see.
BookStep == AccessBook!Next \/ UNCHANGED <<Stage, Active, Tickets, policy>>

\* A request begins: its page is written, and those of the other views are closed.
LEMMA BookBegins ==
    ASSUME NEW q \in Req, Begins(q), UNCHANGED <<remote, policy>>,
           \A r \in Req \ {q} : \/ PageKept(r)
                                \/ r \in View /\ q \in View /\ row[r].state \in Open
                                              /\ row'[r].state \in Finished,
           q \in View => \A r \in View \ {q} : row'[r].state \notin Open
    PROVE  AccessBook!Ask(q) \/ AccessBook!AskView(q)
<1>1. /\ Stage[q] = "absent" /\ StageOf(row'[q]) = "pending" /\ ~Access(q) /\ ~Access(q)'
      /\ Tickets' = Tickets
  <2>1. row[q].state = "absent" /\ row'[q].state = "pending"
    BY DEF Begins
  <2>2. "absent" \notin Finished /\ "pending" \notin Finished
    BY DEF Finished
  <2>3. Tickets' = Tickets
    BY NextPages DEF Tickets
  <2> QED BY <2>1, <2>2, <2>3, Pages, StageValues DEF Access
<1>2. CASE q \notin View
  <2>1. \A r \in Req \ {q} : PageKept(r)
    BY <1>2
  <2>2. Stage' = [Stage EXCEPT ![q] = "pending"]
    BY <1>1, <2>1, NextPages DEF Stage, PageKept
  <2>3. Active' = Active
    BY <1>1, <2>1, NextPages, Pages DEF PageKept
  <2> QED BY <1>1, <1>2, <2>2, <2>3 DEF AccessBook!Ask
<1>3. CASE q \in View
  <2>1. ASSUME NEW r \in Req, r # q
        PROVE  /\ StageOf(row'[r]) = IF r \in View /\ AccessBook!Open(r) THEN "ended" ELSE Stage[r]
               /\ Access(r)' <=> Access(r) /\ r \notin View
    <3>1. Stage[r] = StageOf(row[r]) /\ (AccessBook!Open(r) <=> row[r].state \in Open)
      BY Pages
    <3>2. CASE r \in View /\ row[r].state \in Open /\ row'[r].state \in Finished
      <4>1. StageOf(row'[r]) = "ended" /\ ~Access(r)'
        BY <3>2, StageValues DEF Access, Finished
      <4> QED BY <3>1, <3>2, <4>1
    <3>3. CASE r \in View /\ PageKept(r)
      <4>1. row'[r].state \notin Open
        BY <1>3, <2>1, <3>3
      <4>2. row[r].state \notin Open
        BY <3>3, <4>1, StageValues DEF PageKept
      <4>3. ~Access(r)
        BY <4>2 DEF Access, Open
      <4> QED BY <3>1, <3>3, <4>2, <4>3 DEF PageKept
    <3>4. CASE r \notin View
      <4>1. PageKept(r)
        BY <2>1, <3>4
      <4> QED BY <3>1, <3>4, <4>1 DEF PageKept
    <3> QED BY <2>1, <3>2, <3>3, <3>4
  <2>2. Stage' = [r \in Req |-> IF r = q THEN "pending"
                                ELSE IF r \in View /\ AccessBook!Open(r) THEN "ended" ELSE Stage[r]]
    BY <1>1, <2>1, NextPages
  <2>3. Active' = Active \ View
    BY <1>1, <1>3, <2>1, NextPages, Pages
  <2> QED BY <1>1, <1>3, <2>2, <2>3 DEF AccessBook!AskView
<1> QED BY <1>2, <1>3

\* A step that changes at most one row, while no view request is being replaced.
LEMMA OneRowBook ==
    ASSUME AccessInv, RowsMove, UNCHANGED <<over, remote, policy, editor>>,
           NEW q \in Req, \A r \in Req \ {q} : row'[r] = row[r]
    PROVE  BookStep
<1>1. \A r \in Req \ {q} : PageKept(r)
  BY DEF PageKept, Access
<1>2. ~ReplaceView
  BY DEF ReplaceView, Unlocked
<1>3. CASE Stays(q)
  <2>1. PageKept(q)
    BY <1>3, RowKept
  <2> QED BY <1>1, <2>1, NothingInBook DEF BookStep
<1>4. CASE Ends(q)
  <2>1. row[q].state \in Open /\ row'[q].state \in Finished
    BY <1>2, <1>4 DEF Ends
  <2>2. AccessBook!EndAll({q}) /\ AccessBook!Open(q)
    BY <1>1, <2>1, BookEndsAll, Pages
  <2>3. Tickets' = Tickets
    BY NextPages DEF Tickets
  <2>4. AccessBook!End(q)
    BY <2>2, <2>3 DEF AccessBook!End
  <2> QED BY <2>4 DEF BookStep, AccessBook!Next
<1>5. CASE Begins(q)
  <2>1. Unlocked /\ (q \in View => \A v \in View : row[v].state \notin Open)
    BY <1>5 DEF Begins, Unlocked
  <2>2. q \in View => \A r \in View \ {q} : row'[r].state \notin Open
    BY <2>1, RequestAssumption
  <2>3. AccessBook!Ask(q) \/ AccessBook!AskView(q)
    BY <1>1, <1>5, <2>2, BookBegins
  <2> QED BY <2>3 DEF BookStep, AccessBook!Next
<1>6. CASE Grants(q)
  <2>1. Stage[q] = "pending" /\ StageOf(row'[q]) = "approved"
    BY <1>6, Pages, StageValues DEF Grants, Finished
  <2>2. Tickets[q] = "approved" /\ Tickets' = Tickets
    BY <1>6, Pages, NextPages DEF Grants, TicketStage, Tickets
  <2>3. row[q].revoked = "no"
    BY <1>6 DEF Grants, AccessInv, UnrevokedOK, Open
  <2>4. Access(q)'
    BY <1>6, <2>3 DEF Grants, Access
  <2>5. Stage' = [Stage EXCEPT ![q] = "approved"]
    BY <1>1, <2>1, NextPages DEF Stage, PageKept
  <2>6. Active' = Active \cup {q}
    BY <1>1, <2>4, NextPages, Pages DEF PageKept
  <2>7. AccessBook!Approve(q)
    BY <2>1, <2>2, <2>5, <2>6 DEF AccessBook!Approve
  <2> QED BY <2>7 DEF BookStep, AccessBook!Next
<1> QED BY <1>3, <1>4, <1>5, <1>6 DEF RowsMove, Moves

\* CreatePasswordViewRequest replaces the operator's open request.
LEMMA ReplaceBook ==
    ASSUME AccessInv, RowsMove, ReplaceView
    PROVE  BookStep
<1>1. /\ ~Unlocked /\ editor.new \in View /\ editor.old \in View /\ View \subseteq Req
      /\ row[editor.new].state = "absent" /\ row[editor.old].state # "absent"
  BY RequestAssumption DEF AccessInv, Base, EditorOK, ReplaceView
<1>2. PICK new \in View, old \in View : new = editor.new /\ old = editor.old
  BY <1>1
<1>3. \A r \in Req \ {new, old} : row'[r] = row[r]
  BY <1>2 DEF ReplaceView, AccessInv, Base, Shape
<1>4. UNCHANGED <<over, remote, policy>>
  BY DEF ReplaceView, database, clock, itsm
<1>5. \A r \in Req \ {new, old} : PageKept(r)
  BY <1>3, <1>4 DEF PageKept, Access
<1>6. row'[new].state = "pending" /\ row'[new] = NewRow("view")
  <2>1. row'[new] = NewRow("view") /\ "view" \in Kind
    BY <1>1, <1>2 DEF ReplaceView, AccessInv, Base, Shape, Kind
  <2> QED BY <2>1, NewRowShape DEF AccessInv, Base
<1>7. Begins(new)
  <2>1. new \in Req /\ Moves(new)
    BY <1>1 DEF RowsMove
  <2> QED BY <1>1, <1>2, <1>6, <2>1 DEF Moves, Stays, Kept, Ends, Begins, Grants, Finished
<1>8. row'[old].state \in Finished
  BY <1>1, <1>2, <1>7 DEF Begins
<1>9. row[old].state \in Open \/ PageKept(old)
  <2>1. ASSUME row[old].state \notin Open PROVE PageKept(old)
    <3>1. row[old].state \in Finished
      BY <1>1, <1>2, <2>1, Members DEF AccessInv, Base, Shape, RowShape
    <3>2. ~Access(old) /\ ~Access(old)'
      BY <1>8, <3>1 DEF Access, Finished
    <3> QED BY <1>8, <3>1, <3>2, StageValues DEF PageKept
  <2> QED BY <2>1
<1>10. \A r \in View \ {new} : row'[r].state \notin Open
  <2>1. \A r \in View \ {new, old} : row'[r].state \notin Open
    BY <1>1, <1>2, <1>3 DEF AccessInv, ViewsOK
  <2>2. row'[old].state \notin Open
    BY <1>8 DEF Open, Finished
  <2> QED BY <2>1, <2>2
<1>11. AccessBook!Ask(new) \/ AccessBook!AskView(new)
  BY <1>1, <1>4, <1>5, <1>7, <1>8, <1>9, <1>10, BookBegins
<1> QED BY <1>1, <1>11 DEF BookStep, AccessBook!Next

\* A changed policy, or a removal, ends the requests of its kind.
LEMMA PolicyBook ==
    ASSUME Base, NEW k \in Kind, NEW why \in Reasons, why # "no", InvalidateAll(k, why),
           policy' = [policy EXCEPT ![k] = @ + 1], UNCHANGED <<over, remote>>
    PROVE  BookStep
<1> DEFINE S == {r \in Req : AccessBook!KindOf(r) = k}
<1>1. \A r \in Req : r \in S <=> KindOf(r) = k
  BY SameKinds
<1>2. ASSUME NEW r \in Req
      PROVE  /\ row[r] \in RowShape
             /\ row'[r] = IF KindOf(r) = k THEN Invalidated(row[r], why) ELSE row[r]
  BY DEF Base, Shape, InvalidateAll
<1>3. ASSUME NEW r \in Req, row'[r] = row[r] PROVE PageKept(r)
  BY <1>3 DEF PageKept, Access
<1>4. ASSUME NEW r \in S
      PROVE  \/ row[r].state \in Open /\ row'[r].state \in Finished
             \/ row[r].state \notin Open /\ PageKept(r)
  <2>1. row[r] \in RowShape /\ row'[r] = Invalidated(row[r], why)
    BY <1>1, <1>2
  <2>2. "invalidated" \in Finished
    BY DEF Finished
  <2> QED BY <1>3, <2>1, <2>2, RowOperators
<1>5. \A r \in Req \ S : PageKept(r)
  BY <1>1, <1>2, <1>3
<1>6. S \in SUBSET Req
  OBVIOUS
<1> HIDE DEF S
<1>7. AccessBook!EndAll(S)
  BY <1>4, <1>5, <1>6, BookEndsAll
<1>8. Tickets' = Tickets
  BY NextPages DEF Tickets
<1>9. AccessBook!ChangePolicy(k)
  BY <1>7, <1>8 DEF AccessBook!ChangePolicy, S
<1> QED BY <1>9, SameKinds DEF BookStep, AccessBook!Next

\* What the book says of a ticket changes as people or the bastion may change it.
TicketTurns(r, x, y) ==
    \/ TicketStage(y) = TicketStage(x)
    \/ TicketStage(x) = "none" /\ TicketStage(y) = "open" /\ row[r].state # "absent"
    \/ TicketStage(x) = "open" /\ TicketStage(y) \in {"approved", "closed"}
    \/ TicketStage(x) \in {"none", "open"} /\ TicketStage(y) = "closed" /\ Over(r)

LEMMA OneTicketBook ==
    ASSUME UNCHANGED <<row, over, policy>>, NEW q \in Req, NEW y,
           remote' = [remote EXCEPT ![q] = y], Base, TicketTurns(q, remote[q], y)
    PROVE  BookStep
<1>1. Stage' = Stage /\ Active' = Active
  BY DEF Stage, Active, Access
<1>2. Tickets' = [Tickets EXCEPT ![q] = TicketStage(y)] /\ Tickets[q] = TicketStage(remote[q])
  BY NextPages DEF Tickets, Base, Shape
<1>3. CASE TicketStage(y) = TicketStage(remote[q])
  <2>1. Tickets' = Tickets
    BY <1>2, <1>3 DEF Tickets
  <2> QED BY <1>1, <2>1 DEF BookStep
<1>4. CASE Tickets[q] = "none" /\ TicketStage(y) = "open" /\ row[q].state # "absent"
  <2>1. Stage[q] # "absent"
    BY <1>4, Pages DEF StageOf
  <2>2. AccessBook!OpenTicket(q)
    BY <1>1, <1>2, <1>4, <2>1 DEF AccessBook!OpenTicket
  <2> QED BY <2>2 DEF BookStep, AccessBook!Next
<1>5. CASE Tickets[q] = "open" /\ TicketStage(y) \in {"approved", "closed"}
  <2>1. AccessBook!DecideTicket(q, TicketStage(y))
    BY <1>1, <1>2, <1>5 DEF AccessBook!DecideTicket
  <2> QED BY <1>5, <2>1 DEF BookStep, AccessBook!Next
<1>6. CASE Tickets[q] \in {"none", "open"} /\ TicketStage(y) = "closed" /\ Over(q)
  <2>1. Stage[q] = "ended"
    BY <1>6, Pages, StageValues DEF Over
  <2>2. AccessBook!CancelTicket(q)
    BY <1>1, <1>2, <1>6, <2>1 DEF AccessBook!CancelTicket
  <2> QED BY <2>2 DEF BookStep, AccessBook!Next
<1> QED BY <1>2, <1>3, <1>4, <1>5, <1>6 DEF TicketTurns

LEMMA ServedTurns ==
    ASSUME NEW r \in Req, remote[r] \in TicketShape, NEW op \in {"create", "cancel", "status"},
           row[r].state # "absent", op = "cancel" => Over(r)
    PROVE  TicketTurns(r, remote[r], Served(remote[r], op))
<1> PICK x \in TicketShape : x = remote[r]
  OBVIOUS
<1>1. CASE op = "create" /\ x.verdict = "none"
  <2>1. Served(x, op) = [x EXCEPT !.verdict = "open", !.id = TRUE]
    BY <1>1 DEF Served
  <2>2. Served(x, op).verdict = "open"
    BY <2>1 DEF TicketShape
  <2>3. TicketStage(x) = "none" /\ TicketStage(Served(x, op)) = "open"
    BY <1>1, <2>2 DEF TicketStage
  <2> QED BY <2>3 DEF TicketTurns
<1>2. CASE op = "cancel" /\ x.verdict \in {"none", "open"}
  <2>1. Served(x, op) = [x EXCEPT !.verdict = "cancelled", !.rev = 1]
    BY <1>2 DEF Served
  <2>2. Served(x, op).verdict = "cancelled"
    BY <2>1 DEF TicketShape
  <2>3. TicketStage(x) \in {"none", "open"} /\ TicketStage(Served(x, op)) = "closed"
    BY <1>2, <2>2 DEF TicketStage
  <2> QED BY <1>2, <2>3 DEF TicketTurns
<1>3. CASE /\ ~(op = "create" /\ x.verdict = "none")
           /\ ~(op = "cancel" /\ x.verdict \in {"none", "open"})
  <2>1. Served(x, op) = x
    BY <1>3 DEF Served
  <2> QED BY <2>1 DEF TicketTurns
<1> QED BY <1>1, <1>2, <1>3

\* The steps of the ITSM service.
LEMMA TicketsBook ==
    ASSUME AccessInv,
           \/ \E w \in Worker, served \in BOOLEAN : Call(w, served)
           \/ \E r \in Req, verdict \in Decision : Decide(r, verdict)
           \/ \E r \in Req, op \in {"create", "cancel"} : Arrive(r, op)
    PROVE  BookStep
<1> USE DEF AccessInv
<1>0. \A r \in Req : remote[r] \in TicketShape
  BY DEF Base, Shape
<1>1. ASSUME NEW w \in Worker, NEW served \in BOOLEAN, Call(w, served) PROVE BookStep
  <2> DEFINE x(r) == IF served THEN Served(remote[r], OperationOf(job[w])) ELSE remote[r]
  <2>1. /\ job[w].step \in {"call", "close"} /\ UNCHANGED <<row, over, policy>>
        /\ remote' = [remote EXCEPT ![job[w].req] = x(job[w].req)]
    BY <1>1 DEF Call, database, clock
  <2>2. PICK r \in Req : r = job[w].req
    BY <2>1, OperationFits
  <2>3. PICK op \in {"create", "cancel", "status"} : op = OperationOf(job[w])
    BY <2>1, OperationFits
  <2>4. row[r].state # "absent" /\ (op = "cancel" => Over(r))
    BY <2>1, <2>2, <2>3, OperationFits
  <2>5. TicketTurns(r, remote[r], Served(remote[r], op))
    BY <1>0, <2>4, ServedTurns
  <2>6. TicketTurns(r, remote[r], x(r))
    BY <2>3, <2>5 DEF TicketTurns
  <2>7. remote' = [remote EXCEPT ![r] = x(r)]
    BY <2>1, <2>2
  <2> HIDE DEF x
  <2> QED BY <2>1, <2>6, <2>7, OneTicketBook
<1>2. ASSUME NEW r \in Req, NEW verdict \in Decision, Decide(r, verdict) PROVE BookStep
  <2>1. PICK y : y = [id |-> remote[r].id, verdict |-> verdict, rev |-> remote[r].rev + 1,
                      late |-> IF verdict = "withdrawn" THEN remote[r].late ELSE due[r]]
    OBVIOUS
  <2>2. remote' = [remote EXCEPT ![r] = y] /\ UNCHANGED <<row, over, policy>>
    BY <1>2, <2>1 DEF Decide, database, clock
  <2>3. /\ y.verdict = verdict /\ (verdict = "withdrawn" => y.late = remote[r].late)
        /\ verdict \in {"approved", "unqualified", "rejected", "withdrawn"}
    BY <2>1, DecisionsAre
  <2>4. IF verdict = "withdrawn" THEN remote[r].verdict = "approved" ELSE remote[r].verdict = "open"
    BY <1>2 DEF Decide
  <2>5. CASE verdict = "withdrawn"
    <3>1. TicketStage(y) = TicketStage(remote[r])
      BY <2>3, <2>4, <2>5 DEF TicketStage
    <3> QED BY <2>2, <3>1, OneTicketBook DEF TicketTurns
  <2>6. CASE verdict # "withdrawn"
    <3>1. TicketStage(remote[r]) = "open" /\ TicketStage(y) \in {"approved", "closed"}
      BY <2>3, <2>4, <2>6 DEF TicketStage
    <3> QED BY <2>2, <3>1, OneTicketBook DEF TicketTurns
  <2> QED BY <2>5, <2>6
<1>3. ASSUME NEW r \in Req, NEW op \in {"create", "cancel"}, Arrive(r, op) PROVE BookStep
  <2>1. /\ <<r, op>> \in late /\ remote' = [remote EXCEPT ![r] = Served(remote[r], op)]
        /\ UNCHANGED <<row, over, policy>>
    BY <1>3 DEF Arrive, database, clock
  <2>2. row[r].state # "absent" /\ (op = "cancel" => Over(r))
    BY <2>1 DEF LateOK, Over, Finished
  <2>3. TicketTurns(r, remote[r], Served(remote[r], op))
    BY <1>0, <2>2, ServedTurns
  <2> QED BY <2>1, <2>3, OneTicketBook
<1> QED BY <1>1, <1>2, <1>3

LEMMA PeriodBook ==
    ASSUME Base, NEW q \in Req, PeriodOver(q)
    PROVE  BookStep
<1>1. UNCHANGED <<row, remote, policy>> /\ over' = [over EXCEPT ![q] = TRUE]
  BY DEF PeriodOver, database, itsm
<1>2. over'[q] /\ \A r \in Req \ {q} : over'[r] = over[r]
  BY <1>1 DEF Base, Shape
<1>3. \A r \in Req \ {q} : Access(r)' <=> Access(r)
  BY <1>1, <1>2 DEF Access
<1>4. ~Access(q)'
  BY <1>2 DEF Access
<1>5. Stage' = Stage /\ Tickets' = Tickets
  BY <1>1 DEF Stage, Tickets
<1>6. Active' = Active \ {q}
  BY <1>3, <1>4, NextPages, Pages
<1>7. CASE q \in Active
  BY <1>1, <1>5, <1>6, <1>7 DEF AccessBook!Lapse, BookStep, AccessBook!Next
<1>8. CASE q \notin Active
  BY <1>1, <1>5, <1>6, <1>8 DEF BookStep
<1> QED BY <1>7, <1>8

\* A step that rewrites one row, and nothing else that the book shows.
OneRow ==
    /\ UNCHANGED <<over, remote, policy, editor>>
    /\ \E q \in Req : \A r \in Req \ {q} : row'[r] = row[r]

LEMMA RowRewritten ==
    ASSUME Shape, NEW q \in Req, NEW y, row' = [row EXCEPT ![q] = y],
           UNCHANGED <<over, remote, policy, editor>>
    PROVE  OneRow
  BY DEF OneRow, Shape

LEMMA OperatorsOneRow ==
    ASSUME Shape, NEW q \in Req, Create(q) \/ CreateView(q) \/ Cancel(q) \/ RetrySync(q)
    PROVE  OneRow
<1>1. UNCHANGED <<over, remote, policy, editor>>
  BY DEF Create, CreateView, Cancel, RetrySync, database, clock, itsm
<1>2. \E y : row' = [row EXCEPT ![q] = y]
  BY DEF Create, CreateView, Cancel, RetrySync
<1> QED BY <1>1, <1>2, RowRewritten

LEMMA WorkersOneRow ==
    ASSUME Base, NEW w \in Worker,
           \/ \E r \in Req : Claim(w, r)
           \/ ExpireFirst(w) \/ Bind(w) \/ Accept(w) \/ Settle(w) \/ Finish(w)
    PROVE  OneRow
<1>1. UNCHANGED <<over, remote, policy, editor>>
  BY DEF Claim, ExpireFirst, Bind, Accept, Settle, Finish, database, clock, itsm
<1>2. ASSUME NEW r \in Req, Claim(w, r) PROVE OneRow
  <2>1. \E y : row' = [row EXCEPT ![r] = y]
    BY <1>2 DEF Claim
  <2> QED BY <1>1, <2>1, RowRewritten DEF Base
<1>3. CASE ExpireFirst(w) \/ Bind(w) \/ Accept(w) \/ Settle(w) \/ Finish(w)
  <2>1. PICK q \in Req : q = job[w].req
    BY <1>3 DEF ExpireFirst, Bind, Accept, Settle, Finish, Base, AnswersOK, JobOK
  <2>2. CASE row' = row
    BY <1>1, <2>2 DEF OneRow
  <2>3. CASE \E y : row' = [row EXCEPT ![q] = y]
    BY <1>1, <2>3, RowRewritten DEF Base
  <2>4. row' = row \/ \E y : row' = [row EXCEPT ![q] = y]
    <3>1. CASE ExpireFirst(w) \/ Settle(w)
      BY <2>1, <3>1 DEF ExpireFirst, Settle
    <3>2. CASE Bind(w)
      BY <2>1, <3>2 DEF Bind
    <3>3. CASE Accept(w)
      BY <2>1, <3>3 DEF Accept
    <3>4. CASE Finish(w)
      BY <2>1, <3>4 DEF Finish
    <3> QED BY <1>3, <3>1, <3>2, <3>3, <3>4
  <2> QED BY <2>2, <2>3, <2>4
<1> QED BY <1>2, <1>3

LEMMA BookUnseen ==
    ASSUME UNCHANGED <<row, over, remote, policy>>
    PROVE  BookStep
  BY DEF BookStep, Stage, Active, Tickets, Access

LEMMA AccessStep ==
    ASSUME AccessInv, [Next]_vars
    PROVE  BookStep
<1> USE DEF AccessInv
<1>1. RowsMove
  BY NextMoves
<1>2. CASE OneRow
  BY <1>1, <1>2, OneRowBook DEF OneRow
<1>3. CASE UNCHANGED <<row, over, remote, policy>>
  BY <1>3, BookUnseen
<1>4. ASSUME NEW w \in Worker, WorkerStep(w) PROVE BookStep
  <2>1. CASE Load(w)
    BY <1>3, <2>1 DEF Load, database, clock, itsm
  <2>2. CASE \E served \in BOOLEAN : Call(w, served)
    BY <2>2, TicketsBook
  <2>3. CASE \/ \E r \in Req : Claim(w, r)
             \/ ExpireFirst(w) \/ Bind(w) \/ Accept(w) \/ Settle(w) \/ Finish(w)
    BY <1>2, <2>3, WorkersOneRow
  <2> QED BY <1>4, <2>1, <2>2, <2>3, Zenon DEF WorkerStep
<1>5. CASE Trouble
  BY <1>3, <1>5 DEF Trouble, Fail, Crash, CallFails, database, clock, itsm
<1>6. CASE Operators
  <2>1. ASSUME NEW r \in Req, Create(r) \/ CreateView(r) \/ Cancel(r) \/ RetrySync(r) PROVE BookStep
    BY <1>2, <2>1, OperatorsOneRow DEF Base
  <2>2. ASSUME NEW r \in Req, NEW old \in Req, ReadOpenView(r, old) PROVE BookStep
    BY <1>3, <2>2 DEF ReadOpenView, database, clock, itsm
  <2>3. CASE ReplaceView
    BY <1>1, <2>3, ReplaceBook
  <2> QED BY <1>6, <2>1, <2>2, <2>3, Zenon DEF Operators
<1>7. CASE Administration
  <2>1. ASSUME NEW r \in Req, NEW on \in BOOLEAN, SavePolicy(KindOf(r), on) PROVE BookStep
    <3>1. "policy" \in Reasons /\ KindOf(r) \in Kind
      BY Members, Kinds
    <3>2. /\ policy' = [policy EXCEPT ![KindOf(r)] = @ + 1] /\ UNCHANGED <<over, remote>>
          /\ InvalidateAll(KindOf(r), "policy")
      BY <2>1 DEF SavePolicy, clock, itsm
    <3> QED BY <3>1, <3>2, PolicyBook
  <2>2. CASE RemoveManagement
    <3>1. "management" \in Reasons /\ "connect" \in Kind
      BY Members DEF Kind
    <3>2. /\ policy' = [policy EXCEPT !["connect"] = @ + 1] /\ UNCHANGED <<over, remote>>
          /\ InvalidateAll("connect", "management")
      BY <2>2 DEF RemoveManagement, clock, itsm
    <3> QED BY <3>1, <3>2, PolicyBook
  <2>3. CASE Adopt \/ \E r \in Req : EditScope(KindOf(r)) \/ SetAvailable(KindOf(r))
    BY <1>3, <2>3 DEF Adopt, EditScope, SetAvailable, clock, itsm
  <2> QED BY <1>7, <2>1, <2>2, <2>3, Zenon DEF Administration
<1>8. CASE Environment
  <2>1. ASSUME NEW r \in Req, RequestDue(r) PROVE BookStep
    BY <1>3, <2>1 DEF RequestDue, database, itsm
  <2>2. ASSUME NEW r \in Req, PeriodOver(r) PROVE BookStep
    BY <2>2, PeriodBook
  <2>3. ASSUME NEW r \in Req, LeaseExpires(r) PROVE BookStep
    <3>1. /\ UNCHANGED <<over, remote, policy, editor>>
          /\ row' = [row EXCEPT ![r] = [row[r] EXCEPT !.lease = "expired"]]
      BY <2>3 DEF LeaseExpires, database, clock, itsm
    <3> QED BY <1>2, <3>1, RowRewritten DEF Base
  <2>4. CASE \/ \E r \in Req, verdict \in Decision : Decide(r, verdict)
             \/ \E r \in Req, op \in {"create", "cancel"} : Arrive(r, op)
    BY <2>4, TicketsBook
  <2> QED BY <1>8, <2>1, <2>2, <2>3, <2>4, Zenon DEF Environment
<1>9. CASE UNCHANGED vars
  BY <1>3, <1>9 DEF vars, database, clock, itsm
<1> QED BY <1>4, <1>5, <1>6, <1>7, <1>8, <1>9 DEF Next

LEMMA AccessInit == Init => AccessBook!Init
<1> SUFFICES ASSUME Init PROVE AccessBook!Init
  OBVIOUS
<1>1. \A r \in Req : row[r] = Absent /\ remote[r] = NoTicket
  BY DEF Init
<1>2. Stage = [r \in Req |-> "absent"]
  BY <1>1 DEF Stage, StageOf, Absent, Finished
<1>3. Active = {}
  BY <1>1 DEF Active, Access, Absent
<1>4. Tickets = [r \in Req |-> "none"]
  BY <1>1 DEF Tickets, TicketStage, NoTicket
<1>5. policy = [k \in AccessBook!Kind |-> 1]
  BY SameKinds DEF Init
<1> QED BY <1>2, <1>3, <1>4, <1>5 DEF AccessBook!Init

\* PAMRequest!ImplementsAccess: whatever workers do on stale copies, with calls lost or
\* late and leases that ran out, a request is approved once and on a ticket approved in
\* time, ends with its policy, its successor or its period, for good, and its ticket is
\* cancelled only then.
THEOREM ImplementsAccessHolds == Spec => ImplementsAccess
<1>1. AccessInv /\ [Next]_vars => [AccessBook!Next]_<<Stage, Active, Tickets, policy>>
  BY AccessStep DEF BookStep
<1> QED
  BY <1>1, AccessInvInit, AccessInvStep, AccessInit, PTL
     DEF Spec, ImplementsAccess, AccessBook!Spec, AccessBook!vars

-----------------------------------------------------------------------------
(* The types, and with them the bounds of the counters.                    *)

\* How often a synchronization can have failed: after the last time only a retry or
\* the end of the request starts it again, and the end does so once.
Tried(x) ==
    /\ x.policy \in 0 .. MaxRevision /\ x.scope \in 0 .. MaxRevision
    /\ x.attempts \in 0 .. MaxAttempts + 1
    /\ x.attempts = MaxAttempts + 1 => x.state \notin Open /\ x.sync = "failed"
    /\ x.attempts = MaxAttempts /\ x.state \in Open => x.sync = "failed"
    /\ x.owner # None => x.sync = "running"

\* Who holds the lease of a request counts on from what the row says.
Counts(j, w) ==
    IF j.step = "idle" THEN j = Idle
    ELSE /\ j.attempts \in 0 .. MaxAttempts
         /\ row[j.req].owner = w => j.attempts = row[j.req].attempts

DatabaseType ==
    /\ policy \in [Kind -> 1 .. MaxRevision] /\ scope \in [Kind -> 1 .. MaxRevision]
    /\ allow \in [Kind -> BOOLEAN] /\ managed \in BOOLEAN /\ available \in [Kind -> BOOLEAN]
    /\ late \subseteq Req \X {"create", "cancel"}

EditorPair == [new : Req \cup {None}, old : Req \cup {None}, copy : RowShape]

EditorType ==
    /\ editor \in EditorPair
    /\ Tried(editor.copy) /\ editor.copy.provider \in 0 .. 2

RowsTried == \A r \in Req : Tried(row[r])
JobsCount == \A w \in Worker : Counts(job[w], w)
Revisions == \A r \in Req : remote[r].rev \in 0 .. 2

TypeInv ==
    AccessInv /\ DatabaseType /\ EditorType /\ RowsTried /\ JobsCount /\ Revisions

\* What of a row the synchronization is about, and what it pins.
Work(x) == <<x.policy, x.scope, x.sync, x.owner, x.attempts>>

\* The same work for a request that does not open again.
SameWork(x, y) == Work(y) = Work(x) /\ (y.state \in Open => x.state \in Open)

\* What a step makes of the work: a worker owns it only if it did before, or was idle,
\* and counts on from what the row says.
Works(r, y) ==
    /\ Tried(y)
    /\ \A w \in Worker : y.owner = w =>
          y.attempts = row[r].attempts /\ (row[r].owner = w \/ job[w].step = "idle")

RowsWork == \A r \in Req : Works(r, row'[r])

LEMMA WorkIs ==
    ASSUME NEW x, NEW y, Work(y) = Work(x)
    PROVE  /\ y.policy = x.policy /\ y.scope = x.scope /\ y.sync = x.sync
           /\ y.owner = x.owner /\ y.attempts = x.attempts
  BY DEF Work

LEMMA SameWorks ==
    ASSUME NEW r \in Req, Tried(row[r]), NEW y, SameWork(row[r], y)
    PROVE  Works(r, y)
<1>1. /\ y.policy = row[r].policy /\ y.scope = row[r].scope /\ y.sync = row[r].sync
      /\ y.owner = row[r].owner /\ y.attempts = row[r].attempts
      /\ y.state \in Open => row[r].state \in Open
  BY WorkIs DEF SameWork
<1>2. Tried(y)
  BY <1>1 DEF Tried
<1> QED BY <1>1, <1>2 DEF Works

\* A synchronization that begins anew.
LEMMA FreshWorks ==
    ASSUME NEW r \in Req, NEW y, y.policy \in 0 .. MaxRevision, y.scope \in 0 .. MaxRevision,
           y.sync = "pending", y.owner = None, y.attempts = 0
    PROVE  Works(r, y)
<1>1. MaxAttempts \in Nat /\ MaxAttempts # 0
  BY AttemptAssumption
<1>2. Tried(y)
  BY <1>1 DEF Tried
<1>3. \A w \in Worker : w # None
  BY RequestAssumption
<1> QED BY <1>2, <1>3 DEF Works

LEMMA OneWorks ==
    ASSUME Shape, RowsTried, NEW q \in Req, NEW y, Works(q, y), row' = [row EXCEPT ![q] = y]
    PROVE  RowsWork
<1> SUFFICES ASSUME NEW r \in Req PROVE Works(r, row'[r])
  BY DEF RowsWork
<1>1. row'[r] = IF r = q THEN y ELSE row[r]
  BY DEF Shape
<1>2. Works(r, row[r])
  BY SameWorks DEF SameWork, RowsTried
<1> QED BY <1>1, <1>2

LEMMA NoneWorks ==
    ASSUME RowsTried, row' = row PROVE RowsWork
  BY SameWorks DEF RowsWork, SameWork, RowsTried

\* What the operators of the model make of the work.
LEMMA StateWork ==
    ASSUME NEW x \in RowShape, NEW state \in States
    PROVE  \E y \in RowShape :
               y = [x EXCEPT !.state = state] /\ y.state = state /\ Work(y) = Work(x)
<1> DEFINE y == [x EXCEPT !.state = state]
<1>1. y \in RowShape /\ y.state = state
  BY DEF RowShape
<1>2. Work(y) = Work(x)
  BY DEF RowShape, Work
<1> QED BY <1>1, <1>2

LEMMA ScheduledWork ==
    ASSUME NEW x \in RowShape
    PROVE  \E y \in RowShape :
               /\ y = Scheduled(x) /\ y.policy = x.policy /\ y.scope = x.scope
               /\ y.sync = "pending" /\ y.owner = None /\ y.attempts = 0
<1>1. "cancel" \in Reasons /\ "cancel" # "no"
  BY Members
<1>2. Scheduled(x) \in RowShape
  BY <1>1, RowOperators
<1>3. /\ Scheduled(x).policy = x.policy /\ Scheduled(x).scope = x.scope
      /\ Scheduled(x).sync = "pending" /\ Scheduled(x).owner = None /\ Scheduled(x).attempts = 0
  BY DEF Scheduled, RowShape
<1> QED BY <1>2, <1>3

LEMMA RevokedWork ==
    ASSUME NEW x \in RowShape, NEW why \in Reasons, why # "no"
    PROVE  \E y \in RowShape :
               y = Revoked(x, why) /\ y.state = x.state /\ Work(y) = Work(x)
<1>1. Revoked(x, why) \in RowShape /\ Revoked(x, why).state = x.state
  BY RowOperators
<1>2. Work(Revoked(x, why)) = Work(x)
  BY DEF Revoked, RowShape, Work
<1> QED BY <1>1, <1>2

LEMMA NewRowWorks ==
    ASSUME Shape, DatabaseType, NEW r \in Req, NEW k \in Kind
    PROVE  Works(r, NewRow(k))
<1>1. /\ policy[k] \in 0 .. MaxRevision /\ scope[k] \in 0 .. MaxRevision
      /\ policy[k] \in Nat /\ scope[k] \in Nat
  BY AttemptAssumption DEF DatabaseType
<1>2. PICK x : x = [Absent EXCEPT !.state = "pending", !.policy = policy[k], !.scope = scope[k]]
  OBVIOUS
<1>2a. "pending" \in States
  BY Members
<1>2b. x \in RowShape /\ x.policy = policy[k] /\ x.scope = scope[k]
  BY <1>1, <1>2, <1>2a, AbsentShape DEF RowShape
<1>3. PICK y \in RowShape : /\ y = Scheduled(x) /\ y.policy = x.policy /\ y.scope = x.scope
                            /\ y.sync = "pending" /\ y.owner = None /\ y.attempts = 0
  BY <1>2b, ScheduledWork
<1>4. NewRow(k) = y
  BY <1>2, <1>3 DEF NewRow
<1> QED BY <1>1, <1>2b, <1>3, <1>4, FreshWorks

LEMMA ExpiredWork ==
    ASSUME Shape, NEW r \in Req
    PROVE  SameWork(row[r], Expired(r))
<1>1. /\ row[r] \in RowShape /\ "expired" \in States
      /\ "expired" \in Reasons /\ "expired" # "no"
  BY Members DEF Shape
<1>2. CASE Expired(r) = row[r]
  BY <1>2 DEF SameWork
<1>3. CASE Expired(r) = Revoked([row[r] EXCEPT !.state = "expired"], "expired")
  <2>1. PICK y \in RowShape : /\ y = [row[r] EXCEPT !.state = "expired"] /\ y.state = "expired"
                              /\ Work(y) = Work(row[r])
    BY <1>1, StateWork, Zenon
  <2>2. PICK z \in RowShape : z = Revoked(y, "expired") /\ z.state = y.state /\ Work(z) = Work(y)
    BY <1>1, RevokedWork
  <2>3. Expired(r) = z /\ z.state \notin Open
    BY <1>3, <2>1, <2>2 DEF Open
  <2> QED BY <2>1, <2>2, <2>3 DEF SameWork
<1> QED BY <1>2, <1>3 DEF Expired

LEMMA InvalidatedWorks ==
    ASSUME Shape, RowsTried, NEW r \in Req, NEW why \in Reasons
    PROVE  Works(r, Invalidated(row[r], why))
<1>1. row[r] \in RowShape /\ Tried(row[r])
  BY DEF Shape, RowsTried
<1>2. CASE row[r].state \in Open
  <2>1. PICK y : y = Invalidated(row[r], why)
    OBVIOUS
  <2>2. /\ y.policy = row[r].policy /\ y.scope = row[r].scope /\ y.attempts = row[r].attempts
        /\ y.sync = "pending" /\ y.owner = None /\ y.state = "invalidated"
    BY <1>1, <1>2, <2>1 DEF Invalidated, RowShape
  <2>3. y.state \notin Open
    BY <2>2 DEF Open
  <2>4. y.attempts # MaxAttempts + 1
    BY <1>1, <1>2, <2>2 DEF Tried
  <2>5. Tried(y)
    BY <1>1, <2>2, <2>3, <2>4 DEF Tried
  <2>6. \A w \in Worker : w # None
    BY RequestAssumption
  <2> QED BY <2>1, <2>2, <2>5, <2>6 DEF Works
<1>3. CASE row[r].state \notin Open
  <2>1. Invalidated(row[r], why) = row[r]
    BY <1>3 DEF Invalidated
  <2> QED BY <1>1, <2>1, SameWorks DEF SameWork
<1> QED BY <1>2, <1>3

LEMMA OperatorsWork ==
    ASSUME Base, DatabaseType, EditorType, RowsTried, Operators \/ Administration
    PROVE  RowsWork
<1> USE DEF Base
<1>0. \A x \in {"cancel", "scope", "policy", "management"} : x \in Reasons
  BY Members
<1>1. ASSUME NEW r \in Req, NEW k \in Kind, row' = [row EXCEPT ![r] = NewRow(k)] PROVE RowsWork
  BY <1>1, NewRowWorks, OneWorks
<1>2. ASSUME NEW r \in Req, Create(r) \/ CreateView(r) PROVE RowsWork
  BY <1>1, <1>2 DEF Create, CreateView, Kind
<1>3. ASSUME NEW r \in Req, NEW z, z.policy = row[r].policy, z.scope = row[r].scope,
             z.sync = "pending", z.owner = None, z.attempts = 0, row' = [row EXCEPT ![r] = z]
      PROVE  RowsWork
  <2>1. z.policy \in 0 .. MaxRevision /\ z.scope \in 0 .. MaxRevision
    BY <1>3 DEF RowsTried, Tried
  <2>2. Works(r, z)
    BY <1>3, <2>1, FreshWorks
  <2> QED BY <1>3, <2>2, OneWorks
<1>4. ASSUME NEW r \in Req, Cancel(r) PROVE RowsWork
  <2>1. row[r] \in RowShape /\ "cancelled" \in States /\ "cancel" \in Reasons /\ "cancel" # "no"
    BY <1>0, Members DEF Shape
  <2>2. PICK y \in RowShape : /\ y = [row[r] EXCEPT !.state = "cancelled"] /\ y.state = "cancelled"
                              /\ Work(y) = Work(row[r])
    BY <2>1, StateWork
  <2>3. PICK u \in RowShape : /\ u = Scheduled(y) /\ u.policy = y.policy /\ u.scope = y.scope
                              /\ u.sync = "pending" /\ u.owner = None /\ u.attempts = 0
    BY ScheduledWork
  <2>4. PICK z \in RowShape : /\ z = Revoked(u, "cancel") /\ z.state = u.state
                              /\ Work(z) = Work(u)
    BY <2>1, RevokedWork
  <2>5. row' = [row EXCEPT ![r] = z]
    BY <1>4, <2>2, <2>3, <2>4 DEF Cancel
  <2>6. y.policy = row[r].policy /\ y.scope = row[r].scope
    BY <2>2, WorkIs
  <2>7. /\ z.policy = u.policy /\ z.scope = u.scope /\ z.sync = u.sync
        /\ z.owner = u.owner /\ z.attempts = u.attempts
    BY <2>4, WorkIs
  <2> QED BY <1>3, <2>3, <2>5, <2>6, <2>7
<1>5. ASSUME NEW r \in Req, RetrySync(r) PROVE RowsWork
  <2>1. row[r] \in RowShape /\ row' = [row EXCEPT ![r] = Scheduled(row[r])]
    BY <1>5 DEF RetrySync, Shape
  <2>2. PICK u \in RowShape : /\ u = Scheduled(row[r])
                              /\ u.policy = row[r].policy /\ u.scope = row[r].scope
                              /\ u.sync = "pending" /\ u.owner = None /\ u.attempts = 0
    BY <2>1, ScheduledWork
  <2> QED BY <1>3, <2>1, <2>2
<1>6. CASE ReplaceView
  <2> DEFINE new == editor.new
             old == editor.old
  <2>1. /\ new \in Req /\ old \in Req /\ new # old /\ "view" \in Kind
        /\ "invalidated" \in States /\ "scope" \in Reasons /\ "scope" # "no"
        /\ editor.copy \in RowShape /\ Tried(editor.copy)
    BY <1>0, <1>6, RequestAssumption, Members DEF ReplaceView, EditorOK, Kind, Shape, EditorType
  <2>2. PICK y \in RowShape : /\ y = [editor.copy EXCEPT !.state = "invalidated"]
                              /\ y.state = "invalidated" /\ Work(y) = Work(editor.copy)
    BY <2>1, StateWork
  <2>3. PICK u \in RowShape : /\ u = Scheduled(y) /\ u.policy = y.policy /\ u.scope = y.scope
                              /\ u.sync = "pending" /\ u.owner = None /\ u.attempts = 0
    BY ScheduledWork
  <2>4. PICK z \in RowShape : /\ z = Revoked(u, "scope") /\ z.state = u.state
                              /\ Work(z) = Work(u)
    BY <2>1, RevokedWork
  <2>5. row' = [row EXCEPT ![old] = z, ![new] = NewRow("view")]
    BY <1>6, <2>2, <2>3, <2>4 DEF ReplaceView
  <2>6. y.policy = editor.copy.policy /\ y.scope = editor.copy.scope
    BY <2>2, WorkIs
  <2>7. /\ z.policy = u.policy /\ z.scope = u.scope /\ z.sync = u.sync
        /\ z.owner = u.owner /\ z.attempts = u.attempts
    BY <2>4, WorkIs
  <2>8. z.policy \in 0 .. MaxRevision /\ z.scope \in 0 .. MaxRevision
    BY <2>1, <2>3, <2>6, <2>7 DEF Tried
  <2>9. Works(old, z) /\ Works(new, NewRow("view"))
    BY <2>1, <2>3, <2>7, <2>8, FreshWorks, NewRowWorks
  <2>10. ASSUME NEW r \in Req PROVE Works(r, row'[r])
    <3>1. row'[r] = IF r = new THEN NewRow("view") ELSE IF r = old THEN z ELSE row[r]
      BY <2>1, <2>5 DEF Shape
    <3>2. Works(r, row[r])
      BY SameWorks DEF SameWork, RowsTried
    <3> QED BY <2>9, <3>1, <3>2
  <2> QED BY <2>10 DEF RowsWork
<1>7. ASSUME NEW k, NEW why \in Reasons, InvalidateAll(k, why) PROVE RowsWork
  <2>1. ASSUME NEW r \in Req PROVE Works(r, row'[r])
    <3>1. row'[r] \in {row[r], Invalidated(row[r], why)}
      BY <1>7 DEF InvalidateAll
    <3>2. Works(r, row[r])
      BY SameWorks DEF SameWork, RowsTried
    <3> QED BY <3>1, <3>2, InvalidatedWorks
  <2> QED BY <2>1 DEF RowsWork
<1>8. ASSUME NEW r \in Req, NEW on \in BOOLEAN, SavePolicy(KindOf(r), on) PROVE RowsWork
  BY <1>0, <1>7, <1>8 DEF SavePolicy
<1>9. CASE RemoveManagement
  BY <1>0, <1>7, <1>9 DEF RemoveManagement
<1>10. ASSUME NEW r \in Req, EditScope(KindOf(r)) \/ SetAvailable(KindOf(r)) PROVE RowsWork
  BY <1>10, NoneWorks DEF EditScope, SetAvailable
<1>11. ASSUME NEW r \in Req, NEW old \in Req, ReadOpenView(r, old) PROVE RowsWork
  BY <1>11, NoneWorks DEF ReadOpenView
<1>12. CASE Adopt
  BY <1>12, NoneWorks DEF Adopt
<1> QED
  BY <1>2, <1>4, <1>5, <1>6, <1>8, <1>9, <1>10, <1>11, <1>12 DEF Operators, Administration

LEMMA DecidedWork ==
    ASSUME Shape, NEW r \in Req, NEW t \in TicketShape, t.verdict \notin {"none", "open"},
           ~(row[r].state = "pending" /\ t.verdict = "unqualified"), row[r].state # "absent"
    PROVE  SameWork(row[r], Decided(r, t))
<1>1. row[r] \in RowShape /\ t.rev \in Nat
  BY DEF Shape, TicketShape
<1>2. PICK x : x = [row[r] EXCEPT !.provider = t.rev]
  OBVIOUS
<1>3. x \in RowShape /\ x.state = row[r].state
  BY <1>1, <1>2 DEF RowShape
<1>4. Work(x) = Work(row[r])
  BY <1>1, <1>2 DEF RowShape, Work
<1>5. CASE Decided(r, t) = x
  BY <1>3, <1>4, <1>5 DEF SameWork
<1>6. CASE x.state = "pending" /\ t.verdict = "approved"
  <2>1. \/ \E state \in {"expired", "invalidated"} : Decided(r, t) = [x EXCEPT !.state = state]
        \/ Decided(r, t) = [x EXCEPT !.state = "approved", !.granted = TRUE]
    BY <1>2, <1>6 DEF Decided, Open
  <2>2. PICK y : y = Decided(r, t)
    OBVIOUS
  <2>3. Work(y) = Work(x)
    BY <1>3, <2>1, <2>2 DEF RowShape, Work
  <2> QED BY <1>3, <1>4, <1>6, <2>2, <2>3 DEF SameWork, Open
<1>7. CASE x.state \in Open /\ t.verdict \in Final
  <2>1. PICK st \in {"rejected", "cancelled"} :
           Decided(r, t) = Revoked([x EXCEPT !.state = st], "itsm")
    BY <1>2, <1>3, <1>7 DEF Decided, Open, Final
  <2>2. st \notin Open /\ st \in States /\ "itsm" \in Reasons /\ "itsm" # "no"
    BY Members DEF Open
  <2>3. PICK y \in RowShape : y = [x EXCEPT !.state = st] /\ y.state = st /\ Work(y) = Work(x)
    BY <1>3, <2>2, StateWork
  <2>4. PICK z \in RowShape : z = Revoked(y, "itsm") /\ z.state = y.state /\ Work(z) = Work(y)
    BY <2>2, RevokedWork
  <2> QED BY <1>4, <2>1, <2>2, <2>3, <2>4 DEF SameWork
<1>8. x.state \notin Open \/ (x.state = "approved" /\ t.verdict \in {"approved", "unqualified"})
      => Decided(r, t) = x
  BY <1>2, <1>3 DEF Decided, Open
<1>9. t.verdict \in Verdicts
  BY DEF TicketShape
<1> QED BY <1>3, <1>5, <1>6, <1>7, <1>8, <1>9 DEF Open, Verdicts, Final

\* A worker writes its result: it counts what failed, and gives up at the bound.
LEMMA FinishWorks ==
    ASSUME Base, RowsTried, JobsCount, NEW w \in Worker, job[w].step # "idle",
           NEW r \in Req, r = job[w].req, row[r].owner = w,
           NEW y, y.policy = row[r].policy, y.scope = row[r].scope, y.state = row[r].state,
           y.owner = None,
           \/ y.attempts = 0
           \/ /\ y.attempts = job[w].attempts + 1
              /\ y.attempts >= MaxAttempts => y.sync = "failed"
    PROVE  Works(r, y)
<1>1. row[r] \in RowShape /\ Tried(row[r]) /\ MaxAttempts \in Nat /\ MaxAttempts # 0
  BY AttemptAssumption DEF Base, Shape, RowsTried
<1>2. w # None
  BY RequestAssumption
<1>3. row[r].sync = "running" /\ job[w].attempts = row[r].attempts
  BY <1>1, <1>2 DEF Tried, JobsCount, Counts
<1>4. /\ row[r].attempts \in 0 .. MaxAttempts
      /\ row[r].state \in Open => row[r].attempts # MaxAttempts
  BY <1>1, <1>3 DEF Tried
<1>5. CASE /\ y.attempts = job[w].attempts + 1
           /\ y.attempts >= MaxAttempts => y.sync = "failed"
  <2>1. y.attempts = row[r].attempts + 1
    BY <1>3, <1>5
  <2>2. y.attempts \in 0 .. MaxAttempts + 1
    BY <1>1, <1>4, <2>1
  <2>3. y.attempts >= MaxAttempts => y.sync = "failed"
    BY <1>5
  <2>4. y.attempts = MaxAttempts + 1 => y.state \notin Open
    BY <1>1, <1>4, <2>1
  <2>5. Tried(y)
    BY <1>1, <2>2, <2>3, <2>4 DEF Tried
  <2> QED BY <2>5, RequestAssumption DEF Works
<1>6. CASE y.attempts = 0
  <2>1. Tried(y)
    BY <1>1, <1>6 DEF Tried
  <2> QED BY <2>1, RequestAssumption DEF Works
<1> QED BY <1>5, <1>6

LEMMA WorkersWork ==
    ASSUME Base, DoneInv, RowsTried, JobsCount,
           (\E w \in Worker : WorkerStep(w)) \/ Trouble \/ Environment \/ UNCHANGED vars
    PROVE  RowsWork
<1> USE DEF Base
<1>1. ASSUME NEW r \in Req, NEW y, SameWork(row[r], y), row' = [row EXCEPT ![r] = y]
      PROVE  RowsWork
  <2>1. Works(r, y)
    BY <1>1, SameWorks DEF RowsTried
  <2> QED BY <1>1, <2>1, OneWorks
<1>2. ASSUME NEW w \in Worker, NEW r \in Req, Claim(w, r) PROVE RowsWork
  <2>1. PICK y : y = [row[r] EXCEPT !.sync = "running", !.owner = w, !.lease = "held"]
    OBVIOUS
  <2>2. /\ row[r] \in RowShape /\ Tried(row[r]) /\ job[w].step = "idle"
        /\ row[r].sync # "failed" /\ row' = [row EXCEPT ![r] = y]
    BY <1>2, <2>1 DEF Claim, Shape, RowsTried
  <2>3. /\ y.policy = row[r].policy /\ y.scope = row[r].scope /\ y.state = row[r].state
        /\ y.owner = w /\ y.sync = "running" /\ y.attempts = row[r].attempts
    BY <2>1, <2>2 DEF RowShape
  <2>4. Tried(y)
    BY <2>2, <2>3 DEF Tried
  <2>5. Works(r, y)
    BY <2>2, <2>3, <2>4 DEF Works
  <2> QED BY <2>2, <2>5, OneWorks
<1>3. ASSUME NEW w \in Worker, ExpireFirst(w) \/ Settle(w) PROVE RowsWork
  <2>1. job[w].req \in Req /\ row' = [row EXCEPT ![job[w].req] = Expired(job[w].req)]
    BY <1>3, BusyJob DEF ExpireFirst, Settle
  <2> QED BY <1>1, <2>1, ExpiredWork
<1>4. ASSUME NEW w \in Worker, Bind(w) PROVE RowsWork
  <2>1. PICK r \in Req : r = job[w].req /\ row[r] \in RowShape
    BY <1>4, BusyJob DEF Bind, Shape
  <2>2. PICK y : y = [row[r] EXCEPT !.ticket = TRUE]
    OBVIOUS
  <2>3. SameWork(row[r], y)
    BY <2>1, <2>2 DEF SameWork, Work, RowShape
  <2>4. row' = [row EXCEPT ![r] = y]
    BY <1>4, <2>1, <2>2 DEF Bind
  <2> QED BY <1>1, <2>3, <2>4
<1>5. ASSUME NEW w \in Worker, Finish(w) PROVE RowsWork
  <2>1. PICK r \in Req : r = job[w].req
    BY <1>5, BusyJob DEF Finish
  <2>2. CASE row[r].owner # w
    BY <1>5, <2>1, <2>2, NoneWorks DEF Finish
  <2>3. CASE row[r].owner = w
    <3> DEFINE failed == job[w].step = "fail"
    <3>1. PICK next : next = CASE failed /\ job[w].attempts + 1 >= MaxAttempts -> "failed"
                               [] ~failed /\ job[w].done -> "done"
                               [] OTHER -> "pending"
      OBVIOUS
    <3>2. PICK n : n = IF failed THEN job[w].attempts + 1 ELSE 0
      OBVIOUS
    <3>3. n = 0 \/ (n = job[w].attempts + 1 /\ (n >= MaxAttempts => next = "failed"))
      BY <3>1, <3>2
    <3>4. PICK y : y = [row[r] EXCEPT !.sync = next, !.owner = None, !.lease = "none", !.attempts = n]
      OBVIOUS
    <3>5. job[w].step # "idle" /\ row' = [row EXCEPT ![r] = y]
      BY <1>5, <2>1, <2>3, <3>1, <3>2, <3>4 DEF Finish
    <3>6. /\ y.policy = row[r].policy /\ y.scope = row[r].scope /\ y.state = row[r].state
          /\ y.owner = None /\ y.sync = next /\ y.attempts = n
      BY <3>4 DEF Shape, RowShape
    <3> HIDE DEF failed
    <3>7. Works(r, y)
      BY <2>1, <2>3, <3>3, <3>5, <3>6, FinishWorks
    <3> QED BY <3>5, <3>7, OneWorks
  <2> QED BY <2>2, <2>3
<1>6. ASSUME NEW w \in Worker, Accept(w) PROVE RowsWork
  <2>1. PICK r \in Req : r = job[w].req
    BY <1>6, BusyJob DEF Accept
  <2>2. PICK t \in TicketShape : t = job[w].answer
    BY <1>6, BusyJob DEF Accept
  <2>3. t.rev # 0 /\ TicketOK(t) /\ row[r].state # "absent"
    BY <1>6, <2>1, <2>2, BusyJob DEF Accept, AnswersOK, JobOK
  <2>4. row' = row \/ (~Refused(r, t) /\ t.rev # row[r].provider /\ row' = [row EXCEPT ![r] = Decided(r, t)])
    BY <1>6, <2>1, <2>2 DEF Accept, Shape
  <2>5. CASE ~Refused(r, t) /\ t.rev # row[r].provider /\ row' = [row EXCEPT ![r] = Decided(r, t)]
    <3>1. row[r] \in RowShape
      BY DEF Shape
    <3>2. ~(row[r].state = "pending" /\ t.verdict = "unqualified")
      BY <2>5, <3>1 DEF Refused, TicketShape, RowShape
    <3>3. t.verdict \notin {"none", "open"}
      BY <2>3 DEF TicketOK
    <3>4. SameWork(row[r], Decided(r, t))
      BY <2>3, <3>2, <3>3, DecidedWork
    <3> QED BY <1>1, <2>5, <3>4
  <2> QED BY <2>4, <2>5, NoneWorks
<1>7. ASSUME NEW r \in Req, LeaseExpires(r) PROVE RowsWork
  <2>1. PICK y : y = [row[r] EXCEPT !.lease = "expired"]
    OBVIOUS
  <2>2. SameWork(row[r], y) /\ row' = [row EXCEPT ![r] = y]
    BY <1>7, <2>1 DEF LeaseExpires, SameWork, Work, Shape, RowShape
  <2> QED BY <1>1, <2>2
<1>8. ASSUME NEW w \in Worker, \/ Load(w) \/ \E served \in BOOLEAN : Call(w, served)
                               \/ Fail(w) \/ Crash(w) \/ \E lost \in BOOLEAN : CallFails(w, lost)
      PROVE  RowsWork
  <2>1. ASSUME NEW served \in BOOLEAN, Call(w, served) PROVE row' = row
    BY <2>1 DEF Call
  <2>2. CASE Load(w) \/ Fail(w) \/ Crash(w) \/ \E lost \in BOOLEAN : CallFails(w, lost)
    BY <2>2, NoneWorks DEF Load, Fail, Crash, CallFails
  <2> QED BY <1>8, <2>1, <2>2, NoneWorks
<1>9. CASE \/ \E r \in Req : RequestDue(r) \/ PeriodOver(r)
           \/ \E r \in Req, verdict \in Decision : Decide(r, verdict)
           \/ \E r \in Req, op \in {"create", "cancel"} : Arrive(r, op)
           \/ UNCHANGED vars
  BY <1>9, NoneWorks DEF RequestDue, PeriodOver, Decide, Arrive, vars
<1> QED
  BY <1>2, <1>3, <1>4, <1>5, <1>6, <1>7, <1>8, <1>9 DEF WorkerStep, Trouble, Environment

LEMMA NextWorks ==
    ASSUME Base, DoneInv, DatabaseType, EditorType, RowsTried, JobsCount, [Next]_vars
    PROVE  RowsWork
  BY OperatorsWork, WorkersWork DEF Next

\* What a step makes of a worker: it is as before, goes on with its request, is idle
\* again, or has claimed a request that can still fail.
JobCounts(w) ==
    \/ job'[w] = job[w] \/ job'[w] = Idle
    \/ /\ job[w].step # "idle" /\ job'[w].step # "idle"
       /\ job'[w].req = job[w].req /\ job'[w].attempts = job[w].attempts
    \/ \E r \in Req : /\ job[w].step = "idle" /\ job'[w].step # "idle" /\ job'[w].req = r
                      /\ row[r].sync # "failed" /\ job'[w].attempts = row[r].attempts
                      /\ row'[r].attempts = row[r].attempts

OthersStay(w) == \A v \in Worker \ {w} : job'[v] = job[v]

LEMMA OneJobCounts ==
    ASSUME Shape, NEW w \in Worker, NEW j, job' = [job EXCEPT ![w] = j]
    PROVE  OthersStay(w) /\ job'[w] = j
  BY DEF Shape, OthersStay

LEMMA IdleReturns ==
    ASSUME Shape, NEW w \in Worker, job[w].step # "idle", NEW step, step # "idle", NEW done,
           Return(w, step, done)
    PROVE  OthersStay(w) /\ JobCounts(w)
<1>1. PICK j : j = Returned(w, step, done)
  OBVIOUS
<1>2. j.step = step /\ j.req = job[w].req /\ j.attempts = job[w].attempts
  BY <1>1 DEF Returned, Idle
<1>3. job' = [job EXCEPT ![w] = j]
  BY <1>1 DEF Return
<1> QED BY <1>2, <1>3, OneJobCounts DEF JobCounts

LEMMA BusyCounts ==
    ASSUME Base, NEW w \in Worker, job[w].step # "idle", NEW j, j.step # "idle",
           j.req = job[w].req, j.attempts = job[w].attempts, job' = [job EXCEPT ![w] = j]
    PROVE  OthersStay(w) /\ JobCounts(w)
  BY OneJobCounts DEF JobCounts, Base

LEMMA WorkerCounts ==
    ASSUME Base, DoneInv, NEW w \in Worker, WorkerStep(w)
    PROVE  OthersStay(w) /\ JobCounts(w)
<1>1. job[w] \in JobShape /\ Shape
  BY DEF Base, Shape
<1>2. ASSUME NEW r \in Req, Claim(w, r) PROVE OthersStay(w) /\ JobCounts(w)
  <2>1. PICK j : j = [Idle EXCEPT !.step = "load", !.req = r, !.attempts = row[r].attempts]
    OBVIOUS
  <2>2. /\ j.step = "load" /\ j.req = r /\ j.attempts = row[r].attempts
        /\ job' = [job EXCEPT ![w] = j] /\ job[w].step = "idle" /\ row[r].sync # "failed"
    BY <1>2, <2>1 DEF Claim, Idle
  <2>3. row[r] \in RowShape
    BY <1>1 DEF Shape
  <2>4. PICK y : y = [row[r] EXCEPT !.sync = "running", !.owner = w, !.lease = "held"]
    OBVIOUS
  <2>5. row' = [row EXCEPT ![r] = y] /\ y.attempts = row[r].attempts
    BY <1>2, <2>3, <2>4 DEF Claim, RowShape
  <2>6. row'[r].attempts = row[r].attempts
    BY <1>1, <2>5 DEF Shape
  <2>7. OthersStay(w) /\ job'[w] = j
    BY <1>1, <2>2, OneJobCounts
  <2> QED BY <2>2, <2>6, <2>7 DEF JobCounts
<1>4. CASE Load(w)
  <2>1. PICK r : r = job[w].req
    OBVIOUS
  <2>2. PICK step \in {"call", "expire"} : step = IF row[r].ticket THEN "call" ELSE "expire"
    OBVIOUS
  <2>3. PICK j : j = [job[w] EXCEPT !.ticket = row[r].ticket, !.term = row[r].state \in Finished,
                                    !.step = step]
    OBVIOUS
  <2>4. j.step # "idle" /\ j.req = job[w].req /\ j.attempts = job[w].attempts
    BY <1>1, <2>2, <2>3 DEF JobShape
  <2>5. job[w].step # "idle" /\ job' = [job EXCEPT ![w] = j]
    BY <1>4, <2>1, <2>2, <2>3 DEF Load
  <2> QED BY <2>4, <2>5, BusyCounts
<1>5. CASE ExpireFirst(w)
  <2>1. PICK r : r = job[w].req
    OBVIOUS
  <2>2. PICK j : j = [job[w] EXCEPT !.ticket = row[r].ticket, !.step = "call",
                                    !.term = Expired(r).state \in Finished]
    OBVIOUS
  <2>3. j.step # "idle" /\ j.req = job[w].req /\ j.attempts = job[w].attempts
    BY <1>1, <2>2 DEF JobShape
  <2>4. job[w].step # "idle" /\ job' = [job EXCEPT ![w] = j]
    BY <1>5, <2>1, <2>2 DEF ExpireFirst
  <2> QED BY <2>3, <2>4, BusyCounts
<1>6. ASSUME NEW step, step # "idle", job[w].step # "idle", Goto(w, step)
      PROVE  OthersStay(w) /\ JobCounts(w)
  <2>1. PICK j : j = [job[w] EXCEPT !.step = step]
    OBVIOUS
  <2>2. j.step = step /\ j.req = job[w].req /\ j.attempts = job[w].attempts
    BY <1>1, <2>1 DEF JobShape
  <2>3. job' = [job EXCEPT ![w] = j]
    BY <1>6, <2>1 DEF Goto
  <2> QED BY <1>6, <2>2, <2>3, BusyCounts
<1>7. ASSUME job[w].step # "idle", NEW step, step # "idle", NEW done, Return(w, step, done)
      PROVE  OthersStay(w) /\ JobCounts(w)
  BY <1>1, <1>7, IdleReturns
<1>8. CASE Bind(w)
  BY <1>6, <1>7, <1>8 DEF Bind
<1>9. CASE Accept(w)
  BY <1>6, <1>7, <1>9 DEF Accept
<1>10. CASE Settle(w)
  <2>1. PICK j : j = [Returned(w, "close", FALSE) EXCEPT !.ticket = TRUE]
    OBVIOUS
  <2>2. j.step = "close" /\ j.req = job[w].req /\ j.attempts = job[w].attempts
    BY <2>1 DEF Returned, Idle
  <2>3. \/ job' = [job EXCEPT ![w] = j]
        \/ \E done : Return(w, "finish", done)
    BY <1>10, <2>1 DEF Settle
  <2>4. job[w].step # "idle"
    BY <1>10 DEF Settle
  <2> QED BY <1>7, <2>2, <2>3, <2>4, BusyCounts
<1>11. CASE Finish(w)
  <2>1. job' = [job EXCEPT ![w] = Idle]
    BY <1>11 DEF Finish
  <2> QED BY <1>1, <2>1, OneJobCounts DEF JobCounts
<1>12. ASSUME NEW served \in BOOLEAN, Call(w, served) PROVE OthersStay(w) /\ JobCounts(w)
  <2> DEFINE r == job[w].req
             x == IF served THEN Served(remote[r], OperationOf(job[w])) ELSE remote[r]
  <2>1. \/ job' = [job EXCEPT ![w] = [job[w] EXCEPT !.step = "rebind"]]
        \/ job' = [job EXCEPT ![w] = [job[w] EXCEPT !.step = "bind", !.answer = x]]
        \/ \E step \in {"finish", "fail"}, done \in BOOLEAN :
              job' = [job EXCEPT ![w] = Returned(w, step, done)]
    BY <1>12 DEF Call
  <2> HIDE DEF r, x
  <2>2. job[w].step # "idle"
    BY <1>12 DEF Call
  <2>3. CASE job' = [job EXCEPT ![w] = [job[w] EXCEPT !.step = "rebind"]]
    BY <1>6, <2>2, <2>3 DEF Goto
  <2>4. CASE job' = [job EXCEPT ![w] = [job[w] EXCEPT !.step = "bind", !.answer = x]]
    <3>1. PICK j : j = [job[w] EXCEPT !.step = "bind", !.answer = x]
      OBVIOUS
    <3>2. j.step = "bind" /\ j.req = job[w].req /\ j.attempts = job[w].attempts
      BY <1>1, <3>1 DEF JobShape
    <3> QED BY <2>2, <2>4, <3>1, <3>2, BusyCounts
  <2> QED BY <1>7, <2>1, <2>2, <2>3, <2>4 DEF Return
<1> QED BY <1>2, <1>4, <1>5, <1>8, <1>9, <1>10, <1>11, <1>12 DEF WorkerStep

LEMMA NextCounts ==
    ASSUME Base, DoneInv, [Next]_vars
    PROVE  \A w \in Worker : JobCounts(w)
<1>1. ASSUME NEW w \in Worker, OthersStay(w), JobCounts(w) PROVE \A v \in Worker : JobCounts(v)
  BY <1>1 DEF OthersStay, JobCounts
<1>2. CASE job' = job
  BY <1>2 DEF JobCounts
<1>3. ASSUME NEW w \in Worker, WorkerStep(w) PROVE \A v \in Worker : JobCounts(v)
  BY <1>1, <1>3, WorkerCounts
<1>4. CASE Trouble
  <2>1. ASSUME NEW w \in Worker, job[w].step # "idle", Return(w, "fail", FALSE)
        PROVE  \A v \in Worker : JobCounts(v)
    <3>1. OthersStay(w) /\ JobCounts(w)
      BY <2>1, IdleReturns DEF Base
    <3> QED BY <1>1, <3>1
  <2>2. ASSUME NEW w \in Worker, Crash(w) PROVE \A v \in Worker : JobCounts(v)
    <3>1. OthersStay(w) /\ job'[w] = Idle
      BY <2>2, OneJobCounts DEF Crash, Base
    <3> QED BY <1>1, <3>1 DEF JobCounts
  <2> QED BY <1>4, <2>1, <2>2 DEF Trouble, Fail, CallFails
<1>5. CASE Operators \/ Administration
  BY <1>2, <1>5
     DEF Operators, Administration, Create, CreateView, Cancel, RetrySync, ReadOpenView,
         ReplaceView, SavePolicy, EditScope, SetAvailable, RemoveManagement, Adopt
<1>6. CASE Environment
  BY <1>2, <1>6 DEF Environment, RequestDue, PeriodOver, LeaseExpires, Decide, Arrive
<1>7. CASE UNCHANGED vars
  BY <1>2, <1>7 DEF vars
<1> QED BY <1>3, <1>4, <1>5, <1>6, <1>7 DEF Next

LEMMA CountsStep ==
    ASSUME Base, DoneInv, DatabaseType, EditorType, RowsTried, JobsCount, [Next]_vars
    PROVE  RowsTried' /\ JobsCount'
<1>1. RowsWork
  BY NextWorks
<1>2. RowsTried'
  BY <1>1 DEF RowsWork, Works, RowsTried
<1>3. ASSUME NEW w \in Worker PROVE Counts(job[w], w)'
  <2>1. /\ JobCounts(w) /\ Counts(job[w], w)
        /\ job[w].step # "idle" => job[w].req \in Req
    BY NextCounts, BusyJob DEF JobsCount
  <2>2. ASSUME job[w].step # "idle", job'[w].step # "idle", job'[w].req = job[w].req,
               job'[w].attempts = job[w].attempts
        PROVE  Counts(job[w], w)'
    <3>1. PICK r \in Req : r = job[w].req
      BY <2>1, <2>2
    <3>2. row'[r].owner = w => row'[r].attempts = row[r].attempts /\ row[r].owner = w
      BY <1>1, <2>2, <3>1 DEF RowsWork, Works
    <3> QED BY <2>1, <2>2, <3>1, <3>2 DEF Counts
  <2>3. CASE job'[w] = job[w] /\ job[w].step = "idle"
    BY <2>1, <2>3 DEF Counts
  <2>4. CASE job'[w] = Idle
    BY <2>4 DEF Counts, Idle
  <2>5. ASSUME NEW r \in Req, job[w].step = "idle", job'[w].step # "idle", job'[w].req = r,
               row[r].sync # "failed", job'[w].attempts = row[r].attempts,
               row'[r].attempts = row[r].attempts
        PROVE  Counts(job[w], w)'
    <3>1. row[r].attempts \in 0 .. MaxAttempts
      BY <2>5, AttemptAssumption DEF RowsTried, Tried
    <3> QED BY <2>5, <3>1 DEF Counts
  <2> QED BY <2>1, <2>2, <2>3, <2>4, <2>5 DEF JobCounts
<1> QED BY <1>2, <1>3 DEF JobsCount

\* The ITSM service issues at most two events for a request: a decision and its
\* withdrawal.
LEMMA RevisionsStep ==
    ASSUME Base, Revisions, [Next]_vars
    PROVE  Revisions'
<1>0. \A r \in Req : remote[r] \in TicketShape /\ TicketOK(remote[r]) /\ remote[r].rev \in 0 .. 2
  BY DEF Base, Shape, TicketsOK, Revisions
<1>1. ASSUME NEW q \in Req, NEW y, y.rev \in 0 .. 2, remote' = [remote EXCEPT ![q] = y]
      PROVE  Revisions'
  BY <1>0, <1>1 DEF Base, Shape, Revisions
<1>2. CASE remote' = remote
  BY <1>2 DEF Revisions
<1>3. ASSUME NEW r \in Req, NEW op PROVE Served(remote[r], op).rev \in 0 .. 2
  <2>1. PICK x \in TicketShape : x = remote[r] /\ x.rev \in 0 .. 2
    BY <1>0
  <2>2. Served(x, op).rev \in {x.rev, 1}
    BY DEF Served, TicketShape
  <2> QED BY <2>1, <2>2
<1>4. ASSUME NEW w \in Worker, NEW served \in BOOLEAN, Call(w, served) PROVE Revisions'
  <2>1. PICK r \in Req : r = job[w].req
    BY <1>4 DEF Call, Base, AnswersOK, JobOK
  <2>2. PICK op : op = OperationOf(job[w])
    OBVIOUS
  <2>3. PICK y : y = IF served THEN Served(remote[r], op) ELSE remote[r]
    OBVIOUS
  <2>4. remote' = [remote EXCEPT ![r] = y]
    BY <1>4, <2>1, <2>2, <2>3 DEF Call
  <2>5. y.rev \in 0 .. 2
    BY <1>0, <1>3, <2>3
  <2> QED BY <1>1, <2>4, <2>5
<1>5. ASSUME NEW r \in Req, NEW verdict \in Decision, Decide(r, verdict) PROVE Revisions'
  <2>1. PICK n : n = remote[r].rev + 1
    OBVIOUS
  <2>2. n \in 0 .. 2
    BY <1>0, <1>5, <2>1 DEF Decide, TicketOK
  <2>3. PICK y : y = [id |-> remote[r].id, verdict |-> verdict, rev |-> n,
                      late |-> IF verdict = "withdrawn" THEN remote[r].late ELSE due[r]]
    OBVIOUS
  <2>4. remote' = [remote EXCEPT ![r] = y] /\ y.rev = n
    BY <1>5, <2>1, <2>3 DEF Decide
  <2> QED BY <1>1, <2>2, <2>4
<1>6. ASSUME NEW r \in Req, NEW op, Arrive(r, op) PROVE Revisions'
  <2>1. PICK y : y = Served(remote[r], op)
    OBVIOUS
  <2>2. remote' = [remote EXCEPT ![r] = y] /\ y.rev \in 0 .. 2
    BY <1>3, <1>6, <2>1 DEF Arrive
  <2> QED BY <1>1, <2>2
<1>7. ASSUME NEW w \in Worker, WorkerStep(w) PROVE Revisions'
  <2>1. ASSUME NEW r \in Req, Claim(w, r) PROVE remote' = remote
    BY <2>1 DEF Claim, itsm
  <2>2. Load(w) \/ ExpireFirst(w) => remote' = remote
    BY DEF Load, ExpireFirst, itsm
  <2>3. Bind(w) \/ Accept(w) => remote' = remote
    BY DEF Bind, Accept, itsm
  <2>4. Settle(w) \/ Finish(w) => remote' = remote
    BY DEF Settle, Finish, itsm
  <2> QED BY <1>2, <1>4, <1>7, <2>1, <2>2, <2>3, <2>4, Zenon DEF WorkerStep
<1>8. CASE Trouble
  BY <1>2, <1>8 DEF Trouble, Fail, Crash, CallFails, itsm
<1>9. CASE Operators \/ Administration
  BY <1>2, <1>9 DEF Operators, Administration, Create, CreateView, Cancel, RetrySync, ReadOpenView,
                    ReplaceView, SavePolicy, EditScope, SetAvailable, RemoveManagement, Adopt, itsm
<1>10. CASE Environment
  BY <1>2, <1>5, <1>6, <1>10 DEF Environment, RequestDue, PeriodOver, LeaseExpires, itsm
<1>11. CASE UNCHANGED vars
  BY <1>2, <1>11 DEF vars, itsm
<1> QED BY <1>7, <1>8, <1>9, <1>10, <1>11 DEF Next

LEMMA DatabaseStep ==
    ASSUME Base, DoneInv, DatabaseType, [Next]_vars
    PROVE  DatabaseType'
<1> USE DEF DatabaseType
<1>1. CASE UNCHANGED <<database, late>>
  BY <1>1 DEF database
<1>2. ASSUME NEW w \in Worker, WorkerStep(w) PROVE DatabaseType'
  <2>1. \A r \in Req : Claim(w, r) => UNCHANGED <<database, late>>
    BY DEF Claim, itsm
  <2>2. Load(w) \/ ExpireFirst(w) => UNCHANGED <<database, late>>
    BY DEF Load, ExpireFirst, itsm
  <2>3. \A served \in BOOLEAN : Call(w, served) => UNCHANGED <<database, late>>
    BY DEF Call
  <2>4. Bind(w) \/ Accept(w) => UNCHANGED <<database, late>>
    BY DEF Bind, Accept, itsm
  <2>5. Settle(w) \/ Finish(w) => UNCHANGED <<database, late>>
    BY DEF Settle, Finish, itsm
  <2> HIDE DEF DatabaseType
  <2> QED BY <1>1, <1>2, <2>1, <2>2, <2>3, <2>4, <2>5, Zenon DEF WorkerStep
<1>3. ASSUME NEW w \in Worker, NEW lost \in BOOLEAN, CallFails(w, lost) PROVE DatabaseType'
  <2>1. UNCHANGED database
    BY <1>3 DEF CallFails
  <2>2. job[w].req \in Req
    BY <1>3, BusyJob DEF CallFails
  <2>3. ~lost => OperationOf(job[w]) \in {"create", "cancel"}
    BY <1>3 DEF CallFails, OperationOf
  <2>4. late' \subseteq Req \X {"create", "cancel"}
    BY <1>3, <2>2, <2>3 DEF CallFails
  <2> QED BY <2>1, <2>4 DEF database
<1>4. CASE Trouble
  BY <1>1, <1>3, <1>4 DEF Trouble, Fail, Crash, itsm
<1>5. CASE Operators
  BY <1>1, <1>5 DEF Operators, Create, CreateView, Cancel, RetrySync, ReadOpenView, ReplaceView, itsm
<1>6. ASSUME NEW f \in [Kind -> 1 .. MaxRevision], NEW k \in Kind, f[k] < MaxRevision
      PROVE  [f EXCEPT ![k] = f[k] + 1] \in [Kind -> 1 .. MaxRevision]
  BY <1>6, AttemptAssumption
<1>7. ASSUME NEW r \in Req, NEW on \in BOOLEAN, SavePolicy(KindOf(r), on) PROVE DatabaseType'
  <2>1. KindOf(r) \in Kind
    BY Kinds
  <2>2. policy' \in [Kind -> 1 .. MaxRevision]
    BY <1>6, <1>7, <2>1 DEF SavePolicy
  <2>3. allow' \in [Kind -> BOOLEAN] /\ UNCHANGED <<managed, available, scope, late>>
    BY <1>7, <2>1 DEF SavePolicy, itsm
  <2> QED BY <2>2, <2>3
<1>8. CASE RemoveManagement
  <2>1. "connect" \in Kind
    BY DEF Kind
  <2>2. policy' \in [Kind -> 1 .. MaxRevision] /\ scope' \in [Kind -> 1 .. MaxRevision]
    BY <1>6, <1>8, <2>1 DEF RemoveManagement
  <2>3. allow' \in [Kind -> BOOLEAN] /\ managed' \in BOOLEAN /\ late' = late
    BY <1>8, <2>1 DEF RemoveManagement, itsm
  <2>4. PICK f : f = [connect |-> FALSE, view |-> TRUE]
    OBVIOUS
  <2>5. f = [k \in DOMAIN f |-> f[k]] /\ DOMAIN f = {"connect", "view"}
    BY <2>4
  <2>6. f["connect"] = FALSE /\ f["view"] = TRUE
    BY <2>4
  <2>7. f \in [Kind -> BOOLEAN]
    BY <2>5, <2>6 DEF Kind
  <2>8. available' = f
    BY <1>8, <2>4 DEF RemoveManagement
  <2> QED BY <2>2, <2>3, <2>7, <2>8
<1>9. CASE Adopt
  BY <1>9 DEF Adopt, itsm
<1>10. ASSUME NEW r \in Req, EditScope(KindOf(r)) PROVE DatabaseType'
  <2>1. scope' \in [Kind -> 1 .. MaxRevision]
    BY <1>6, <1>10, Kinds DEF EditScope
  <2> QED BY <1>10, <2>1 DEF EditScope, itsm
<1>11. ASSUME NEW r \in Req, SetAvailable(KindOf(r)) PROVE DatabaseType'
  <2>1. available' \in [Kind -> BOOLEAN]
    BY <1>11, Kinds DEF SetAvailable, Kind
  <2> QED BY <1>11, <2>1 DEF SetAvailable, itsm
<1>12. CASE Administration
  BY <1>7, <1>8, <1>9, <1>10, <1>11, <1>12 DEF Administration
<1>13. CASE Environment
  <2>1. UNCHANGED database
    BY <1>13 DEF Environment, RequestDue, PeriodOver, LeaseExpires, Decide, Arrive
  <2>2. late' \subseteq late
    BY <1>13 DEF Environment, RequestDue, PeriodOver, LeaseExpires, Decide, Arrive, itsm
  <2> QED BY <2>1, <2>2 DEF database
<1>14. CASE UNCHANGED vars
  BY <1>1, <1>14 DEF vars, itsm
<1> QED BY <1>2, <1>4, <1>5, <1>12, <1>13, <1>14 DEF Next

\* The events that the rows have noted are numbered 1 and 2.
LEMMA ProviderBound ==
    ASSUME Base, DoneInv, Revisions, NEW r \in Req
    PROVE  row[r].provider \in 0 .. 2
<1>1. row[r] \in RowShape /\ row[r].provider <= remote[r].rev /\ remote[r].rev \in 0 .. 2
  BY DEF Base, Shape, DoneInv, RowsDone, RowDone, Revisions
<1>2. row[r].provider \in Nat
  BY <1>1 DEF RowShape
<1> QED BY <1>1, <1>2

LEMMA AbsentTried == Tried(Absent) /\ Absent.provider = 0
<1>1. MaxAttempts \in Nat /\ MaxAttempts # 0 /\ MaxRevision \in Nat
  BY AttemptAssumption
<1>2. /\ Absent.policy = 0 /\ Absent.scope = 0 /\ Absent.attempts = 0
      /\ Absent.owner = None /\ Absent.provider = 0
  BY DEF Absent
<1> QED BY <1>1, <1>2 DEF Tried

\* The editor is free, or has the copy of an open request.
LEMMA EditorReads ==
    ASSUME EditorType, [Next]_vars
    PROVE  \/ editor' \in {editor, NoEditor}
           \/ \E r, old \in Req : editor' = [new |-> r, old |-> old, copy |-> row[old]]
<1>1. ASSUME NEW w \in Worker, WorkerStep(w) PROVE editor' = editor
  <2>1. \A r \in Req : Claim(w, r) => editor' = editor
    BY DEF Claim
  <2>2. \A served \in BOOLEAN : Call(w, served) => editor' = editor
    BY DEF Call
  <2>3. Load(w) \/ ExpireFirst(w) \/ Bind(w) => editor' = editor
    BY DEF Load, ExpireFirst, Bind
  <2>4. Accept(w) \/ Settle(w) \/ Finish(w) => editor' = editor
    BY DEF Accept, Settle, Finish
  <2> QED BY <1>1, <2>1, <2>2, <2>3, <2>4, Zenon DEF WorkerStep
<1>2. CASE Trouble
  BY <1>2 DEF Trouble, Fail, Crash, CallFails
<1>3. CASE Operators
  <2>1. ASSUME NEW r \in Req, Create(r) \/ CreateView(r) \/ Cancel(r) \/ RetrySync(r)
        PROVE  editor' = editor
    BY <2>1 DEF Create, CreateView, Cancel, RetrySync
  <2>2. ASSUME NEW r \in Req, NEW old \in Req, ReadOpenView(r, old)
        PROVE  editor' = [new |-> r, old |-> old, copy |-> row[old]]
    BY <2>2 DEF ReadOpenView
  <2>3. ReplaceView => editor' = NoEditor
    BY DEF ReplaceView
  <2> QED BY <1>3, <2>1, <2>2, <2>3 DEF Operators
<1>4. CASE Administration
  BY <1>4 DEF Administration, SavePolicy, EditScope, SetAvailable, RemoveManagement, Adopt
<1>5. CASE Environment
  BY <1>5 DEF Environment, RequestDue, PeriodOver, LeaseExpires, Decide, Arrive
<1>6. CASE UNCHANGED vars
  BY <1>6 DEF vars
<1> QED BY <1>1, <1>2, <1>3, <1>4, <1>5, <1>6 DEF Next

LEMMA EditorTypeStep ==
    ASSUME Base, DoneInv, EditorType, RowsTried, Revisions, [Next]_vars
    PROVE  EditorType'
<1>1. CASE editor' = editor
  BY <1>1 DEF EditorType
<1>2. CASE editor' = NoEditor
  <2>1. NoEditor \in EditorPair /\ NoEditor.copy = Absent
    BY AbsentShape DEF NoEditor, EditorPair
  <2> QED BY <1>2, <2>1, AbsentTried DEF EditorType, EditorPair
<1>3. ASSUME NEW r \in Req, NEW old \in Req, editor' = [new |-> r, old |-> old, copy |-> row[old]]
      PROVE  EditorType'
  <2>1. row[old] \in RowShape /\ Tried(row[old]) /\ row[old].provider \in 0 .. 2
    BY ProviderBound DEF Base, Shape, RowsTried
  <2>2. PICK e : e = [new |-> r, old |-> old, copy |-> row[old]]
    OBVIOUS
  <2>3. e \in EditorPair /\ e.copy = row[old] /\ editor' = e
    BY <1>3, <2>1, <2>2 DEF EditorPair
  <2> QED BY <2>1, <2>3 DEF EditorType, EditorPair
<1> QED BY <1>1, <1>2, <1>3, EditorReads

LEMMA TypeInvInit == Init => TypeInv
<1> SUFFICES ASSUME Init PROVE TypeInv
  OBVIOUS
<1>1. \A r \in Req : row[r] = Absent /\ remote[r] = NoTicket
  BY DEF Init
<1>2. DatabaseType
  <2>1. 1 \in 1 .. MaxRevision
    BY AttemptAssumption
  <2> QED BY <2>1 DEF Init, DatabaseType
<1>3. EditorType
  <2>1. NoEditor \in EditorPair /\ NoEditor.copy = Absent
    BY AbsentShape DEF NoEditor, EditorPair
  <2> QED BY <2>1, AbsentTried DEF Init, EditorType, EditorPair
<1>4. RowsTried /\ Revisions
  BY <1>1, AbsentTried DEF RowsTried, Revisions, NoTicket
<1>5. JobsCount
  BY DEF Init, JobsCount, Counts, Idle
<1> QED BY <1>2, <1>3, <1>4, <1>5, AccessInvInit DEF TypeInv

LEMMA TypeInvStep == TypeInv /\ [Next]_vars => TypeInv'
<1> SUFFICES ASSUME TypeInv, [Next]_vars PROVE TypeInv'
  OBVIOUS
<1>1. Base /\ DoneInv
  BY DEF TypeInv, AccessInv
<1> QED
  BY <1>1, AccessInvStep, CountsStep, RevisionsStep, DatabaseStep, EditorTypeStep, Zenon DEF TypeInv

\* The shapes with their bounds.
LEMMA RowBounded ==
    ASSUME NEW x \in RowShape, Tried(x), x.provider \in 0 .. 2
    PROVE  x \in Row
  BY DEF RowShape, Row, Tried, States, Reasons, Syncs, Leases, Open, Finished

LEMMA JobBounded ==
    ASSUME NEW j \in JobShape, j.answer.rev \in 0 .. 2, j.attempts \in 0 .. MaxAttempts + 1
    PROVE  j \in Job
<1>1. j.answer \in Ticket
  BY DEF JobShape, TicketShape, Ticket, Verdicts
<1> QED BY <1>1 DEF JobShape, Job, Steps

LEMMA TypeInvTypes == TypeInv => TypeOK
<1> SUFFICES ASSUME TypeInv PROVE TypeOK
  OBVIOUS
<1>1. Base /\ DoneInv /\ Shape /\ RowsTried /\ Revisions /\ JobsCount
  BY DEF TypeInv, AccessInv, Base
<1>2. row \in [Req -> Row]
  <2>1. \A r \in Req : row[r] \in RowShape /\ Tried(row[r]) /\ row[r].provider \in 0 .. 2
    BY <1>1, ProviderBound DEF Shape, RowsTried
  <2>2. \A r \in Req : row[r] \in Row
    BY <2>1, RowBounded
  <2> QED BY <1>1, <2>2 DEF Shape
<1>3. remote \in [Req -> Ticket]
  BY <1>1 DEF Shape, TicketShape, Ticket, Verdicts, Revisions
<1>4. job \in [Worker -> Job]
  <2>1. ASSUME NEW w \in Worker PROVE job[w] \in Job
    <3>1. job[w] \in JobShape /\ Counts(job[w], w) /\ MaxAttempts \in Nat
      BY <1>1, AttemptAssumption DEF Shape, JobsCount
    <3>2. CASE job[w].step = "idle"
      <4>1. job[w].answer.rev = 0 /\ job[w].attempts = 0
        BY <3>1, <3>2 DEF Counts, Idle, NoTicket
      <4> QED BY <3>1, <4>1, JobBounded
    <3>3. CASE job[w].step # "idle"
      <4>1. PICK r \in Req : r = job[w].req /\ Advances(job[w].answer, remote[r])
        BY <1>1, <3>3, BusyJob
      <4>2. job[w].answer.rev \in Nat /\ job[w].answer.rev <= remote[r].rev /\ remote[r].rev \in 0 .. 2
        BY <1>1, <3>1, <4>1 DEF Advances, Revisions, JobShape, TicketShape
      <4>3. job[w].attempts \in 0 .. MaxAttempts
        BY <3>1, <3>3 DEF Counts
      <4> QED BY <3>1, <4>2, <4>3, JobBounded
    <3> QED BY <3>2, <3>3
  <2> QED BY <1>1, <2>1 DEF Shape
<1>5. editor \in [new : Req \cup {None}, old : Req \cup {None}, copy : Row]
  <2>1. /\ editor \in [new : Req \cup {None}, old : Req \cup {None}, copy : RowShape]
        /\ Tried(editor.copy) /\ editor.copy.provider \in 0 .. 2
    BY DEF TypeInv, EditorType, EditorPair
  <2>2. editor.copy \in Row
    BY <2>1, RowBounded
  <2> QED BY <2>1, <2>2
<1>6. DatabaseType
  BY DEF TypeInv
<1> QED BY <1>1, <1>2, <1>3, <1>4, <1>5, <1>6 DEF TypeOK, Shape, DatabaseType

\* PAMRequest!TypeOK, and in it the bounds that no single statement of the code keeps: a
\* synchronization fails at most MaxAttempts times in a row before it waits for an
\* operator, and once more when a request that was given up is invalidated, although
\* workers count on from a copy and a view request saves an old copy over the row;
\* nothing in a row or in a copy names a revision that does not exist.
THEOREM TypeCorrect == Spec => []TypeOK
<1> QED
  BY TypeInvInit, TypeInvStep, TypeInvTypes, PTL DEF Spec

=============================================================================
