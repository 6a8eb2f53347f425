----------------------------- MODULE PAMRotation -----------------------------
(***************************************************************************)
(* What the password-execution component promises, without leases, runs or *)
(* database rows.  Rotating the password of one managed account is a       *)
(* critical section: a rotation is open from the moment it is prepared     *)
(* until its outcome is known, its mutation is sent to the target at most  *)
(* once, and the stored credential is replaced only by the candidate of    *)
(* the open rotation, after its mutation has landed.                       *)
(***************************************************************************)
CONSTANTS Exec,      \* rotations
          Manual,    \* credentials that operators type in
          Initial,   \* the credential the account was adopted with
          None       \* no rotation

VARIABLES stored,    \* the credential the bastion uses
          holder,    \* the open rotation, or None
          sent,      \* rotations whose mutation left for the target
          landed,    \* rotations whose mutation was answered, lost or applied
          closed     \* rotations with a known outcome

vars == <<stored, holder, sent, landed, closed>>

Init ==
    /\ stored = Initial
    /\ holder = None
    /\ sent = {}
    /\ landed = {}
    /\ closed = {}

Open(e) ==
    /\ holder = None
    /\ e \notin closed
    /\ holder' = e
    /\ UNCHANGED <<stored, sent, landed, closed>>

Send(e) ==
    /\ holder = e
    /\ e \notin sent
    /\ sent' = sent \cup {e}
    /\ UNCHANGED <<stored, holder, landed, closed>>

Land(e) ==
    /\ holder = e
    /\ e \in sent \ landed
    /\ landed' = landed \cup {e}
    /\ UNCHANGED <<stored, holder, sent, closed>>

Publish(e) ==
    /\ holder = e
    /\ e \in landed
    /\ stored' = e
    /\ holder' = None
    /\ closed' = closed \cup {e}
    /\ UNCHANGED <<sent, landed>>

GiveUp(e) ==
    /\ holder = e
    /\ e \in sent => e \in landed
    /\ holder' = None
    /\ closed' = closed \cup {e}
    /\ UNCHANGED <<stored, sent, landed>>

Replace(m) ==
    /\ holder = None
    /\ stored' = m
    /\ UNCHANGED <<holder, sent, landed, closed>>

Next ==
    \/ \E e \in Exec : Open(e) \/ Send(e) \/ Land(e) \/ Publish(e) \/ GiveUp(e)
    \/ \E m \in Manual : Replace(m)

Spec == Init /\ [][Next]_vars
=============================================================================
