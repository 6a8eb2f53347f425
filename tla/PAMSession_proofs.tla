-------------------------- MODULE PAMSession_proofs --------------------------
(***************************************************************************)
(* Proofs about PAMSession for any number of sessions, any limits, and any *)
(* lengths of leases and timers.  What is said of leases asks for          *)
(* Timeout <= TTL, and what is said of the places that a renewal carrying  *)
(* the clock reading of its activation is executed before the clock moves  *)
(* on: Prompt.                                                             *)
(***************************************************************************)
EXTENDS PAMSession, FiniteSetTheorems, TLAPS

LeaseShape == [state : {"none", "active", "closed"}, expires : Nat, deadline : Nat, revision : Nat]
PermitShape == [revision : Nat, deadline : Nat, until : Nat]

Shape ==
    /\ now \in Nat
    /\ policy \in [revision : Nat, max : Nat, since : Nat]
    /\ lease \in [Session -> LeaseShape]
    /\ pc \in [Session -> Stage]
    /\ permit \in [Session -> PermitShape]
    /\ timer \in [Session -> Nat] /\ reading \in [Session -> Nat]

\* Stages in which a session may have a transport that nobody has closed.
Live == {"waiting", "stopping"} \cup Activation \cup Watching

\* What a session knows of its lease is not more than the lease.  The checks of the
\* watcher end with it; an activation begins within it and has one Timeout.  The clock
\* reading of a renewal is not older than its timer allows.
WatchOK(s) ==
    /\ pc[s] \in Live =>
          /\ permit[s].until <= lease[s].expires /\ permit[s].deadline = lease[s].deadline
          /\ permit[s].until <= now + TTL
          /\ now <= Bound(s) + Overrun(s)
    /\ pc[s] \in Watching => timer[s] <= Bound(s)
    /\ pc[s] \in Activation => timer[s] <= Bound(s) + Timeout
    /\ pc[s] \in {"activating", "checking"} => timer[s] <= now + Timeout
    /\ pc[s] \in {"activated", "renewing"} =>
          /\ timer[s] <= reading[s] + Timeout /\ reading[s] <= now
          /\ permit[s].until <= reading[s] + TTL
    /\ Prompt /\ pc[s] = "activated" => reading[s] = now

RevisionOK == \A s \in Session : lease[s].revision <= policy.revision

Base == Shape /\ (\A s \in Session : WatchOK(s)) /\ RevisionOK

LEMMA Consts ==
    /\ TTL \in Nat /\ Interval \in Nat /\ Timeout \in Nat /\ Limit \in Nat
    /\ Never \in Nat /\ Deadline \subseteq Nat /\ Max \subseteq Nat
<1>1. Never \in Nat
  BY TimeAssumption DEF Never
<1> QED BY <1>1, TimeAssumption, PolicyAssumption DEF Deadline

LEMMA Stages ==
    /\ Activation \cup Watching \cup {"idle", "authorized", "waiting", "stopping", "releasing", "ended"}
          = Stage
    /\ Activation = {"activating", "activated"} /\ Watching = {"checking", "renewing", "sleeping"}
    /\ Live = {"waiting", "stopping", "activating", "activated", "checking", "renewing", "sleeping"}
  BY DEF Stage, Activation, Watching, Live

LEMMA EarlierIs ==
    ASSUME NEW a \in Nat, NEW b \in Nat
    PROVE  /\ Earlier(a, b) \in Nat /\ Earlier(a, b) <= a /\ Earlier(a, b) <= b
           /\ Earlier(a, b) = a \/ Earlier(a, b) = b
  BY DEF Earlier

LEMMA BaseInit == Init => Base
<1> SUFFICES ASSUME Init PROVE Base
  OBVIOUS
<1>1. Shape
  BY Consts, Stages DEF Init, Shape, LeaseShape, PermitShape
<1>2. \A s \in Session : WatchOK(s)
  BY Stages DEF Init, WatchOK
<1>3. RevisionOK
  BY Consts DEF Init, RevisionOK
<1> QED BY <1>1, <1>2, <1>3 DEF Base

-----------------------------------------------------------------------------
\* Other sessions and the clock stay as they are.
Apart(s) ==
    /\ now' = now
    /\ \A q \in Session \ {s} :
          /\ lease'[q] = lease[q] /\ pc'[q] = pc[q] /\ permit'[q] = permit[q]
          /\ timer'[q] = timer[q] /\ reading'[q] = reading[q]

LEMMA ApartOK ==
    ASSUME Base, NEW s \in Session, Apart(s), WatchOK(s)'
    PROVE  \A q \in Session : WatchOK(q)'
<1> SUFFICES ASSUME NEW q \in Session \ {s} PROVE WatchOK(q)'
  OBVIOUS
<1>1. WatchOK(q)
  BY DEF Base
<1> QED BY <1>1 DEF Apart, WatchOK, Bound, Overrun

\* What a step may do to the lease of one session: with prompt renewals it counts only
\* where it counted.
Passes(q) ==
    /\ lease'[q].revision = lease[q].revision
    /\ Prompt /\ Effective(lease'[q], now') => Effective(lease[q], now)

LeasesPass == policy' = policy /\ \A q \in Session : Passes(q)

\* A renewal finds its lease still counting.
LEMMA RenewsHeld ==
    ASSUME Base, NEW s \in Session, pc[s] \in {"activated", "renewing"}, now < timer[s], CanRenew(s)
    PROVE  pc[s] = "renewing" \/ Prompt => Effective(lease[s], now)
<1> SUFFICES ASSUME pc[s] = "renewing" \/ Prompt PROVE Effective(lease[s], now)
  OBVIOUS
<1>1. WatchOK(s) /\ Shape
  BY DEF Base
<1>2. /\ lease[s].expires \in Nat /\ lease[s].deadline \in Nat /\ permit[s].until \in Nat
      /\ permit[s].deadline \in Nat /\ timer[s] \in Nat /\ reading[s] \in Nat /\ now \in Nat
  BY <1>1 DEF Shape, LeaseShape, PermitShape
<1>3. CASE pc[s] = "activated"
  BY <1>1, <1>3 DEF WatchOK, CanRenew
<1>4. CASE pc[s] = "renewing"
  <2>1. /\ timer[s] <= Bound(s) /\ permit[s].until <= lease[s].expires
        /\ permit[s].deadline = lease[s].deadline
    BY <1>1, <1>4, Stages DEF WatchOK
  <2>2. Bound(s) <= permit[s].until /\ Bound(s) <= permit[s].deadline /\ Bound(s) \in Nat
    BY <1>2, EarlierIs DEF Bound
  <2>3. now < lease[s].expires /\ now < lease[s].deadline
    BY <1>2, <2>1, <2>2
  <2> QED BY <1>4, <2>3 DEF CanRenew, Effective
<1> QED BY <1>3, <1>4

LEMMA BoundNat ==
    ASSUME Base, NEW s \in Session
    PROVE  Bound(s) \in Nat /\ Bound(s) <= permit[s].until /\ Bound(s) <= permit[s].deadline
<1>1. permit[s].until \in Nat /\ permit[s].deadline \in Nat
  BY DEF Base, Shape, PermitShape
<1> QED BY <1>1, EarlierIs DEF Bound

\* A step of session s that keeps the form of the state, and its places.
Good(s) == Shape' /\ Apart(s) /\ WatchOK(s)' /\ policy' = policy /\ Passes(s)

\* How long a session may be past its bound, by where it stands.
LEMMA OverrunIs ==
    ASSUME NEW s \in Session
    PROVE  /\ Overrun(s) \in {0, Timeout}
           /\ pc[s] \in {"activating", "activated", "stopping"} => Overrun(s) = Timeout
           /\ pc[s] = "checking" /\ ~Prompt => Overrun(s) = Timeout
           /\ pc[s] \in {"waiting", "renewing", "sleeping"} => Overrun(s) = 0
  BY Stages DEF Overrun

\* The session is not admitted, or is over.
LEMMA OutGood ==
    ASSUME Base, NEW s \in Session, NEW x \in {"authorized", "releasing", "ended"},
           pc' = [pc EXCEPT ![s] = x], UNCHANGED <<now, policy, timer, reading>>,
           permit' \in [Session -> PermitShape], lease' \in [Session -> LeaseShape], Passes(s),
           \A q \in Session \ {s} : permit'[q] = permit[q] /\ lease'[q] = lease[q]
    PROVE  Good(s)
<1>1. Shape'
  BY Stages DEF Base, Shape
<1>2. Apart(s) /\ pc'[s] = x
  BY DEF Apart, Base, Shape
<1>3. WatchOK(s)'
  BY <1>2, Stages DEF WatchOK
<1> QED BY <1>1, <1>2, <1>3 DEF Good

\* The session comes to its end; its lease may have been extended all the same.
LEMMA StopGood ==
    ASSUME Base, NEW s \in Session, pc[s] \in Live, pc' = [pc EXCEPT ![s] = "stopping"],
           UNCHANGED <<now, policy, timer, reading, permit>>, lease' \in [Session -> LeaseShape], Passes(s),
           lease'[s].deadline = lease[s].deadline, permit[s].until <= lease'[s].expires,
           \A q \in Session \ {s} : lease'[q] = lease[q]
    PROVE  Good(s)
<1>1. Shape'
  BY Stages DEF Base, Shape
<1>2. Apart(s) /\ pc'[s] = "stopping"
  BY DEF Apart, Base, Shape
<1>3. WatchOK(s)'
  <2>1. WatchOK(s) /\ Bound(s)' = Bound(s) /\ Overrun(s)' = Timeout
    BY <1>2, OverrunIs DEF Base, Bound, Overrun
  <2>2. Bound(s) \in Nat /\ now \in Nat /\ Timeout \in Nat
    BY Consts, BoundNat DEF Base, Shape
  <2>3. now <= Bound(s) + Timeout
    BY <2>1, <2>2, OverrunIs DEF WatchOK
  <2> QED BY <1>2, <2>1, <2>3, Stages DEF WatchOK
<1> QED BY <1>1, <1>2, <1>3 DEF Good

LEMMA PassesKept ==
    ASSUME NEW s \in Session, lease' = lease, now' = now
    PROVE  Passes(s)
  BY DEF Passes

LEMMA StopStays ==
    ASSUME Base, NEW s \in Session, pc[s] \in Live, pc' = [pc EXCEPT ![s] = "stopping"],
           UNCHANGED <<now, policy, timer, reading, permit, lease>>
    PROVE  Good(s)
<1>1. permit[s].until <= lease[s].expires /\ lease \in [Session -> LeaseShape]
  BY DEF Base, Shape, WatchOK
<1> QED BY <1>1, StopGood, PassesKept

LEMMA ConnectingGood ==
    ASSUME Base, NEW s \in Session, Connecting(s),
           ~\E lost \in BOOLEAN : Admit(s, lost)
    PROVE  Good(s)
<1> USE DEF Goto, Sleep
<1>1. ASSUME NEW deadline \in Deadline, Authorize(s, deadline) PROVE Good(s)
  <2>1. PICK y \in PermitShape : permit' = [permit EXCEPT ![s] = y]
    BY <1>1, Consts DEF Authorize, PermitShape, Base, Shape
  <2>2. permit' \in [Session -> PermitShape] /\ \A q \in Session \ {s} : permit'[q] = permit[q]
    BY <2>1 DEF Base, Shape
  <2> QED BY <1>1, <2>2, OutGood, PassesKept DEF Authorize, local, Base, Shape
<1>2. CASE Refuse(s) \/ WaitEnds(s)
  <2>1. CASE Refuse(s)
    BY <2>1, OutGood, PassesKept DEF Refuse, local, Base, Shape
  <2>2. CASE WaitEnds(s)
    BY <2>2, StopStays, Stages DEF WaitEnds, local
  <2> QED BY <1>2, <2>1, <2>2
<1>3. CASE DialResult(s)
  <2>1. CASE result[s] = "ok"
    <3>1. /\ pc' = [pc EXCEPT ![s] = "activating"] /\ timer' = [timer EXCEPT ![s] = now + Timeout]
          /\ UNCHANGED <<now, policy, lease, permit, reading>> /\ pc[s] = "waiting"
      BY <1>3, <2>1 DEF DialResult
    <3>2. Shape' /\ Apart(s) /\ pc'[s] = "activating"
      BY <3>1, Consts, Stages DEF Base, Shape, Apart
    <3>3. now <= Bound(s) /\ Bound(s) \in Nat /\ now \in Nat /\ Timeout \in Nat
      BY <3>1, BoundNat, OverrunIs, Consts, Stages DEF WatchOK, Base, Shape
    <3>4. /\ Bound(s)' = Bound(s) /\ Overrun(s)' = Timeout /\ timer'[s] = now + Timeout
          /\ now' = now /\ permit' = permit /\ lease' = lease
      BY <3>1, <3>2, Stages DEF Bound, Overrun, Base, Shape
    <3>5. WatchOK(s)'
      <4>1. WatchOK(s) /\ pc[s] \in Live
        BY <3>1, Stages DEF Base
      <4> QED BY <3>2, <3>3, <3>4, <4>1, Stages DEF WatchOK
    <3> QED BY <3>1, <3>2, <3>5, PassesKept DEF Good
  <2>2. CASE result[s] # "ok"
    BY <1>3, <2>2, StopStays, Stages DEF DialResult
  <2> QED BY <2>1, <2>2
<1>4. CASE Register(s) \/ \E ok \in BOOLEAN : DialEnds(s, ok) \/ Report(s, ok)
  <2>1. UNCHANGED <<now, policy, lease, pc, permit, timer, reading>>
    BY <1>4 DEF Register, DialEnds, Report, local
  <2>2. WatchOK(s)
    BY DEF Base
  <2> QED BY <2>1, <2>2, PassesKept DEF Good, Apart, WatchOK, Bound, Overrun, Base, Shape
<1> QED BY <1>1, <1>2, <1>3, <1>4 DEF Connecting

LEMMA CheckGood ==
    ASSUME Base, NEW s \in Session, Check(s)
    PROVE  Good(s)
<1> USE DEF Goto
<1>1. UNCHANGED <<now, policy, lease, permit, timer>> /\ pc[s] \in {"activating", "checking"}
  BY DEF Check
<1>2. CASE pc' = [pc EXCEPT ![s] = "stopping"] /\ reading' = reading
  BY <1>1, <1>2, StopStays, Stages
<1>3. ASSUME NEW x, x = IF pc[s] = "activating" THEN "activated" ELSE "renewing",
             pc' = [pc EXCEPT ![s] = x], reading' = [reading EXCEPT ![s] = now]
      PROVE  Good(s)
  <2>1. Shape' /\ Apart(s) /\ pc'[s] = x /\ reading'[s] = now /\ now \in Nat
    BY <1>1, <1>3, Stages DEF Base, Shape, Apart
  <2>2. WatchOK(s) /\ pc[s] \in Live /\ now < timer[s]
    BY <1>1, Stages DEF Base, Check
  <2>3. /\ Bound(s)' = Bound(s) /\ Bound(s) \in Nat /\ timer[s] \in Nat /\ Timeout \in Nat /\ TTL \in Nat
        /\ lease[s].expires \in Nat /\ permit[s].until \in Nat
    BY <1>1, BoundNat, Consts DEF Bound, Base, Shape, LeaseShape, PermitShape
  <2>4. now <= Bound(s) + Overrun(s)'
    <3>1. CASE x = "activated"
      BY <1>1, <1>3, <2>1, <2>2, <3>1, Stages, OverrunIs DEF WatchOK, Overrun
    <3>2. CASE x = "renewing"
      BY <1>1, <1>3, <2>1, <2>2, <2>3, <3>2, Stages DEF WatchOK, Overrun
    <3> QED BY <1>3, <3>1, <3>2
  <2>5. WatchOK(s)'
    <3>1. timer[s] <= now + Timeout /\ permit[s].until <= now + TTL
      BY <1>1, <2>2 DEF WatchOK
    <3>2. x = "renewing" => timer[s] <= Bound(s)
      BY <1>1, <1>3, <2>2, Stages DEF WatchOK
    <3>3. x = "activated" => timer[s] <= Bound(s) + Timeout
      BY <1>1, <1>3, <2>2, Stages DEF WatchOK
    <3>4. x \in {"activated", "renewing"}
      BY <1>3
    <3>5. permit[s].until <= lease[s].expires /\ permit[s].deadline = lease[s].deadline
      BY <2>2 DEF WatchOK
    <3> QED BY <1>1, <2>1, <2>3, <2>4, <3>1, <3>2, <3>3, <3>4, <3>5, Stages DEF WatchOK
  <2> QED BY <1>1, <2>1, <2>5, PassesKept DEF Good
<1> QED BY <1>2, <1>3 DEF Check

LEMMA RenewGood ==
    ASSUME Base, NEW s \in Session, Renew(s), Timeout <= TTL
    PROVE  Good(s)
<1> DEFINE until == reading[s] + TTL
           known == Earlier(until, permit[s].deadline)
<1>1. pc[s] \in {"activated", "renewing"} /\ now < timer[s] /\ UNCHANGED <<now, policy, reading>>
  BY DEF Renew
<1>2. CASE ~CanRenew(s)
  BY <1>1, <1>2, StopStays, Stages DEF Renew, Goto
<1>3. CASE CanRenew(s)
  <2>1. WatchOK(s) /\ Shape
    BY DEF Base
  <2>2. /\ lease[s] \in LeaseShape /\ permit[s] \in PermitShape /\ timer[s] \in Nat
        /\ reading[s] \in Nat /\ now \in Nat /\ permit[s].deadline \in Nat /\ until \in Nat
        /\ TTL \in Nat /\ Timeout \in Nat /\ Interval \in Nat /\ lease[s].deadline \in Nat
    BY <2>1, Consts DEF Shape, LeaseShape, PermitShape
  <2>3. known \in Nat /\ known <= until /\ known <= permit[s].deadline
        /\ (known = until \/ known = permit[s].deadline)
    BY <2>2, EarlierIs
  <2>4. pc[s] = "renewing" \/ Prompt => Effective(lease[s], now)
    BY <1>1, <1>3, RenewsHeld
  <2>5. permit[s].deadline = lease[s].deadline
    BY <1>1, <2>1, Stages DEF WatchOK
  <2>6. /\ now <= known + Timeout /\ until <= now + TTL
        /\ pc[s] = "renewing" \/ Prompt => now <= known
    <3>1. timer[s] <= reading[s] + Timeout /\ reading[s] <= now
      BY <1>1, <2>1 DEF WatchOK
    <3>2. now <= until /\ until <= now + TTL
      BY <1>1, <2>2, <3>1
    <3>3. now < permit[s].deadline + Timeout
      <4>1. reading[s] < permit[s].deadline
        BY <1>3, <2>5 DEF CanRenew, Effective
      <4> QED BY <1>1, <2>2, <3>1, <4>1
    <3>4. pc[s] = "renewing" \/ Prompt => now < permit[s].deadline
      BY <2>4, <2>5 DEF Effective
    <3> QED BY <2>2, <2>3, <3>2, <3>3, <3>4
  <2>7. /\ lease' = [lease EXCEPT ![s].expires = until]
        /\ permit' = [permit EXCEPT ![s].until = until]
    BY <1>3 DEF Renew
  <2>8. PICK x \in {"checking", "sleeping"}, t \in Nat :
           /\ pc' = [pc EXCEPT ![s] = x] /\ timer' = [timer EXCEPT ![s] = t]
           /\ t <= known /\ (x = "checking" => t <= now + Timeout)
           /\ x = "sleeping" => pc[s] = "renewing"
    <3>1. /\ Earlier(now + Timeout, known) \in Nat /\ Earlier(now + Interval, known) \in Nat
          /\ Earlier(now + Timeout, known) <= known /\ Earlier(now + Interval, known) <= known
          /\ Earlier(now + Timeout, known) <= now + Timeout
      <4>1. now + Timeout \in Nat /\ now + Interval \in Nat /\ known \in Nat
        BY <2>2, <2>3
      <4> HIDE DEF known
      <4> QED BY <4>1, EarlierIs
    <3>2. \/ /\ pc' = [pc EXCEPT ![s] = "checking"]
             /\ timer' = [timer EXCEPT ![s] = Earlier(now + Timeout, known)]
          \/ /\ pc' = [pc EXCEPT ![s] = "sleeping"] /\ pc[s] = "renewing"
             /\ timer' = [timer EXCEPT ![s] = Earlier(now + Interval, known)]
      BY <1>1, <1>3 DEF Renew, Goto, Sleep
    <3> HIDE DEF known
    <3> QED BY <3>1, <3>2
  <2> HIDE DEF known
  <2>9. /\ lease'[s].expires = until /\ lease'[s].deadline = lease[s].deadline
        /\ lease'[s].state = lease[s].state /\ lease'[s].revision = lease[s].revision
        /\ permit'[s].until = until /\ permit'[s].deadline = permit[s].deadline
        /\ lease'[s] \in LeaseShape /\ permit'[s] \in PermitShape
    BY <2>1, <2>2, <2>7 DEF Shape, LeaseShape, PermitShape
  <2>10. /\ lease' \in [Session -> LeaseShape] /\ permit' \in [Session -> PermitShape]
    BY <2>1, <2>7, <2>9 DEF Shape
  <2>11. Shape' /\ Apart(s) /\ pc'[s] = x /\ timer'[s] = t
    BY <1>1, <2>1, <2>7, <2>8, <2>10, Stages DEF Shape, Apart
  <2>12. Bound(s)' = known
    BY <2>9 DEF Bound, known
  <2>13. WatchOK(s)'
    <3>1. permit'[s].until <= lease'[s].expires /\ permit'[s].deadline = lease'[s].deadline
      BY <2>2, <2>5, <2>9
    <3>2. now' = now /\ permit'[s].until <= now + TTL
      BY <1>1, <2>6, <2>9
    <3>3. now <= known + Overrun(s)'
      <4>1. CASE x = "sleeping"
        BY <2>2, <2>3, <2>6, <2>8, <2>11, <4>1, Stages DEF Overrun
      <4>2. CASE x = "checking" /\ Prompt
        BY <2>2, <2>3, <2>6, <2>11, <4>2, Stages DEF Overrun
      <4>3. CASE x = "checking" /\ ~Prompt
        BY <2>6, <2>11, <4>3, Stages DEF Overrun
      <4> QED BY <2>8, <4>1, <4>2, <4>3
    <3> QED BY <2>8, <2>11, <2>12, <3>1, <3>2, <3>3, Stages DEF WatchOK
  <2>14. Passes(s)
    <3>1. Prompt => Effective(lease[s], now)
      BY <2>4
    <3> QED BY <2>9, <3>1 DEF Passes
  <2> QED BY <1>1, <2>11, <2>13, <2>14 DEF Good
<1> QED BY <1>2, <1>3

LEMMA RunningGood ==
    ASSUME Base, NEW s \in Session, Running(s), Timeout <= TTL
    PROVE  Good(s)
<1> USE DEF Goto, Sleep
<1>1. CASE Wake(s)
  <2>1. Shape /\ WatchOK(s) /\ pc[s] = "sleeping"
    BY <1>1 DEF Base, Wake
  <2>2. permit[s].until \in Nat /\ permit[s].deadline \in Nat /\ now \in Nat /\ now + Timeout \in Nat
    BY <2>1, Consts DEF Shape, PermitShape
  <2>3. Bound(s) \in Nat
    BY <2>2, EarlierIs DEF Bound
  <2>4. WatchContext(s) \in Nat /\ WatchContext(s) <= now + Timeout /\ WatchContext(s) <= Bound(s)
    BY <2>2, <2>3, EarlierIs DEF WatchContext
  <2>5. /\ pc' = [pc EXCEPT ![s] = "checking"] /\ timer' = [timer EXCEPT ![s] = WatchContext(s)]
        /\ UNCHANGED <<now, policy, lease, permit, reading>>
    BY <1>1 DEF Wake
  <2>6. Shape' /\ Apart(s) /\ pc'[s] = "checking" /\ timer'[s] = WatchContext(s)
    BY <2>1, <2>4, <2>5, Stages DEF Shape, Apart
  <2>7. Bound(s)' = Bound(s)
    BY <2>5 DEF Bound
  <2>8. WatchOK(s)'
    <3>1. /\ permit[s].until <= lease[s].expires /\ permit[s].deadline = lease[s].deadline
          /\ permit[s].until <= now + TTL /\ now <= Bound(s)
      BY <2>1, <2>2, <2>3, Stages, OverrunIs DEF WatchOK
    <3>2. now <= Bound(s) + Overrun(s)' /\ Overrun(s)' \in Nat
      BY <2>2, <2>3, <2>6, <3>1, Consts, Stages DEF Overrun
    <3> QED BY <2>4, <2>5, <2>6, <2>7, <3>1, <3>2, Stages DEF WatchOK
  <2> QED BY <2>5, <2>6, <2>8, PassesKept DEF Good
<1>2. ASSUME NEW renewed \in BOOLEAN, CheckFails(s, renewed) PROVE Good(s)
  <2>1. pc' = [pc EXCEPT ![s] = "stopping"] /\ UNCHANGED <<now, policy, timer, reading, permit>>
    BY <1>2 DEF CheckFails, local
  <2>2. CASE ~renewed
    BY <1>2, <2>1, <2>2, StopStays, Stages DEF CheckFails
  <2>3. CASE renewed
    <3>1. /\ pc[s] \in {"activated", "renewing"} /\ CanRenew(s) /\ now < timer[s]
          /\ lease' = [lease EXCEPT ![s].expires = reading[s] + TTL]
      BY <1>2, <2>3 DEF CheckFails
    <3>2. Prompt => Effective(lease[s], now)
      BY <3>1, RenewsHeld
    <3>3. reading[s] + TTL \in Nat /\ lease[s] \in LeaseShape
      BY Consts DEF Base, Shape
    <3>4. /\ lease' \in [Session -> LeaseShape] /\ lease'[s].revision = lease[s].revision
          /\ \A q \in Session \ {s} : lease'[q] = lease[q]
          /\ lease'[s].deadline = lease[s].deadline /\ lease'[s].expires = reading[s] + TTL
      BY <3>1, <3>3 DEF Base, Shape, LeaseShape
    <3>5. Passes(s)
      BY <2>1, <3>2, <3>4 DEF Passes
    <3>6. permit[s].until <= lease'[s].expires
      BY <3>1, <3>4 DEF Base, WatchOK
    <3> QED BY <2>1, <3>1, <3>4, <3>5, <3>6, StopGood, Stages
  <2> QED BY <2>2, <2>3
<1> QED BY <1>1, <1>2, CheckGood, RenewGood DEF Running

LEMMA EndingGood ==
    ASSUME Base, NEW s \in Session, Ending(s)
    PROVE  Good(s)
<1>1. CASE Leave(s) \/ Stop(s) \/ Crash(s)
  <2>1. CASE Leave(s)
    BY <2>1, StopStays, Stages DEF Leave, Goto, local
  <2>2. CASE Stop(s) \/ Crash(s)
    BY <2>2, OutGood, PassesKept DEF Stop, Crash, Goto, local, Base, Shape
  <2> QED BY <1>1, <2>1, <2>2
<1>2. ASSUME NEW done \in BOOLEAN, Release(s, done) PROVE Good(s)
  <2>1. pc' = [pc EXCEPT ![s] = "ended"] /\ UNCHANGED <<now, policy, timer, reading, permit>>
    BY <1>2 DEF Release, Goto, local
  <2>2. CASE lease' = lease
    BY <2>1, <2>2, OutGood, PassesKept DEF Base, Shape
  <2>3. CASE lease' = [lease EXCEPT ![s] = [lease[s] EXCEPT !.state = "closed", !.expires = now]]
    <3>1. lease[s] \in LeaseShape /\ now \in Nat
      BY DEF Base, Shape
    <3>2. PICK y : y = [lease[s] EXCEPT !.state = "closed", !.expires = now]
      OBVIOUS
    <3>3. y \in LeaseShape /\ y.state = "closed" /\ y.revision = lease[s].revision
      BY <3>1, <3>2 DEF LeaseShape
    <3>4. lease' = [lease EXCEPT ![s] = y]
      BY <2>3, <3>2
    <3>5. /\ lease' \in [Session -> LeaseShape] /\ lease'[s] = y
          /\ \A q \in Session \ {s} : lease'[q] = lease[q]
      BY <3>3, <3>4 DEF Base, Shape
    <3>6. Passes(s)
      BY <3>3, <3>5 DEF Passes, Effective
    <3> QED BY <2>1, <3>5, <3>6, OutGood DEF Base, Shape
  <2> QED BY <1>2, <2>2, <2>3 DEF Release
<1> QED BY <1>1, <1>2 DEF Ending

LEMMA GoodBase ==
    ASSUME Base, NEW s \in Session, Good(s)
    PROVE  Base' /\ LeasesPass
<1>1. \A q \in Session : Passes(q)
  BY DEF Good, Passes, Apart
<1>2. RevisionOK'
  BY <1>1 DEF Good, Passes, RevisionOK, Base
<1> QED BY <1>1, <1>2, ApartOK DEF Good, Base, LeasesPass

\* A session is admitted: it takes one more place, if there is one.
LEMMA AdmitStep ==
    ASSUME Base, NEW s \in Session, NEW lost \in BOOLEAN, Admit(s, lost)
    PROVE  /\ Base' /\ policy' = policy /\ now' = now /\ CanEnter(s)
           /\ \A q \in Session \ {s} : lease'[q] = lease[q]
<1> DEFINE deadline == IF Limit = 0 THEN permit[s].deadline
                       ELSE Earlier(permit[s].deadline, now + Limit)
           new == [state |-> "active", expires |-> now + TTL, deadline |-> deadline,
                   revision |-> policy.revision]
<1>1. /\ pc[s] = "authorized" /\ CanEnter(s) /\ now < permit[s].deadline
      /\ UNCHANGED <<now, policy, timer, reading>> /\ lease' = [lease EXCEPT ![s] = new]
  BY DEF Admit, InScope, local
<1>2. /\ now \in Nat /\ permit[s] \in PermitShape /\ permit[s].deadline \in Nat
      /\ policy.revision \in Nat /\ TTL \in Nat /\ now + Limit \in Nat /\ Limit \in Nat
  BY Consts DEF Base, Shape, PermitShape
<1>3. deadline \in Nat /\ now <= deadline
  <2>1. PICK e \in Nat : e = Earlier(permit[s].deadline, now + Limit)
                        /\ (e = permit[s].deadline \/ e = now + Limit)
    BY <1>2, EarlierIs
  <2> QED BY <1>1, <1>2, <2>1
<1>4. new \in LeaseShape /\ now + TTL \in Nat
  BY <1>2, <1>3 DEF LeaseShape
<1>5. /\ lease' \in [Session -> LeaseShape] /\ lease'[s] = new
      /\ \A q \in Session \ {s} : lease'[q] = lease[q]
  BY <1>1, <1>4 DEF Base, Shape
<1>6. RevisionOK'
  BY <1>1, <1>2, <1>5 DEF RevisionOK, Base, Shape
<1>7. CASE lost
  <2>1. pc' = [pc EXCEPT ![s] = "ended"] /\ permit' = permit
    BY <1>7 DEF Admit, Goto
  <2>2. Shape' /\ Apart(s) /\ pc'[s] = "ended"
    BY <1>1, <1>5, <2>1, Stages DEF Base, Shape, Apart
  <2>3. WatchOK(s)'
    BY <2>2, Stages DEF WatchOK
  <2> QED BY <1>1, <1>5, <1>6, <2>2, <2>3, ApartOK DEF Base
<1>8. CASE ~lost
  <2> HIDE DEF deadline
  <2>1. /\ pc' = [pc EXCEPT ![s] = "waiting"]
        /\ permit' = [permit EXCEPT ![s] = [permit[s] EXCEPT !.deadline = deadline, !.until = now + TTL]]
    BY <1>8 DEF Admit, Goto, deadline
  <2>2. PICK y : y = [permit[s] EXCEPT !.deadline = deadline, !.until = now + TTL]
    OBVIOUS
  <2>3. y \in PermitShape /\ y.deadline = deadline /\ y.until = now + TTL
    BY <1>2, <1>3, <1>4, <2>2 DEF PermitShape
  <2>4. Shape' /\ Apart(s) /\ pc'[s] = "waiting" /\ permit'[s] = y
    BY <1>1, <1>5, <2>1, <2>2, <2>3, Stages DEF Base, Shape, Apart
  <2>7. Bound(s)' = Earlier(now + TTL, deadline) /\ Bound(s)' \in Nat
    BY <1>3, <1>4, <2>3, <2>4, EarlierIs DEF Bound
  <2>5. now <= Bound(s)'
    BY <1>2, <1>3, <1>4, <2>7, EarlierIs
  <2>6. WatchOK(s)'
    <3>1. /\ permit'[s].until = now + TTL /\ permit'[s].deadline = deadline
          /\ lease'[s].expires = now + TTL /\ lease'[s].deadline = deadline /\ now' = now
      BY <1>1, <1>5, <2>3, <2>4
    <3>2. now <= Bound(s)' + Overrun(s)'
      <4>1. Overrun(s)' = 0
        BY <2>4, Stages DEF Overrun
      <4> QED BY <1>2, <2>5, <2>7, <4>1
    <3> QED BY <1>4, <2>4, <3>1, <3>2, Stages DEF WatchOK
  <2> QED BY <1>1, <1>5, <1>6, <2>4, <2>6, ApartOK DEF Base
<1> QED BY <1>7, <1>8

\* The clock moves on only when no timer has run out.
LEMMA TickStep ==
    ASSUME Base, Tick
    PROVE  Base' /\ LeasesPass
<1>1. /\ now' = now + 1 /\ now \in Nat
      /\ UNCHANGED <<policy, lease, pc, permit, timer, reading>>
  BY DEF Tick, local, Base, Shape
<1>2. ASSUME NEW s \in Session PROVE WatchOK(s)' /\ Passes(s)
  <2>1. ~Urgent(s) /\ WatchOK(s)
    BY DEF Tick, Base
  <2>2. /\ lease[s].expires \in Nat /\ lease[s].deadline \in Nat /\ permit[s].until \in Nat
        /\ permit[s].deadline \in Nat /\ timer[s] \in Nat /\ reading[s] \in Nat /\ Timeout \in Nat
    BY Consts DEF Base, Shape, LeaseShape, PermitShape
  <2>3. Bound(s) \in Nat /\ Bound(s)' = Bound(s)
    BY <1>1, <2>2, EarlierIs DEF Bound
  <2>4. pc[s] # "stopping" /\ ~(Prompt /\ pc[s] = "activated")
    BY <2>1 DEF Urgent
  <2>5. /\ pc[s] \in {"waiting"} \cup Watching => now < Bound(s)
        /\ pc[s] \in Activation => now < Bound(s) + Timeout
    BY <1>1, <2>1, <2>2, <2>3, Stages DEF Urgent, WatchOK
  <2>6. WatchOK(s)'
    <3>1. /\ Overrun(s)' = Overrun(s) /\ Overrun(s) \in Nat
          /\ pc[s] \in Activation => Overrun(s) = Timeout
      BY <1>1, <2>2, OverrunIs, Stages DEF Overrun
    <3>2. pc[s] \in Live => now' <= Bound(s) + Overrun(s)
      BY <1>1, <2>2, <2>3, <2>4, <2>5, <3>1, Stages
    <3>3. TTL \in Nat
      BY Consts
    <3>4. /\ pc' = pc /\ lease' = lease /\ permit' = permit /\ timer' = timer /\ reading' = reading
      BY <1>1
    <3>5. /\ permit[s].until <= now + TTL => permit[s].until <= now' + TTL
          /\ timer[s] <= now + Timeout => timer[s] <= now' + Timeout
          /\ reading[s] <= now => reading[s] <= now'
      BY <1>1, <2>2, <3>3
    <3> QED BY <2>1, <2>3, <2>4, <3>1, <3>2, <3>4, <3>5 DEF WatchOK
  <2>7. Passes(s)
    BY <1>1, <2>2 DEF Passes, Effective
  <2> QED BY <2>6, <2>7
<1>3. Shape'
  BY <1>1 DEF Base, Shape
<1>4. RevisionOK'
  BY <1>1 DEF Base, RevisionOK
<1> QED BY <1>1, <1>2, <1>3, <1>4 DEF Base, LeasesPass

\* Every save is a revision that no lease has yet.
LEMMA SaveStep ==
    ASSUME Base, NEW max \in Max, SavePolicy(max)
    PROVE  Base' /\ \A s \in Session : lease'[s].revision # policy'.revision
<1>1. /\ policy' = [revision |-> policy.revision + 1, max |-> max, since |-> now]
      /\ UNCHANGED <<now, lease, pc, permit, timer, reading>>
  BY DEF SavePolicy, local
<1>2. Shape'
  BY <1>1, Consts DEF Base, Shape
<1>3. \A s \in Session : WatchOK(s)'
  BY <1>1 DEF Base, WatchOK, Bound, Overrun
<1>4. \A s \in Session : lease'[s].revision <= policy.revision /\ lease'[s].revision \in Nat
  BY <1>1 DEF Base, RevisionOK, Shape, LeaseShape
<1>5. RevisionOK' /\ \A s \in Session : lease'[s].revision # policy'.revision
  BY <1>1, <1>4 DEF RevisionOK, Base, Shape
<1> QED BY <1>2, <1>3, <1>5 DEF Base

LEMMA StillStep ==
    ASSUME Base, UNCHANGED <<now, policy, lease, pc, permit, timer, reading>>
    PROVE  Base' /\ LeasesPass
<1>1. \A s \in Session : WatchOK(s)'
  BY DEF Base, WatchOK, Bound, Overrun
<1> QED BY <1>1 DEF Base, Shape, RevisionOK, LeasesPass, Passes

\* What a step does to the places: nothing is taken, or one is, or none counts.
LEMMA NextPlaces ==
    ASSUME Base, [Next]_vars, Timeout <= TTL
    PROVE  /\ Base'
           /\ \/ LeasesPass
              \/ \E s \in Session, lost \in BOOLEAN : Admit(s, lost)
              \/ \A s \in Session : lease'[s].revision # policy'.revision
<1>1. ASSUME NEW s \in Session, Connecting(s) \/ Running(s) \/ Ending(s),
             ~\E lost \in BOOLEAN : Admit(s, lost)
      PROVE  Base' /\ LeasesPass
  BY <1>1, ConnectingGood, RunningGood, EndingGood, GoodBase
<1>2. ASSUME NEW s \in Session, Withdraw(s) PROVE Base' /\ LeasesPass
  BY <1>2, StillStep DEF Withdraw, local
<1>3. CASE UNCHANGED vars
  BY <1>3, StillStep DEF vars, local
<1> QED BY <1>1, <1>2, <1>3, AdmitStep, TickStep, SaveStep DEF Next

-----------------------------------------------------------------------------
\* The places of the account that are taken under its present policy.
Places == {s \in Taken : lease[s].revision = policy.revision}

LEMMA PlacesFinite == IsFiniteSet(Places) /\ IsFiniteSet(Taken) /\ Cardinality(Places) <= Cardinality(Taken)
                      /\ Cardinality(Places) \in Nat /\ Cardinality(Taken) \in Nat
<1>1. Taken \subseteq Session /\ Places \subseteq Taken
  BY DEF Taken, Places
<1>2. IsFiniteSet(Taken)
  BY <1>1, SessionAssumption, FS_Subset
<1> QED BY <1>1, <1>2, FS_Subset, FS_CardinalityType

\* PAMSession!WithinLimit: the leases that count under the present policy are never
\* more than its MaxSessions, however admissions, renewals and policy changes mix.
THEOREM WithinLimitHolds ==
    ASSUME Prompt, Timeout <= TTL
    PROVE  Spec => []WithinLimit
<1>1. Init => WithinLimit
  <2> SUFFICES ASSUME Init, policy.max > 0 PROVE Cardinality(Places) <= policy.max
    BY DEF WithinLimit, Places
  <2>1. Places = {}
    BY DEF Init, Places, Taken, Effective
  <2>2. policy.max \in Nat
    BY BaseInit DEF Base, Shape
  <2> QED BY <2>1, <2>2, FS_EmptySet
<1>2. WithinLimit /\ Base /\ [Next]_vars => WithinLimit'
  <2> SUFFICES ASSUME WithinLimit, Base, [Next]_vars, policy'.max > 0
               PROVE  Cardinality(Places') <= policy'.max
    BY DEF WithinLimit, Places
  <2>1. policy'.max \in Nat /\ policy.max \in Nat
    BY NextPlaces DEF Base, Shape
  <2>2. CASE LeasesPass
    <3>1. Places' \subseteq Places /\ policy' = policy
      BY <2>2 DEF LeasesPass, Passes, Places, Taken
    <3>2. Cardinality(Places') <= Cardinality(Places) /\ Cardinality(Places') \in Nat
      BY <3>1, PlacesFinite, FS_Subset, FS_CardinalityType
    <3>3. Cardinality(Places) <= policy.max
      BY <3>1 DEF WithinLimit, Places
    <3> QED BY <2>1, <3>1, <3>2, <3>3, PlacesFinite
  <2>3. ASSUME NEW s \in Session, NEW lost \in BOOLEAN, Admit(s, lost)
        PROVE  Cardinality(Places') <= policy'.max
    <3>1. /\ policy' = policy /\ now' = now /\ CanEnter(s)
          /\ \A q \in Session \ {s} : lease'[q] = lease[q]
      BY <2>3, AdmitStep
    <3>2. Places' \subseteq Places \cup {s}
      BY <3>1 DEF Places, Taken
    <3>3. /\ IsFiniteSet(Places \cup {s}) /\ Cardinality(Places \cup {s}) \in Nat
          /\ Cardinality(Places \cup {s}) <= Cardinality(Places) + 1
      <4>1. /\ IsFiniteSet(Places \cup {s})
            /\ Cardinality(Places \cup {s}) = IF s \in Places THEN Cardinality(Places)
                                              ELSE Cardinality(Places) + 1
        BY PlacesFinite, FS_AddElement
      <4> QED BY <4>1, PlacesFinite
    <3>4. Cardinality(Places') <= Cardinality(Places \cup {s}) /\ Cardinality(Places') \in Nat
      BY <3>2, <3>3, FS_Subset, FS_CardinalityType
    <3>5. Cardinality(Taken) < policy.max
      BY <3>1 DEF CanEnter
    <3> QED BY <2>1, <3>1, <3>3, <3>4, <3>5, PlacesFinite
  <2>4. CASE \A s \in Session : lease'[s].revision # policy'.revision
    <3>1. Places' = {}
      BY <2>4 DEF Places, Taken
    <3> QED BY <2>1, <3>1, FS_EmptySet
  <2> QED BY <2>2, <2>3, <2>4, NextPlaces
<1>3. Base /\ [Next]_vars => Base'
  BY NextPlaces
<1> QED BY <1>1, <1>2, <1>3, BaseInit, PTL DEF Spec

-----------------------------------------------------------------------------
\* An open transport can be closed by the session, until its end is known to whoever
\* registers it later; and a crash closes what it leaves behind.
TransportOK ==
    \A s \in Session :
        /\ s \in open => dial[s] = "opened" \/ s \in hook
        /\ s \in shut => s \notin hook
        /\ pc[s] = "releasing" => s \in shut
        /\ pc[s] = "ended" => s \in shut \/ dial[s] \in {"none", "done"}
        /\ pc[s] = "ended" /\ s \notin shut => s \notin open
        /\ pc[s] \in {"idle", "authorized"} => dial[s] = "none" /\ s \notin open

TransportShape ==
    /\ pc \in [Session -> Stage]
    /\ dial \in [Session -> {"none", "dialing", "opened", "registered", "done"}]
    /\ open \subseteq Session

TransportInv == TransportShape /\ TransportOK

LEMMA TransportInit == Init => TransportInv
  BY Stages DEF Init, TransportInv, TransportShape, TransportOK

LEMMA TransportStep == TransportInv /\ [Next]_vars => TransportInv'
<1> SUFFICES ASSUME TransportInv, [Next]_vars PROVE TransportInv'
  OBVIOUS
<1> USE DEF TransportInv, TransportShape, TransportOK, Goto
\* The watcher goes on, or comes to its end, which Stop will look after.
<1>1. ASSUME NEW s \in Session, NEW x \in Stage \ {"releasing", "ended", "idle"},
             x = "authorized" => pc[s] = "idle",
             pc' = [pc EXCEPT ![s] = x], UNCHANGED <<dial, open, hook, shut>>
      PROVE  TransportInv'
  BY <1>1
<1>2. CASE UNCHANGED <<pc, dial, open, hook, shut>>
  BY <1>2
<1>3. ASSUME NEW s \in Session, Check(s) \/ Renew(s) \/ Wake(s) \/ Leave(s) \/ WaitEnds(s)
                               \/ DialResult(s) \/ \E renewed \in BOOLEAN : CheckFails(s, renewed)
      PROVE  TransportInv'
  <2>1. PICK x \in {"activated", "renewing", "stopping", "checking", "sleeping", "activating"} :
           pc' = [pc EXCEPT ![s] = x] /\ UNCHANGED <<dial, open, hook, shut>>
    BY <1>3 DEF Check, Renew, Wake, Leave, WaitEnds, DialResult, CheckFails, transport
  <2> QED BY <1>1, <2>1, Stages
<1>4. ASSUME NEW s \in Session, NEW deadline \in Deadline, Authorize(s, deadline) PROVE TransportInv'
  BY <1>1, <1>4, Stages DEF Authorize, transport
<1>5. ASSUME NEW s \in Session, NEW lost \in BOOLEAN, Admit(s, lost) PROVE TransportInv'
  BY <1>5, Stages DEF Admit
<1>6. ASSUME NEW s \in Session, Refuse(s) PROVE TransportInv'
  BY <1>6, Stages DEF Refuse, transport
<1>7. ASSUME NEW s \in Session, Stop(s) PROVE TransportInv'
  BY <1>7, Stages DEF Stop
<1>8. ASSUME NEW s \in Session, NEW done \in BOOLEAN, Release(s, done) PROVE TransportInv'
  BY <1>8, Stages DEF Release, transport
<1>9. ASSUME NEW s \in Session, NEW ok \in BOOLEAN, DialEnds(s, ok) PROVE TransportInv'
  BY <1>9 DEF DialEnds
<1>10. ASSUME NEW s \in Session, Register(s) PROVE TransportInv'
  BY <1>10 DEF Register
<1>11. ASSUME NEW s \in Session, NEW ok \in BOOLEAN, Report(s, ok) PROVE TransportInv'
  BY <1>11 DEF Report
<1>12. ASSUME NEW s \in Session, Crash(s) PROVE TransportInv'
  BY <1>12, Stages DEF Crash
<1>13. CASE Tick \/ (\E s \in Session : Withdraw(s)) \/ (\E max \in Max : SavePolicy(max)) \/ UNCHANGED vars
  BY <1>2, <1>13 DEF Tick, Withdraw, SavePolicy, vars, transport
<1> QED
  BY <1>3, <1>4, <1>5, <1>6, <1>7, <1>8, <1>9, <1>10, <1>11, <1>12, <1>13
     DEF Next, Connecting, Running, Ending

\* PAMSession!NothingLeftOpen: a session that was stopped leaves no transport behind,
\* except one that is being registered, which then closes.
THEOREM NothingLeftOpenHolds == Spec => []NothingLeftOpen
<1>1. TransportInv => NothingLeftOpen
  BY DEF TransportInv, TransportShape, TransportOK, NothingLeftOpen
<1> QED BY <1>1, TransportInit, TransportStep, PTL DEF Spec

\* PAMSession!Covered: a transport is open only while the lease and the deadline that
\* its session knows of last, and the lease in the database lasts as long; past them it
\* is for the time of one check at most, and only when they ran out during the
\* activation.  Nothing is asked of how long its renewal waits for the database.
THEOREM CoveredHolds ==
    ASSUME Timeout <= TTL
    PROVE  Spec => []Covered
<1>1. Base /\ TransportInv => Covered
  <2> SUFFICES ASSUME Base, TransportInv, NEW s \in open, pc[s] \notin {"releasing", "ended"}
               PROVE  now <= Bound(s) + Overrun(s) /\ Bound(s) <= lease[s].expires
    BY DEF Covered
  <2>1. s \in Session /\ pc[s] \in Live
    BY Stages DEF TransportInv, TransportShape, TransportOK
  <2>2. WatchOK(s) /\ permit[s].until \in Nat /\ lease[s].expires \in Nat
    BY <2>1 DEF Base, Shape, LeaseShape, PermitShape
  <2>3. Bound(s) \in Nat /\ Bound(s) <= permit[s].until
    BY <2>1, BoundNat
  <2> QED BY <2>1, <2>2, <2>3 DEF WatchOK
<1>2. Timeout <= TTL /\ Base /\ [Next]_vars => Base'
  BY NextPlaces
<1> QED BY <1>1, <1>2, BaseInit, TransportInit, TransportStep, PTL DEF Spec

-----------------------------------------------------------------------------
(* The end of a session whose permission is gone.  Nothing is asked of the *)
(* clock readings here: a check may wait for the database in any stage.    *)

WatchShape ==
    /\ now \in Nat
    /\ policy \in [revision : Nat, max : Nat, since : Nat]
    /\ withdrawn \in [Session -> Nat]
    /\ pc \in [Session -> Stage]
    /\ permit \in [Session -> PermitShape]
    /\ timer \in [Session -> Nat] /\ reading \in [Session -> Nat]

\* A check has Timeout to end, from its start, and the next is Interval away.
Timely(stage, t, r) ==
    /\ stage \in {"activating", "checking"} => t <= now + Timeout
    /\ stage = "sleeping" => t <= now + Interval
    /\ stage \in {"activated", "renewing"} => r <= now /\ now <= t /\ t <= r + Timeout

\* No check passed after w.
NoneAfter(w, stage, t, r) ==
    /\ stage \in {"activated", "renewing"} => r <= w
    /\ stage = "sleeping" => now <= w + Timeout + Interval /\ t <= w + Timeout + Interval
    /\ stage = "checking" =>
          now <= w + Interval + 2 * Timeout /\ t <= w + Interval + 2 * Timeout

CheckedOK(s) ==
    /\ Timely(pc[s], timer[s], reading[s])
    /\ NoneAfter(withdrawn[s], pc[s], timer[s], reading[s])
    /\ permit[s].revision < policy.revision =>
          NoneAfter(policy.since, pc[s], timer[s], reading[s])

CheckInv == WatchShape /\ \A s \in Session : CheckedOK(s)

LEMMA CheckInit == Init => CheckInv
<1> SUFFICES ASSUME Init PROVE CheckInv
  OBVIOUS
<1>1. WatchShape
  BY Consts, Stages DEF Init, WatchShape, PermitShape
<1>2. \A s \in Session : CheckedOK(s)
  BY DEF Init, CheckedOK, Timely, NoneAfter
<1> QED BY <1>1, <1>2 DEF CheckInv

\* A step of session s leaves the others as they are.
LEMMA OneChecked ==
    ASSUME CheckInv, NEW s \in Session, UNCHANGED <<now, policy, withdrawn>>,
           NEW x \in Stage, NEW p \in PermitShape, NEW t \in Nat, NEW r \in Nat,
           pc' = [pc EXCEPT ![s] = x], permit' = [permit EXCEPT ![s] = p],
           timer' = [timer EXCEPT ![s] = t], reading' = [reading EXCEPT ![s] = r],
           Timely(x, t, r), NoneAfter(withdrawn[s], x, t, r),
           p.revision < policy.revision => NoneAfter(policy.since, x, t, r)
    PROVE  CheckInv'
<1>1. WatchShape'
  BY DEF CheckInv, WatchShape
<1>2. pc'[s] = x /\ permit'[s] = p /\ timer'[s] = t /\ reading'[s] = r
  BY DEF CheckInv, WatchShape
<1>3. CheckedOK(s)'
  BY <1>2 DEF CheckedOK, Timely, NoneAfter
<1>4. ASSUME NEW q \in Session \ {s} PROVE CheckedOK(q)'
  <2>1. CheckedOK(q)
    BY DEF CheckInv
  <2>2. pc'[q] = pc[q] /\ permit'[q] = permit[q] /\ timer'[q] = timer[q] /\ reading'[q] = reading[q]
    BY DEF CheckInv, WatchShape
  <2> QED BY <2>1, <2>2 DEF CheckedOK, Timely, NoneAfter
<1> QED BY <1>1, <1>3, <1>4 DEF CheckInv

\* A session that is not watched.
LEMMA OutChecked ==
    ASSUME CheckInv, NEW s \in Session, UNCHANGED <<now, policy, withdrawn, timer, reading>>,
           NEW x \in {"authorized", "waiting", "stopping", "releasing", "ended"},
           pc' = [pc EXCEPT ![s] = x],
           permit' = permit \/ \E p \in PermitShape : permit' = [permit EXCEPT ![s] = p]
    PROVE  CheckInv'
<1>1. PICK p \in PermitShape : permit' = [permit EXCEPT ![s] = p]
  BY DEF CheckInv, WatchShape
<1>2. /\ timer[s] \in Nat /\ reading[s] \in Nat /\ x \in Stage
      /\ timer' = [timer EXCEPT ![s] = timer[s]] /\ reading' = [reading EXCEPT ![s] = reading[s]]
  BY Stages DEF CheckInv, WatchShape
<1>3. Timely(x, timer[s], reading[s]) /\ \A w : NoneAfter(w, x, timer[s], reading[s])
  BY DEF Timely, NoneAfter
<1> QED BY <1>1, <1>2, <1>3, OneChecked

\* The others, of which no stage depends on what the step changes.
LEMMA SameChecked ==
    ASSUME CheckInv, UNCHANGED <<now, policy, withdrawn, pc, permit, timer, reading>>
    PROVE  CheckInv'
  BY DEF CheckInv, WatchShape, CheckedOK, Timely, NoneAfter

LEMMA ConnectingChecked ==
    ASSUME CheckInv, NEW s \in Session, Connecting(s)
    PROVE  CheckInv'
<1> USE DEF Goto, Sleep
<1>0. permit[s] \in PermitShape /\ now \in Nat /\ policy.revision \in Nat /\ TTL \in Nat
      /\ Timeout \in Nat /\ reading[s] \in Nat
  BY Consts DEF CheckInv, WatchShape
<1>1. ASSUME NEW deadline \in Deadline, Authorize(s, deadline) PROVE CheckInv'
  <2>1. [revision |-> policy.revision, deadline |-> deadline, until |-> 0] \in PermitShape
    BY <1>0, Consts DEF PermitShape
  <2> QED BY <1>1, <2>1, OutChecked DEF Authorize, local
<1>2. ASSUME NEW lost \in BOOLEAN, Admit(s, lost) PROVE CheckInv'
  <2> DEFINE deadline == IF Limit = 0 THEN permit[s].deadline ELSE Earlier(permit[s].deadline, now + Limit)
             p == [permit[s] EXCEPT !.deadline = deadline, !.until = now + TTL]
  <2>1. permit[s].deadline \in Nat /\ now + Limit \in Nat /\ now + TTL \in Nat
    BY <1>0, Consts DEF PermitShape
  <2>2. deadline \in Nat
    BY <2>1, EarlierIs
  <2> HIDE DEF deadline
  <2>3. p \in PermitShape
    BY <1>0, <2>1, <2>2 DEF PermitShape
  <2>4. \/ pc' = [pc EXCEPT ![s] = "ended"] /\ permit' = permit
        \/ pc' = [pc EXCEPT ![s] = "waiting"] /\ permit' = [permit EXCEPT ![s] = p]
    BY <1>2 DEF Admit, deadline
  <2>5. UNCHANGED <<now, policy, withdrawn, timer, reading>>
    BY <1>2 DEF Admit, local
  <2> HIDE DEF p
  <2> QED BY <2>3, <2>4, <2>5, OutChecked
<1>3. CASE Refuse(s) \/ WaitEnds(s)
  BY <1>3, OutChecked DEF Refuse, WaitEnds, local
<1>4. CASE DialResult(s)
  <2>1. CASE result[s] = "ok"
    <3>1. /\ pc' = [pc EXCEPT ![s] = "activating"] /\ timer' = [timer EXCEPT ![s] = now + Timeout]
          /\ UNCHANGED <<now, policy, withdrawn, permit, reading>>
      BY <1>4, <2>1 DEF DialResult
    <3>2. permit' = [permit EXCEPT ![s] = permit[s]] /\ reading' = [reading EXCEPT ![s] = reading[s]]
      BY <3>1 DEF CheckInv, WatchShape
    <3>3. /\ now + Timeout \in Nat /\ "activating" \in Stage
          /\ Timely("activating", now + Timeout, reading[s])
          /\ \A w : NoneAfter(w, "activating", now + Timeout, reading[s])
      BY <1>0, Stages DEF Timely, NoneAfter
    <3> QED BY <1>0, <3>1, <3>2, <3>3, OneChecked
  <2>2. CASE result[s] # "ok"
    BY <1>4, <2>2, OutChecked DEF DialResult
  <2> QED BY <2>1, <2>2
<1>5. CASE Register(s) \/ \E ok \in BOOLEAN : DialEnds(s, ok) \/ Report(s, ok)
  BY <1>5, SameChecked DEF Register, DialEnds, Report, local
<1> QED BY <1>1, <1>2, <1>3, <1>4, <1>5 DEF Connecting

LEMMA RunningChecked ==
    ASSUME CheckInv, NEW s \in Session, Running(s)
    PROVE  CheckInv'
<1> USE DEF Goto, Sleep
<1>0. /\ permit[s] \in PermitShape /\ permit[s].until \in Nat /\ permit[s].deadline \in Nat
      /\ now \in Nat /\ policy.since \in Nat /\ policy.revision \in Nat /\ withdrawn[s] \in Nat
      /\ timer[s] \in Nat /\ reading[s] \in Nat
      /\ TTL \in Nat /\ Timeout \in Nat /\ Interval \in Nat
  BY Consts DEF CheckInv, WatchShape, PermitShape
<1>1. /\ permit = [permit EXCEPT ![s] = permit[s]] /\ reading = [reading EXCEPT ![s] = reading[s]]
      /\ timer = [timer EXCEPT ![s] = timer[s]]
  BY DEF CheckInv, WatchShape
<1>2. CheckedOK(s)
  BY DEF CheckInv
\* What passes a check was permitted when it was read.
<1>3. CASE Check(s)
  <2>1. UNCHANGED <<now, policy, withdrawn, permit, timer>>
        /\ pc[s] \in {"activating", "checking"} /\ now < timer[s]
    BY <1>3 DEF Check
  <2>2. CASE pc' = [pc EXCEPT ![s] = "stopping"] /\ reading' = reading
    BY <2>1, <2>2, OutChecked
  <2>3. ASSUME NEW x \in {"activated", "renewing"}, InScope(s),
               pc' = [pc EXCEPT ![s] = x], reading' = [reading EXCEPT ![s] = now]
        PROVE  CheckInv'
    <3>1. Timely(x, timer[s], now)
      BY <1>0, <1>2, <2>1 DEF CheckedOK, Timely
    <3>2. NoneAfter(withdrawn[s], x, timer[s], now)
      BY <1>0, <2>3 DEF NoneAfter, InScope
    <3>3. ~(permit[s].revision < policy.revision)
      BY <1>0, <2>3 DEF InScope
    <3> QED BY <1>0, <1>1, <2>1, <2>3, <3>1, <3>2, <3>3, Stages, OneChecked
  <2> QED BY <1>3, <2>2, <2>3 DEF Check
\* A renewal sets the timer by the time that the check left it.
<1>4. CASE Renew(s)
  <2> DEFINE until == reading[s] + TTL
             known == Earlier(until, permit[s].deadline)
             p == [permit[s] EXCEPT !.until = until]
  <2>1. /\ UNCHANGED <<now, policy, withdrawn, reading>>
        /\ pc[s] \in {"activated", "renewing"} /\ now < timer[s]
    BY <1>4 DEF Renew
  <2>2. CASE ~CanRenew(s)
    BY <1>4, <2>1, <2>2, OutChecked DEF Renew
  <2>3. CASE CanRenew(s)
    <3>1. until \in Nat /\ now + Timeout \in Nat /\ now + Interval \in Nat
      BY <1>0
    <3>2. known \in Nat
      BY <1>0, <3>1, EarlierIs
    <3>3. p \in PermitShape /\ p.revision = permit[s].revision
      BY <1>0, <3>1 DEF PermitShape
    <3>4. permit' = [permit EXCEPT ![s] = p]
      BY <1>4, <2>3 DEF Renew
    <3>5. \/ /\ pc' = [pc EXCEPT ![s] = "checking"]
             /\ timer' = [timer EXCEPT ![s] = Earlier(now + Timeout, known)]
          \/ /\ pc' = [pc EXCEPT ![s] = "sleeping"]
             /\ timer' = [timer EXCEPT ![s] = Earlier(now + Interval, known)]
      BY <1>4, <2>3 DEF Renew
    <3> HIDE DEF known, p
    <3>6. PICK x \in {"checking", "sleeping"}, t \in Nat :
             /\ pc' = [pc EXCEPT ![s] = x] /\ timer' = [timer EXCEPT ![s] = t]
             /\ x = "checking" => t <= now + Timeout
             /\ x = "sleeping" => t <= now + Interval
      BY <3>1, <3>2, <3>5, EarlierIs
    <3>7. now < reading[s] + Timeout
      BY <1>0, <1>2, <2>1 DEF CheckedOK, Timely
    <3>8. Timely(x, t, reading[s])
      BY <3>6 DEF Timely
    <3>9. ASSUME NEW w \in Nat, NoneAfter(w, pc[s], timer[s], reading[s])
          PROVE  NoneAfter(w, x, t, reading[s])
      <4>1. now < w + Timeout
        BY <1>0, <2>1, <3>7, <3>9 DEF NoneAfter
      <4> QED BY <1>0, <3>6, <4>1 DEF NoneAfter
    <3>10. NoneAfter(withdrawn[s], x, t, reading[s])
      BY <1>0, <1>2, <3>9 DEF CheckedOK
    <3>11. p.revision < policy.revision => NoneAfter(policy.since, x, t, reading[s])
      BY <1>0, <1>2, <3>3, <3>9 DEF CheckedOK
    <3> QED BY <1>0, <1>1, <2>1, <3>3, <3>4, <3>6, <3>8, <3>10, <3>11, Stages, OneChecked
  <2> QED BY <2>2, <2>3
<1>5. CASE Wake(s)
  <2> DEFINE t == WatchContext(s)
  <2>1. /\ UNCHANGED <<now, policy, withdrawn, permit, reading>> /\ pc[s] = "sleeping"
        /\ pc' = [pc EXCEPT ![s] = "checking"] /\ timer' = [timer EXCEPT ![s] = t]
    BY <1>5 DEF Wake
  <2>2. t \in Nat /\ t <= now + Timeout
    <3>1. now + Timeout \in Nat
      BY <1>0
    <3>2. Bound(s) \in Nat
      BY <1>0, EarlierIs DEF Bound
    <3> QED BY <3>1, <3>2, EarlierIs DEF WatchContext
  <2> HIDE DEF t
  <2>3. Timely("checking", t, reading[s])
    BY <2>2 DEF Timely
  <2>4. ASSUME NEW w \in Nat, NoneAfter(w, pc[s], timer[s], reading[s])
        PROVE  NoneAfter(w, "checking", t, reading[s])
    BY <1>0, <2>1, <2>2, <2>4 DEF NoneAfter
  <2>5. /\ NoneAfter(withdrawn[s], "checking", t, reading[s])
        /\ permit[s].revision < policy.revision => NoneAfter(policy.since, "checking", t, reading[s])
    BY <1>0, <1>2, <2>4 DEF CheckedOK
  <2> QED BY <1>0, <1>1, <2>1, <2>2, <2>3, <2>5, Stages, OneChecked
<1>6. ASSUME NEW renewed \in BOOLEAN, CheckFails(s, renewed) PROVE CheckInv'
  BY <1>6, OutChecked DEF CheckFails, local
<1> QED BY <1>3, <1>4, <1>5, <1>6 DEF Running

LEMMA CheckStep ==
    ASSUME CheckInv, [Next]_vars PROVE CheckInv'
<1>1. ASSUME NEW s \in Session, Ending(s) PROVE CheckInv'
  <2>1. PICK x \in {"stopping", "releasing", "ended"} :
           pc' = [pc EXCEPT ![s] = x] /\ UNCHANGED <<now, policy, withdrawn, permit, timer, reading>>
    BY <1>1 DEF Ending, Leave, Stop, Crash, Release, Goto, local
  <2> QED BY <2>1, OutChecked
\* What is withdrawn now was not withdrawn when it was last checked.
<1>2. ASSUME NEW s \in Session PROVE NoneAfter(now, pc[s], timer[s], reading[s])
  <2>1. Timely(pc[s], timer[s], reading[s])
    BY DEF CheckInv, CheckedOK
  <2>2. now \in Nat /\ timer[s] \in Nat /\ reading[s] \in Nat /\ Timeout \in Nat /\ Interval \in Nat
    BY Consts DEF CheckInv, WatchShape
  <2> QED BY <2>1, <2>2 DEF Timely, NoneAfter
<1>3. ASSUME NEW s \in Session, Withdraw(s) PROVE CheckInv'
  <2>1. /\ withdrawn' = [withdrawn EXCEPT ![s] = now]
        /\ UNCHANGED <<now, policy, pc, permit, timer, reading>>
    BY <1>3 DEF Withdraw, local
  <2>2. WatchShape'
    BY <2>1 DEF CheckInv, WatchShape
  <2>3. ASSUME NEW q \in Session PROVE CheckedOK(q)'
    <3>1. withdrawn'[q] = IF q = s THEN now ELSE withdrawn[q]
      BY <2>1 DEF CheckInv, WatchShape
    <3> QED BY <1>2, <2>1, <3>1 DEF CheckInv, CheckedOK, Timely, NoneAfter
  <2> QED BY <2>2, <2>3 DEF CheckInv
<1>4. ASSUME NEW max \in Max, SavePolicy(max) PROVE CheckInv'
  <2>1. /\ policy' = [revision |-> policy.revision + 1, max |-> max, since |-> now]
        /\ UNCHANGED <<now, withdrawn, pc, permit, timer, reading>>
    BY <1>4 DEF SavePolicy, local
  <2>2. WatchShape'
    BY <2>1, Consts DEF CheckInv, WatchShape
  <2>3. \A q \in Session : CheckedOK(q)'
    BY <1>2, <2>1 DEF CheckInv, CheckedOK, Timely, NoneAfter
  <2> QED BY <2>2, <2>3 DEF CheckInv
\* The clock waits for a timer that has run out.
<1>5. CASE Tick
  <2>1. /\ now' = now + 1 /\ now \in Nat
        /\ UNCHANGED <<policy, withdrawn, pc, permit, timer, reading>>
    BY <1>5 DEF Tick, local, CheckInv, WatchShape
  <2>2. WatchShape'
    BY <2>1 DEF CheckInv, WatchShape
  <2>3. ASSUME NEW q \in Session PROVE CheckedOK(q)'
    <3>1. pc[q] \in Activation \cup Watching => now < timer[q]
      BY <1>5, <2>1 DEF Tick, Urgent, CheckInv, WatchShape
    <3>2. timer[q] \in Nat /\ reading[q] \in Nat /\ Timeout \in Nat /\ Interval \in Nat
      BY Consts DEF CheckInv, WatchShape
    <3>3. Timely(pc[q], timer[q], reading[q])'
      BY <2>1, <3>1, <3>2, Stages DEF CheckInv, CheckedOK, Timely
    <3>4. ASSUME NEW w \in Nat, NoneAfter(w, pc[q], timer[q], reading[q])
          PROVE  /\ pc[q] \in {"activated", "renewing"} => reading[q] <= w
                 /\ pc[q] = "sleeping" => now + 1 <= w + Timeout + Interval
                                          /\ timer[q] <= w + Timeout + Interval
                 /\ pc[q] = "checking" => now + 1 <= w + Interval + 2 * Timeout
                                          /\ timer[q] <= w + Interval + 2 * Timeout
      BY <2>1, <3>1, <3>2, <3>4, Stages DEF NoneAfter
    <3>5. withdrawn[q] \in Nat /\ policy.since \in Nat /\ CheckedOK(q)
      BY DEF CheckInv, WatchShape
    <3>6. NoneAfter(withdrawn[q], pc[q], timer[q], reading[q])'
      BY <2>1, <3>4, <3>5 DEF CheckedOK, NoneAfter
    <3>7. (permit[q].revision < policy.revision
              => NoneAfter(policy.since, pc[q], timer[q], reading[q]))'
      BY <2>1, <3>4, <3>5 DEF CheckedOK, NoneAfter
    <3> QED BY <3>3, <3>6, <3>7 DEF CheckedOK
  <2> QED BY <2>2, <2>3 DEF CheckInv
<1>6. CASE UNCHANGED vars
  BY <1>6, SameChecked DEF vars, local
<1> QED BY <1>1, <1>3, <1>4, <1>5, <1>6, ConnectingChecked, RunningChecked DEF Next

\* PAMSession!WithdrawnEnds: a watched session whose permission was withdrawn, or whose
\* policy was saved anew, is over within one interval and the time of two checks,
\* whatever the lengths of timers and leases and however long a statement of the
\* database waits within them.
THEOREM WithdrawnEndsHolds == Spec => []WithdrawnEnds
<1>1. CheckInv /\ TransportInv => WithdrawnEnds
  <2> SUFFICES ASSUME CheckInv, NEW s \in Session, pc[s] \in Watching
               PROVE  /\ now <= withdrawn[s] + Interval + 2 * Timeout
                      /\ permit[s].revision < policy.revision =>
                            now <= policy.since + Interval + 2 * Timeout
    BY DEF WithdrawnEnds, TransportInv, TransportShape
  <2>1. /\ now \in Nat /\ timer[s] \in Nat /\ reading[s] \in Nat /\ withdrawn[s] \in Nat
        /\ policy.since \in Nat /\ Timeout \in Nat /\ Interval \in Nat
    BY Consts DEF CheckInv, WatchShape
  <2>2. ASSUME NEW w \in Nat, NoneAfter(w, pc[s], timer[s], reading[s])
        PROVE  now <= w + Interval + 2 * Timeout
    <3>1. Timely(pc[s], timer[s], reading[s])
      BY DEF CheckInv, CheckedOK
    <3> QED BY <2>1, <2>2, <3>1, Stages DEF NoneAfter, Timely
  <2> QED BY <2>1, <2>2 DEF CheckInv, CheckedOK
<1> QED BY <1>1, CheckInit, CheckStep, TransportInit, TransportStep, PTL DEF Spec
=============================================================================
