--------------------------- MODULE EditForm_proofs ---------------------------
(***************************************************************************)
(* Proofs about EditForm for any number of forms, records, openings and    *)
(* calls under way.                                                        *)
(***************************************************************************)
EXTENDS EditForm, TLAPS

\* The form is one of the profiles, and stays the one it is.  The defaults of one that
\* shares none stay its own.
ViewOK ==
    /\ view \in Forms
    /\ ~view.shares => defaults = [of |-> New, shared |-> FALSE, due |-> FALSE]

LEMMA ViewSame == ASSUME [Next]_vars PROVE view' = view
  BY Zenon DEF Next, Answers, User, vars, Create, Edit, EditAsked, Cancel, Filled, FillFailed,
     DefaultsCome, Submit, SaveNext, FollowingEnds, SaveDone, SaveFailed, Test, TestEnds

\* What a successful save does to the form.
LEMMA DoneCases ==
    ASSUME view \in Forms, NEW s, SaveDone(s)
    PROVE  \/ view.onSave = "closes" /\ Leave /\ UNCHANGED loads
           \/ /\ view.onSave = "reloads" /\ UNCHANGED fields
              /\ loads' = IF target \in Records THEN Ask(target, FALSE) ELSE loads
           \/ /\ view.onSave = "stays" /\ UNCHANGED <<open, opening, defaults, loads>>
              /\ IF view.adopts /\ s.to = New
                 THEN /\ target' = Born
                      /\ holds' = IF s.opening = opening THEN Born ELSE holds
                      /\ meant' = IF s.opening = opening THEN Born ELSE meant
                 ELSE UNCHANGED <<target, holds, meant>>
<1>1. view.onSave \in {"closes", "stays", "reloads"}
  BY FormsAreProfiles DEF Profile
<1>2. CASE view.onSave = "closes"
  BY <1>2 DEF SaveDone
<1>3. CASE view.onSave = "reloads"
  BY <1>3 DEF SaveDone
<1>4. CASE view.onSave = "stays"
  BY <1>4 DEF SaveDone
<1> QED BY <1>1, <1>2, <1>3, <1>4

\* How a step may change the defaults.
LEMMA DefaultsStep ==
    ASSUME view \in Forms, [Next]_vars
    PROVE  \/ defaults' = defaults
           \/ \E of \in Refill : defaults' = Detached(of)
           \/ defaults.due
<1>0. defaults.of \in Refill
  BY DEF Refill
<1>1. CASE Create \/ Submit \/ Test \/ DefaultsCome \/ UNCHANGED vars
  BY <1>1 DEF Create, Submit, Test, DefaultsCome, vars, fields
<1>2. CASE Cancel
  BY <1>2 DEF Cancel, Leave
<1>3. ASSUME NEW r \in Records, Edit(r) \/ EditAsked(r)
      PROVE  defaults' = defaults \/ \E of \in Refill : defaults' = Detached(of)
  BY <1>0, <1>3 DEF Edit, EditAsked
<1>4. CASE \/ \E l \in loads : Filled(l) \/ FillFailed(l)
           \/ \E t \in tests : TestEnds(t)
           \/ \E s \in saves : SaveNext(s) \/ FollowingEnds(s) \/ SaveFailed(s)
  BY <1>4 DEF Filled, FillFailed, TestEnds, SaveNext, FollowingEnds, SaveFailed, fields
<1>5. ASSUME NEW s \in saves, SaveDone(s)
      PROVE  defaults' = defaults \/ \E of \in Refill : defaults' = Detached(of)
  BY <1>5, DoneCases DEF Leave, fields
<1> QED BY <1>1, <1>2, <1>3, <1>4, <1>5 DEF Next, Answers, User

\* The close of a form that shares nothing.
LEMMA LeaveOwn ==
    ASSUME ViewOK, ~view.shares, Leave
    PROVE  /\ open' = FALSE /\ UNCHANGED <<opening, meant>>
           /\ "close" \in view.blanks => target' = New /\ holds' = New
           /\ "close" \notin view.blanks => UNCHANGED <<target, holds>>
<1>1. Refill = {New}
  BY DEF ViewOK, Refill
<1> QED BY <1>1 DEF Leave

LEMMA ViewHolds == Spec => []ViewOK
<1>1. Init => ViewOK
  <2> SUFFICES ASSUME Init, ~view.shares PROVE ViewOK
    BY DEF Init, ViewOK
  <2>1. view.shares \in BOOLEAN
    BY FormsAreProfiles DEF Init, Profile
  <2>2. view.shares = FALSE
    BY <2>1
  <2> QED BY <2>2 DEF Init, ViewOK
<1>2. ViewOK /\ [Next]_vars => ViewOK'
  <2> SUFFICES ASSUME ViewOK, [Next]_vars PROVE ViewOK'
    OBVIOUS
  <2>1. view' = view
    BY ViewSame
  <2>2. CASE ~view.shares
    <3>1. defaults.of = New /\ ~defaults.shared /\ ~defaults.due
      BY <2>2 DEF ViewOK
    <3>2. Refill = {New}
      BY <3>1 DEF Refill
    <3>3. defaults' = defaults \/ defaults' = Detached(New)
      BY <3>1, <3>2, DefaultsStep DEF ViewOK
    <3> QED BY <2>1, <2>2, <3>1, <3>3 DEF ViewOK, Detached
  <2> QED BY <2>1, <2>2 DEF ViewOK
<1> QED BY <1>1, <1>2, PTL DEF Spec

-----------------------------------------------------------------------------
(* A save carries what its opening was for.                                *)

\* A plain form fetches nothing.  While it is closed its fields are empty if a close
\* resets them, and while it is open they are those of the record it was opened for;
\* so are the saves under way.
PlainInv ==
    Plain =>
        /\ loads = {}
        /\ \A s \in saves : Own(s)
        /\ open => target = meant /\ holds = meant
        /\ (~open /\ "close" \in view.blanks) => target = New /\ holds = New

\* The parts of a save that are of interest here.
LEMMA SentParts ==
    ASSUME NEW k
    PROVE  /\ Sent(k).to = target /\ Sent(k).from = holds /\ Sent(k).meant = meant
           /\ Sent(k).opening = opening
  BY DEF Sent

LEMMA PlainStep ==
    ASSUME \A f \in Forms : Resets(f), ViewOK, PlainInv, [Next]_vars
    PROVE  PlainInv'
<1> SUFFICES ASSUME Plain' PROVE PlainInv'
  BY DEF PlainInv
<1>0. /\ Plain /\ view' = view
      /\ view \in Profile /\ Resets(view)
  BY ViewSame, FormsAreProfiles DEF ViewOK, Plain
<1>d. ~defaults.due
  <2>1. ~view.shares
    BY <1>0 DEF Plain
  <2> QED BY <2>1 DEF ViewOK
<1>e. ASSUME view.fills = "entry" \/ "create" \in view.ops PROVE view.blanks # {}
  BY <1>0, <1>e DEF Resets, Plain
<1>b. ASSUME view.blanks # {}, "open" \notin view.blanks PROVE "close" \in view.blanks
  <2>1. view.blanks \subseteq {"open", "close"}
    BY <1>0 DEF Profile
  <2> QED BY <1>b, <2>1
<1>f. ASSUME NEW r \in Records, Edit(r)
      PROVE  /\ loads' = loads
             /\ \/ view.fills = "row" /\ holds' = r
                \/ view.fills = "entry" /\ holds' = Entered(r)
  <2>1. view.fills \notin {"content", "all"}
    BY <1>0 DEF Plain
  <2> QED BY <1>f, <2>1 DEF Edit
<1> USE <1>0 DEF PlainInv, Plain, Own
<1>1. CASE Create
  <2>1. open' /\ meant' = New /\ loads' = loads /\ saves' = saves
    BY <1>1 DEF Create, Appear
  <2>2. CASE "open" \in view.blanks
    BY <1>1, <2>1, <2>2 DEF Create
  <2>3. CASE "open" \notin view.blanks
    <3>1. target' = target /\ holds' = holds /\ ~open /\ "close" \in view.blanks
      BY <1>1, <1>b, <1>e, <2>3 DEF Create
    <3> QED BY <2>1, <3>1
  <2> QED BY <2>2, <2>3
<1>2. ASSUME NEW r \in Records, Edit(r) PROVE PlainInv'
  <2>1. open' /\ meant' = r /\ target' = r /\ saves' = saves /\ ~open
    BY <1>2 DEF Edit, Appear
  <2>2. /\ loads' = loads
        /\ \/ view.fills = "row" /\ holds' = r
           \/ view.fills = "entry" /\ holds' = Entered(r)
    BY <1>2, <1>f
  <2>3. view.fills = "entry" => Entered(r) = r
    BY <1>b, <1>e, <2>1 DEF Entered
  <2> QED BY <2>1, <2>2, <2>3
<1>3. ASSUME NEW r \in Records, EditAsked(r) PROVE PlainInv'
  BY <1>3 DEF EditAsked
<1>4. CASE Cancel
  BY <1>4, LeaveOwn DEF Cancel
<1>5. CASE Submit
  <2>1. ASSUME NEW s \in saves' PROVE s \in saves \/ (s.to = target /\ s.from = holds /\ s.meant = meant)
    <3>1. s \in saves \/ \E k \in Parts : s = Sent(k)
      BY <1>5 DEF Submit
    <3> QED
      BY <3>1, SentParts
  <2>2. open /\ UNCHANGED <<open, meant, target, holds, loads>>
    BY <1>5 DEF Submit, fields
  <2> QED
    BY <2>1, <2>2
<1>6. CASE Test
  BY <1>6 DEF Test, fields
<1>7. ASSUME NEW s \in saves, SaveDone(s) PROVE PlainInv'
  <2>1. \/ view.onSave = "closes" /\ Leave /\ UNCHANGED loads
        \/ view.onSave = "stays" /\ UNCHANGED <<target, holds, meant, open, loads>>
    BY <1>7, DoneCases DEF ViewOK
  <2>2. saves' \subseteq saves
    BY <1>7 DEF SaveDone, Following
  <2> QED
    BY <2>1, <2>2, LeaveOwn
<1>8. ASSUME NEW s \in saves, SaveNext(s) \/ FollowingEnds(s) \/ SaveFailed(s) PROVE PlainInv'
  BY <1>8 DEF SaveNext, FollowingEnds, SaveFailed, fields
<1>9. ASSUME NEW t \in tests, TestEnds(t) PROVE PlainInv'
  BY <1>9 DEF TestEnds, fields
<1>10. ASSUME NEW l \in loads, Filled(l) \/ FillFailed(l) PROVE PlainInv'
  BY <1>10
<1>12. ~DefaultsCome
  BY <1>d DEF DefaultsCome
<1>11. CASE UNCHANGED vars
  BY <1>11 DEF vars, fields
<1> QED
  BY <1>1, <1>2, <1>3, <1>4, <1>5, <1>6, <1>7, <1>8, <1>9, <1>10, <1>11, <1>12
     DEF Next, Answers, User

\* With forms that reset what they show, a save of a form that fetches nothing goes to
\* the record its opening was for and carries that record's fields.
THEOREM SavesOwnHolds ==
    ASSUME \A f \in Forms : Resets(f)
    PROVE  Spec => []SavesOwn
<1>1. Init => PlainInv
  BY DEF Init, PlainInv, Own
<1>2. ViewOK /\ PlainInv /\ [Next]_vars => PlainInv'
  BY PlainStep
<1>3. PlainInv => SavesOwn
  BY DEF PlainInv, SavesOwn
<1> QED BY <1>1, <1>2, <1>3, ViewHolds, PTL DEF Spec

-----------------------------------------------------------------------------
(* One record per opening.                                                 *)

\* A latched form has one save under way at most, and is locked meanwhile.  What an
\* opening has created is counted once, after which it is closed; later openings,
\* and the save under way, have created nothing yet.
LatchInv ==
    Latched =>
        /\ tests = {}
        /\ \A s, t \in saves : s = t
        /\ saves # {} => busy
        /\ opening \in Nat
        /\ created \in [1..MaxOps -> 0..1]
        /\ \A o \in 1..MaxOps : o > opening \/ (o = opening /\ open) => created[o] = 0
        /\ \A s \in saves :
              /\ s.opening \in Nat /\ s.opening <= opening
              /\ s.to = New /\ s.opening \in 1..MaxOps => created[s.opening] = 0

LEMMA LatchStep == ViewOK /\ LatchInv /\ [Next]_vars => LatchInv'
<1> SUFFICES ASSUME ViewOK, LatchInv, [Next]_vars, Latched' PROVE LatchInv'
  BY DEF LatchInv
<1>0. /\ Latched /\ view' = view
      /\ view \in Profile
  BY ViewSame, FormsAreProfiles DEF ViewOK, Latched
<1> USE <1>0, OpsAreNatural DEF LatchInv, Latched
<1>1. CASE /\ UNCHANGED <<busy, saves, tests, created>>
           /\ \/ UNCHANGED <<open, opening>>
              \/ open' = FALSE /\ opening' = opening
              \/ opening' = IF open THEN opening ELSE opening + 1
  BY <1>1
<1>2. CASE Create
  BY <1>1, <1>2 DEF Create, Appear
<1>3. ASSUME NEW r \in Records, Edit(r) \/ EditAsked(r) PROVE LatchInv'
  BY <1>1, <1>3 DEF Edit, EditAsked, Appear
<1>4. CASE Cancel
  BY <1>1, <1>4 DEF Cancel, Leave
<1>5. CASE Submit
  <2>1. /\ open /\ ~busy /\ busy' = TRUE
        /\ UNCHANGED <<open, opening, tests, created>>
    BY <1>5 DEF Submit, fields, Profile
  <2>2. saves = {} /\ saves' = {Sent(1)}
    BY <1>5, <2>1 DEF Submit, Parts
  <2> QED
    BY <2>1, <2>2, SentParts
<1>6. CASE Test
  BY <1>6 DEF Test
<1>7. ASSUME NEW l \in loads, Filled(l) \/ FillFailed(l) PROVE LatchInv'
  BY <1>1, <1>7 DEF Filled, FillFailed, Appear, fields
<1>8. ASSUME NEW s \in saves, SaveDone(s) PROVE LatchInv'
  <2>1. /\ saves' = {} /\ open' = FALSE
        /\ UNCHANGED <<opening, tests>>
        /\ created' = IF s.to = New THEN [created EXCEPT ![s.opening] = @ + 1] ELSE created
    <3>1. Leave
      BY <1>8, DoneCases DEF ViewOK
    <3>2. Following(s) = {}
      BY DEF Following
    <3> QED BY <1>8, <3>1, <3>2 DEF SaveDone, Leave
  <2>2. CASE s.to = New /\ s.opening \in 1..MaxOps
    <3>0. created[s.opening] = 0
      BY <2>2
    <3>1. created' = [created EXCEPT ![s.opening] = 1]
      BY <2>1, <2>2, <3>0
    <3> QED
      BY <2>1, <2>2, <3>1
  <2>3. CASE ~(s.to = New /\ s.opening \in 1..MaxOps)
    <3>1. created' = created
      BY <2>1, <2>3
    <3> QED
      BY <2>1, <3>1
  <2> QED BY <2>2, <2>3
<1>9. ASSUME NEW s \in saves, SaveNext(s) \/ FollowingEnds(s) PROVE LatchInv'
  BY <1>9 DEF SaveNext, FollowingEnds
<1>10. ASSUME NEW s \in saves, SaveFailed(s) PROVE LatchInv'
  BY <1>10 DEF SaveFailed, fields
<1>11. ASSUME NEW t \in tests, TestEnds(t) PROVE LatchInv'
  BY <1>11
<1>12. CASE DefaultsCome \/ UNCHANGED vars
  BY <1>1, <1>12 DEF DefaultsCome, vars, fields
<1> QED
  BY <1>2, <1>3, <1>4, <1>5, <1>6, <1>7, <1>8, <1>9, <1>10, <1>11, <1>12 DEF Next, Answers, User

\* A form whose lock only the answer of its save releases creates one record per
\* opening, whatever is pressed, closed and opened meanwhile.
THEOREM OneRecordHolds == Spec => []OneRecord
<1>1. Init => LatchInv
  BY OpsAreNatural DEF Init, LatchInv
<1>2. ViewOK /\ LatchInv /\ [Next]_vars => LatchInv'
  BY LatchStep
<1>3. LatchInv => OneRecord
  BY DEF LatchInv, OneRecord
<1> QED BY <1>1, <1>2, <1>3, ViewHolds, PTL DEF Spec

-----------------------------------------------------------------------------
(* What is shown belongs to the record the form is open for.               *)

\* A form that fetches its content whenever it opens.
Fetching ==
    /\ view.fills \in {"content", "all"} /\ view.asks = "always" /\ view.opens = "at once"

OnRecord == open /\ meant \in Records

Youngest(l) == \A k \in loads : k.no <= l.no

\* As long as calls are answered in order, the youngest is for the record the form is
\* open for, and when none is under way the content is that record's.
ShownInv ==
    (Fetching /\ ~overtaken) =>
        /\ \A l \in loads : l.no \in Nat /\ ~l.opens
        /\ \A k, l \in loads : k.no = l.no => k = l
        /\ loads # {} => \E l \in loads : Youngest(l) /\ (OnRecord => l.of = meant)
        /\ (loads = {} /\ OnRecord) => holds = meant
        /\ (view.onSave = "reloads" /\ OnRecord) => target = meant

\* The call Ask adds is younger than the others.
LEMMA AskYoungest ==
    ASSUME NEW r, NEW b \in BOOLEAN,
           \A l \in loads : l.no \in Nat,
           loads # {} => \E l \in loads : Youngest(l)
    PROVE  \E n \in Nat : /\ Ask(r, b) = loads \cup {[no |-> n, of |-> r, opens |-> b]}
                          /\ \A l \in loads : l.no < n
<1> DEFINE N == {0} \cup {l.no : l \in loads}
<1>1. PICK m \in N : \A y \in N : m >= y
  <2>1. CASE loads = {}
    BY <2>1
  <2>2. CASE loads # {}
    BY <2>2 DEF Youngest
  <2> QED BY <2>1, <2>2
<1>2. Max(N) \in N /\ \A y \in N : Max(N) >= y
  <2> HIDE DEF N
  <2> QED BY <1>1 DEF Max
<1>3. \A y \in N : y \in Nat
  OBVIOUS
<1>4. \A l \in loads : l.no \in N
  OBVIOUS
<1>5. Max(N) \in Nat /\ \A l \in loads : l.no <= Max(N)
  <2> HIDE DEF N
  <2> QED BY <1>2, <1>3, <1>4
<1> QED
  <2>1. Ask(r, b) = loads \cup {[no |-> Max(N) + 1, of |-> r, opens |-> b]}
    BY Zenon DEF Ask
  <2>2. PICK n : n = Max(N) + 1
    OBVIOUS
  <2> HIDE DEF N
  <2>3. n \in Nat /\ \A l \in loads : l.no < n
    BY <1>5, <2>2
  <2> QED BY <2>1, <2>2, <2>3

\* A call for the record the form is open for, or will be, keeps the order.
LEMMA ShownAsked ==
    ASSUME ShownInv, Fetching, ~overtaken, NEW r, loads' = Ask(r, FALSE),
           view' = view, OnRecord' => r = meant',
           (view.onSave = "reloads" /\ OnRecord') => target' = meant'
    PROVE  ShownInv'
<1>1. PICK n \in Nat : /\ loads' = loads \cup {[no |-> n, of |-> r, opens |-> FALSE]}
                       /\ \A l \in loads : l.no < n
  BY AskYoungest DEF ShownInv
<1>2. PICK new : new = [no |-> n, of |-> r, opens |-> FALSE]
  OBVIOUS
<1>3. new.no = n /\ new.of = r /\ ~new.opens
  BY <1>2
<1>4. loads' = loads \cup {new}
  BY <1>1, <1>2
<1>5. \A l \in loads : l.no \in Nat /\ l.no < n
  BY <1>1 DEF ShownInv
<1>6. \A l \in loads' : l.no \in Nat /\ ~l.opens
  BY <1>3, <1>4 DEF ShownInv
<1>7. \A k, l \in loads' : k.no = l.no => k = l
  <2>1. \A k, l \in loads : k.no = l.no => k = l
    BY DEF ShownInv
  <2>2. \A l \in loads : l.no # new.no
    BY <1>3, <1>5
  <2> QED BY <1>4, <2>1, <2>2
<1>8. Youngest(new)' /\ new \in loads' /\ (OnRecord' => new.of = meant')
  <2>1. \A l \in loads' : l.no <= new.no
    <3>1. \A l \in loads : l.no <= n
      BY <1>5
    <3>2. n <= n
      OBVIOUS
    <3> QED BY <1>3, <1>4, <3>1, <3>2
  <2> QED BY <1>3, <1>4, <2>1 DEF Youngest
<1> QED
  BY <1>6, <1>7, <1>8 DEF ShownInv

\* What changes neither calls nor openings keeps it.
LEMMA ShownKept ==
    ASSUME ShownInv, ~overtaken, UNCHANGED <<view, loads>>,
           OnRecord' => OnRecord /\ UNCHANGED <<meant, holds>>,
           (view.onSave = "reloads" /\ OnRecord') => target' = target
    PROVE  ShownInv'
  BY DEF ShownInv, Fetching, Youngest

\* Closed, or open for a new record.
LEMMA ShownOff ==
    ASSUME ShownInv, ~overtaken, view' = view, loads' \in {loads, {}}, ~OnRecord'
    PROVE  ShownInv'
  BY DEF ShownInv, Fetching, Youngest

LEMMA ShownStep ==
    ASSUME \A f \in Forms : ReloadsOwn(f), ViewOK, ShownInv, [Next]_vars
    PROVE  ShownInv'
<1> SUFFICES ASSUME Fetching', ~overtaken' PROVE ShownInv'
  BY DEF ShownInv
<1>a. view' = view
  BY ViewSame
<1>b. ~overtaken
  <2>1. \/ overtaken' = overtaken \/ overtaken' = TRUE
        \/ \E l \in loads : overtaken' = (overtaken \/ ~InOrder(l))
    BY Zenon DEF Next, Answers, User, vars, Create, Edit,
       EditAsked, Cancel, Filled, FillFailed, DefaultsCome, Submit, SaveNext, FollowingEnds, SaveDone,
       SaveFailed, Test, TestEnds
  <2> QED BY <2>1, Zenon
<1>0. /\ Fetching /\ view' = view /\ ~overtaken
      /\ view \in Profile /\ ReloadsOwn(view)
  BY <1>a, <1>b, FormsAreProfiles DEF ViewOK, Fetching
<1>d. ~defaults.due
  <2>1. view.fills # "row"
    BY <1>0 DEF Fetching
  <2>2. ~view.shares
    BY <1>0, <2>1, Zenon DEF ReloadsOwn
  <2> QED BY <2>2 DEF ViewOK
<1> USE <1>0, NewIsNoRecord
<1>1. CASE Create
  BY <1>1, ShownOff DEF Create, Appear, OnRecord
<1>2. ASSUME NEW r \in Records, Edit(r) PROVE ShownInv'
  <2>1. loads' = Ask(r, FALSE) /\ meant' = r
    BY <1>2 DEF Edit, Appear, Fetching
  <2>2. view.onSave = "reloads" => target' = meant'
    BY <1>2, <2>1 DEF Edit, ReloadsOwn
  <2> QED BY <2>1, <2>2, ShownAsked
<1>3. ASSUME NEW r \in Records, EditAsked(r) PROVE ShownInv'
  BY <1>3 DEF EditAsked, Fetching
<1>4. CASE Cancel
  BY <1>4, ShownOff DEF Cancel, Leave, OnRecord
<1>5. ASSUME NEW s \in saves, SaveDone(s) PROVE ShownInv'
  <2>0. view \in Forms
    BY DEF ViewOK
  <2>1. CASE view.onSave = "closes"
    BY <1>5, <2>0, <2>1, DoneCases, ShownOff DEF Leave, OnRecord
  <2>2. CASE view.onSave = "reloads"
    <3>1. /\ loads' = IF target \in Records THEN Ask(target, FALSE) ELSE loads
          /\ UNCHANGED <<open, meant, target, holds>>
      BY <1>5, <2>0, <2>2, DoneCases DEF fields
    <3>2. OnRecord' => target = meant
      BY <2>2, <3>1 DEF ShownInv, OnRecord
    <3>3. CASE target \in Records
      BY <3>1, <3>2, <3>3, ShownAsked
    <3>4. CASE target \notin Records
      BY <3>1, <3>4, ShownKept DEF OnRecord
    <3> QED BY <3>3, <3>4
  <2>3. CASE view.onSave = "stays"
    <3>1. /\ UNCHANGED <<open, loads>>
          /\ meant' = Born \/ UNCHANGED <<meant, holds>>
      BY <1>5, <2>0, <2>3, DoneCases
    <3>2. CASE meant' = Born
      BY <3>1, <3>2, ShownOff DEF OnRecord
    <3>3. CASE UNCHANGED <<meant, holds>>
      BY <2>3, <3>1, <3>3, ShownKept DEF OnRecord
    <3> QED BY <3>1, <3>2, <3>3
  <2> QED BY <2>1, <2>2, <2>3 DEF Profile
<1>6. ASSUME NEW l \in loads, Filled(l) PROVE ShownInv'
  <2>1. /\ ~l.opens /\ InOrder(l)
        /\ loads' = loads \ {l} /\ holds' = l.of
        /\ UNCHANGED <<open, meant>>
    BY <1>6 DEF Filled, ShownInv
  <2>2. view.onSave = "reloads" => target' = target
    BY <1>6 DEF Filled, ReloadsOwn
  <2>3. PICK y \in loads : Youngest(y) /\ (OnRecord => y.of = meant)
    BY DEF ShownInv
  <2>4. CASE y = l
    <3>1. \A k \in loads : k.no = l.no
      <4>1. \A k \in loads : k.no <= l.no /\ l.no <= k.no /\ k.no \in Nat
        BY <2>1, <2>3, <2>4 DEF Youngest, InOrder, ShownInv
      <4> QED BY <4>1
    <3>2. loads' = {}
      BY <2>1, <3>1 DEF ShownInv
    <3> QED
      BY <2>1, <2>2, <2>3, <2>4, <3>2 DEF ShownInv, OnRecord
  <2>5. CASE y # l
    <3>1. y \in loads' /\ Youngest(y)' /\ (OnRecord' => y.of = meant')
      BY <2>1, <2>3, <2>5 DEF Youngest, OnRecord
    <3> QED
      BY <2>1, <2>2, <3>1 DEF ShownInv, OnRecord
  <2> QED BY <2>4, <2>5
<1>7. ASSUME NEW l \in loads, FillFailed(l) PROVE ShownInv'
  BY <1>7 DEF FillFailed
<1>8. CASE \/ Submit \/ Test
           \/ \E s \in saves : SaveNext(s) \/ FollowingEnds(s) \/ SaveFailed(s)
           \/ \E t \in tests : TestEnds(t)
           \/ UNCHANGED vars
  <2>1. UNCHANGED <<open, meant, target, holds, loads>>
    BY <1>8 DEF Submit, Test, SaveNext, FollowingEnds, SaveFailed, TestEnds, vars, fields
  <2> QED BY <2>1, ShownKept DEF OnRecord
<1>9. ~DefaultsCome
  BY <1>d DEF DefaultsCome
<1> QED
  BY <1>1, <1>2, <1>3, <1>4, <1>5, <1>6, <1>7, <1>8, <1>9 DEF Next, Answers, User

\* A form that asks for its content at every opening shows that of the record it is
\* open for, once its calls have been answered in the order they were made.
THEOREM ShownOwnHolds ==
    ASSUME \A f \in Forms : ReloadsOwn(f)
    PROVE  Spec => []ShownOwn
<1>1. Init => ShownInv
  BY DEF Init, ShownInv, OnRecord
<1>2. ViewOK /\ ShownInv /\ [Next]_vars => ShownInv'
  BY ShownStep
<1>3. ShownInv => ShownOwn
  BY DEF ShownInv, ShownOwn, Fetching, OnRecord
<1> QED BY <1>1, <1>2, <1>3, ViewHolds, PTL DEF Spec
=============================================================================
