------------------------------ MODULE EditForm ------------------------------
(***************************************************************************)
(* A dialog or drawer of the web interface in which a record is created or *)
(* edited, or in which what belongs to a record is shown and changed       *)
(* (src/oneterm-ui).                                                       *)
(*                                                                         *)
(* One component instance serves every opening of a page, so what an       *)
(* opening leaves behind, in the fields, in the record a save goes to, in  *)
(* the lock of the OK button, in calls not yet answered, meets the next    *)
(* one.  Some thirty of these forms are written by hand and differ in what *)
(* they reset and when: a form is a record of those choices (UIForms.tla   *)
(* has one per form) and this module is what all of them do.               *)
(***************************************************************************)
EXTENDS Naturals, FiniteSetsExt

CONSTANTS
    Forms,      \* the forms: a set of records of type Profile
    Records,    \* records that exist
    New,        \* no record yet: what Create opens the form for
    Born,       \* a record this form has created, or was open for creating
    MaxOps      \* bound on openings, submissions and tests

(***************************************************************************)
(* fills    where an opening takes its content from: the row of the list   *)
(*          ("row"), the user, who starts from empty fields ("entry"), a   *)
(*          call whose answer brings the content ("content"), or both the  *)
(*          content and the record to save to ("all");                     *)
(* asks     such a call is made by every opening, or the code may return   *)
(*          before it;                                                     *)
(* opens    the form opens at once, or with the answer of a call that the  *)
(*          edit button makes first;                                       *)
(* blanks   when fields and record are reset: at the opening of an empty   *)
(*          form, at every close;                                          *)
(* locks    OK is disabled, or shows its spinner, while a save is under    *)
(*          way; unlocks says what ends that;                              *)
(* calls    OK makes one call, one for each choice at once, or one after   *)
(*          the other, each with what the fields hold when its turn comes, *)
(*          or a creation is followed by a second call, for which nothing  *)
(*          waits, with what they hold by then;                            *)
(* shares   when a call of the page is answered, the fields become those   *)
(*          of the defaults with which every close refills them, and what  *)
(*          is entered goes there;                                         *)
(* onSave   a successful save closes the form, leaves it to the next entry *)
(*          for the same record, or asks for its content again;            *)
(* adopts   the answer of a creation is the record the form goes on with;  *)
(* tests    a test call shares the lock;                                   *)
(* visited  it is a page of one record: leaving destroys it, and answers   *)
(*          that come later reach nothing;                                 *)
(* ops      what the page opens the form for, and whether it can save.     *)
(***************************************************************************)
Profile ==
    [fills : {"row", "entry", "content", "all"},
     asks : {"always", "perhaps"},
     opens : {"at once", "answered"},
     blanks : SUBSET {"open", "close"},
     locks : BOOLEAN,
     unlocks : SUBSET {"success", "failure", "close"},
     calls : {"one", "each", "sequence", "follows"},
     shares : BOOLEAN,
     onSave : {"closes", "stays", "reloads"},
     adopts : BOOLEAN,
     tests : BOOLEAN,
     visited : BOOLEAN,
     ops : SUBSET {"create", "edit", "save"}]

ASSUME FormsAreProfiles == Forms \subseteq Profile
ASSUME NewIsNoRecord == New \notin Records /\ Born \notin Records /\ New # Born
ASSUME OpsAreNatural == MaxOps \in Nat

Targets == Records \cup {New, Born}

VARIABLES
    view,       \* the form
    open,       \* it is visible
    opening,    \* which opening this is, counted from 1
    meant,      \* what the user opened it for
    target,     \* the record a save goes to
    holds,      \* whose content the fields hold
    defaults,   \* what a close puts there, whether the fields are its, whether its call is due
    loads,      \* calls for content not yet answered
    busy,       \* the lock
    saves,      \* saves not yet answered
    tests,      \* test calls not yet answered
    created,    \* per opening, the creations the server has answered
    overtaken,  \* an answer failed or came before an older one's
    ops         \* what the user has done so far

fields == <<open, opening, meant, target, holds, defaults>>
vars == <<view, fields, loads, busy, saves, tests, created, overtaken, ops>>

Defaults == [of : Targets, shared : BOOLEAN, due : BOOLEAN]
Load == [no : Nat, of : Records, opens : BOOLEAN]
Save == [no : Nat, part : 1..2, opening : Nat, to : Targets, from : Targets, meant : Targets]

\* Types; no save is younger than the user's last step, a form that fetches nothing
\* waits for nothing, and one that shares nothing is refilled with its own defaults.
TypeOK ==
    /\ view \in Forms
    /\ open \in BOOLEAN /\ busy \in BOOLEAN /\ overtaken \in BOOLEAN
    /\ opening \in 0..MaxOps /\ ops \in 0..MaxOps
    /\ meant \in Targets /\ target \in Targets /\ holds \in Targets
    /\ defaults \in Defaults
    /\ ~view.shares => defaults = [of |-> New, shared |-> FALSE, due |-> FALSE]
    /\ loads \subseteq Load /\ saves \subseteq Save
    /\ tests \in SUBSET Nat
    /\ created \in [1..MaxOps -> 0..MaxOps]
    /\ \A s \in saves : s.no <= ops /\ s.opening \in 1..opening
    /\ (view.fills \in {"row", "entry"} /\ view.onSave # "reloads") => loads = {}

Init ==
    /\ view \in Forms
    /\ open = FALSE /\ opening = 0
    /\ meant = New /\ target = New /\ holds = New
    /\ defaults = [of |-> New, shared |-> FALSE, due |-> view.shares]
    /\ loads = {} /\ saves = {} /\ tests = {}
    /\ busy = FALSE /\ overtaken = FALSE
    /\ created = [o \in 1..MaxOps |-> 0]
    /\ ops = 0

Counted == ops < MaxOps /\ ops' = ops + 1

-----------------------------------------------------------------------------
(* Opening and closing.                                                    *)

\* The form appears; its mask covers the page until it is closed.
Appear(r) ==
    /\ open' = TRUE
    /\ opening' = IF open THEN opening ELSE opening + 1
    /\ meant' = r

\* A page of one record is visited for it again and again, until it has created one.
Same(r) ==
    view.visited => \/ opening = 0
                    \/ meant = r /\ \A o \in 1..MaxOps : created[o] = 0

\* Create: an empty form.
Create ==
    /\ ~open /\ "create" \in view.ops /\ Same(New)
    /\ Appear(New)
    /\ IF "open" \in view.blanks
       THEN target' = New /\ holds' = New
       ELSE UNCHANGED <<target, holds>>
    /\ Counted
    /\ UNCHANGED <<view, defaults, loads, busy, saves, tests, created, overtaken>>

\* One more call for content, younger than those under way.
Ask(r, opens) ==
    loads \cup {[no |-> Max({0} \cup {l.no : l \in loads}) + 1, of |-> r, opens |-> opens]}

\* Fields the user fills start empty, unless something was left in them.
Entered(r) == IF "open" \in view.blanks \/ holds = New THEN r ELSE holds

\* The fields are no longer the defaults.
Detached(of) == [of |-> of, shared |-> FALSE, due |-> defaults.due]

\* Edit of a row, or a row's detail, in a form that opens at once.
Edit(r) ==
    /\ ~open /\ "edit" \in view.ops /\ view.opens = "at once" /\ Same(r)
    /\ Appear(r)
    /\ target' = IF view.fills = "all" THEN target ELSE r
    /\ defaults' = Detached(defaults.of)
    /\ \/ view.fills = "row" /\ holds' = r /\ UNCHANGED loads
       \/ view.fills = "entry" /\ holds' = Entered(r) /\ UNCHANGED loads
       \/ /\ view.fills \in {"content", "all"} /\ UNCHANGED holds
          /\ \/ loads' = Ask(r, FALSE)
             \/ view.asks = "perhaps" /\ UNCHANGED loads
    /\ Counted
    /\ UNCHANGED <<view, busy, saves, tests, created, overtaken>>

\* Edit of a row whose form waits for a call, where it makes one; the page stays
\* free meanwhile.  No call is made for what an earlier one brought into the row.
EditAsked(r) ==
    /\ ~open /\ "edit" \in view.ops /\ view.opens = "answered"
    /\ \/ /\ loads' = Ask(r, TRUE)
          /\ target' = IF view.fills = "all" THEN target ELSE r
          /\ UNCHANGED <<open, opening, meant, holds>>
       \/ /\ view.asks = "perhaps" /\ Appear(r)
          /\ target' = r
          /\ holds' = IF view.fills = "all" THEN r ELSE holds
          /\ UNCHANGED loads
    /\ Counted
    /\ UNCHANGED <<view, defaults, busy, saves, tests, created, overtaken>>

\* The defaults, and what the user may have entered there.
Refill ==
    {defaults.of} \cup
        IF open /\ defaults.shared THEN {IF meant = New THEN Born ELSE meant} ELSE {}

\* What a close leaves in the fields.
Leave ==
    /\ open' = FALSE
    /\ \E of \in Refill :
          /\ defaults' = Detached(of)
          /\ IF "close" \in view.blanks
             THEN target' = New /\ holds' = of
             ELSE UNCHANGED <<target, holds>>
    /\ UNCHANGED <<opening, meant>>

\* A slip: Cancel only hides the form.
CancelHides ==
    /\ open
    /\ open' = FALSE
    /\ busy' = IF "close" \in view.unlocks THEN FALSE ELSE busy
    /\ UNCHANGED <<opening, meant, target, holds, defaults>>
    /\ loads' = IF view.visited THEN {} ELSE loads
    /\ UNCHANGED <<view, saves, tests, created, overtaken, ops>>

\* Cancel, Escape or the cross, or another page, whatever is under way.
Cancel ==
    /\ open
    /\ Leave
    /\ busy' = IF "close" \in view.unlocks THEN FALSE ELSE busy
    /\ loads' = IF view.visited THEN {} ELSE loads
    /\ UNCHANGED <<view, saves, tests, created, overtaken, ops>>

-----------------------------------------------------------------------------
(* Answers that bring content.                                             *)

\* No older answer is still under way.
InOrder(l) == \A k \in loads : l.no <= k.no

\* A slip: the answer is not stored.
FilledNot(l) ==
    /\ loads' = loads \ {l}
    /\ overtaken' = (overtaken \/ ~InOrder(l))
    /\ UNCHANGED <<view, fields, busy, saves, tests, created, ops>>

\* The answer is stored whatever the form shows by now; an edit that waited for
\* it opens the form, even one that is open for something else.
Filled(l) ==
    /\ loads' = loads \ {l}
    /\ overtaken' = (overtaken \/ ~InOrder(l))
    /\ IF l.opens
       THEN Appear(IF open THEN meant ELSE l.of)
       ELSE UNCHANGED <<open, opening, meant>>
    /\ holds' = l.of
    /\ target' = IF view.fills = "all" THEN l.of ELSE target
    /\ UNCHANGED <<view, defaults, busy, saves, tests, created, ops>>

\* The call fails: the form shows what it had, or does not open.
FillFailed(l) ==
    /\ loads' = loads \ {l}
    /\ overtaken' = TRUE
    /\ UNCHANGED <<view, fields, busy, saves, tests, created, ops>>

\* The call for the defaults is answered: the fields become theirs, whatever the form
\* shows by now.
DefaultsCome ==
    /\ defaults.due
    /\ \/ /\ defaults' = [of |-> New, shared |-> TRUE, due |-> FALSE]
          /\ holds' = New
       \/ /\ defaults' = [of |-> defaults.of, shared |-> FALSE, due |-> FALSE]
          /\ UNCHANGED holds
    /\ UNCHANGED <<view, open, opening, meant, target, loads, busy, saves, tests, created, overtaken, ops>>

-----------------------------------------------------------------------------
(* Saving.                                                                 *)

Parts == IF view.calls = "each" THEN 1..2 ELSE {1}

\* What a save sends: what the form holds now.
Sent(k) ==
    [no |-> ops + 1, part |-> k, opening |-> opening, to |-> target, from |-> holds, meant |-> meant]

\* OK with valid fields.
Submit ==
    /\ open /\ "save" \in view.ops /\ ~(view.locks /\ busy)
    /\ saves' = saves \cup {Sent(k) : k \in Parts}
    /\ busy' = view.locks
    /\ Counted
    /\ UNCHANGED <<view, fields, loads, tests, created, overtaken>>

Unlock(outcome) == busy' = IF outcome \in view.unlocks THEN FALSE ELSE busy

\* A slip: OK is released and the form stays open.
SaveDoneLingers(s) ==
    /\ saves' = saves \ {s}
    /\ created' = IF s.to = New THEN [created EXCEPT ![s.opening] = @ + 1] ELSE created
    /\ Unlock("success")
    /\ UNCHANGED <<fields, loads>>
    /\ UNCHANGED <<view, tests, overtaken, ops>>

\* The turn of the next record of a sequence: the fields are read again.
SaveNext(s) ==
    /\ view.calls = "sequence" /\ s.part = 1
    /\ saves' = (saves \ {s}) \cup {[s EXCEPT !.part = 2, !.from = holds]}
    /\ UNCHANGED <<view, fields, loads, busy, tests, created, overtaken, ops>>

\* The second call of a creation: it gives the new record what the fields hold by now.
Following(s) ==
    IF view.calls = "follows" /\ s.to = New THEN {[s EXCEPT !.part = 2, !.from = holds]} ELSE {}

FollowingEnds(s) ==
    /\ view.calls = "follows" /\ s.part = 2
    /\ saves' = saves \ {s}
    /\ UNCHANGED <<view, fields, loads, busy, tests, created, overtaken, ops>>

\* The save succeeds: the form closes, whichever opening it shows, or goes on,
\* with the record just created if it adopts it.
SaveDone(s) ==
    /\ view.calls = "sequence" => s.part = 2
    /\ view.calls = "follows" => s.part = 1
    /\ saves' = (saves \ {s}) \cup Following(s)
    /\ created' = IF s.to = New THEN [created EXCEPT ![s.opening] = @ + 1] ELSE created
    /\ Unlock("success")
    /\ CASE view.onSave = "closes" -> Leave /\ UNCHANGED loads
         [] view.onSave = "reloads" ->
              /\ loads' = IF target \in Records THEN Ask(target, FALSE) ELSE loads
              /\ UNCHANGED fields
         [] view.onSave = "stays" ->
              /\ IF view.adopts /\ s.to = New
                 THEN /\ target' = Born
                      /\ holds' = IF s.opening = opening THEN Born ELSE holds
                      /\ meant' = IF s.opening = opening THEN Born ELSE meant
                 ELSE UNCHANGED <<target, holds, meant>>
              /\ UNCHANGED <<open, opening, defaults, loads>>
    /\ UNCHANGED <<view, tests, overtaken, ops>>

\* The server refuses the save: the form stays.
SaveFailed(s) ==
    /\ view.calls = "follows" => s.part = 1
    /\ saves' = saves \ {s}
    /\ Unlock("failure")
    /\ UNCHANGED <<view, fields, loads, tests, created, overtaken, ops>>

\* Test the connection with what the fields hold.
Test ==
    /\ open /\ view.tests /\ ~busy
    /\ tests' = tests \cup {ops + 1}
    /\ busy' = TRUE
    /\ Counted
    /\ UNCHANGED <<view, fields, loads, saves, created, overtaken>>

TestEnds(t) ==
    /\ tests' = tests \ {t}
    /\ busy' = FALSE
    /\ UNCHANGED <<view, fields, loads, saves, created, overtaken, ops>>

-----------------------------------------------------------------------------

Answers ==
    \/ \E l \in loads : Filled(l) \/ FillFailed(l)
    \/ DefaultsCome
    \/ \E s \in saves : SaveNext(s) \/ FollowingEnds(s) \/ SaveDone(s) \/ SaveFailed(s)
    \/ \E t \in tests : TestEnds(t)

User ==
    \/ Create \/ Cancel \/ Submit \/ Test
    \/ \E r \in Records : Edit(r) \/ EditAsked(r)

Next == Answers \/ User

\* Every call is answered in the end; nothing is assumed of the user.
Fairness == WF_vars(Answers)
Spec == Init /\ [][Next]_vars /\ Fairness

-----------------------------------------------------------------------------
(* Properties.                                                             *)

\* A form that is filled when it opens and by nothing later.
Plain ==
    /\ view.fills \in {"row", "entry"} /\ view.opens = "at once"
    /\ ~view.adopts /\ view.onSave # "reloads" /\ view.calls \in {"one", "each"}
    /\ ~view.shares

Own(s) == s.to = s.meant /\ s.from = s.meant

\* A save goes to the record its opening was for and carries that record's
\* fields: nothing an earlier opening, a cancel or a late answer left behind
\* reaches a record (open, handleCancel and handleOk of the dialogs).
SavesOwn == Plain => \A s \in saves : Own(s)

\* One call at a time, and a lock only its answer releases.
Latched ==
    /\ view.calls = "one" /\ view.locks /\ ~view.tests
    /\ view.unlocks = {"success", "failure"} /\ view.onSave = "closes"

\* A form whose lock outlives its closing creates one record per opening, however
\* often OK is pressed and whatever older openings are still waiting for.
OneRecord ==
    Latched => \A o \in 1..MaxOps : created[o] <= 1

\* A form that fetches its content shows, once its calls are answered in order,
\* the content of the record it is open for, not of one opened before
\* (setting target and content are two steps of different handlers).
ShownOwn ==
    (/\ view.fills \in {"content", "all"} /\ view.asks = "always" /\ view.opens = "at once"
     /\ open /\ meant \in Records /\ loads = {} /\ ~overtaken) =>
        holds = meant

\* The lock of a form that releases it on success and on failure is released.
LockEnds ==
    ({"success", "failure"} \subseteq view.unlocks /\ busy) ~> ~busy

-----------------------------------------------------------------------------
(* What the proofs ask of the forms, whatever their number.                *)

\* A form filled by a row or by the user that can show a row's values, or what was
\* entered, to another opening is reset when it opens or when it closes.
Resets(f) ==
    (f.fills = "entry" \/ (f.fills = "row" /\ "create" \in f.ops)) => f.blanks # {}

\* What reloads after a save asks for a record the opening has set; what fetches its
\* content shares no defaults.
ReloadsOwn(f) == (f.onSave = "reloads" => f.fills # "all") /\ (f.shares => f.fills = "row")

-----------------------------------------------------------------------------
\* SavesOwn of every form; some of them do not give it.
NeverMixed == \A s \in saves : Own(s)
=============================================================================
