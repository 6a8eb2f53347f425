---------------------------- MODULE WorkStation ----------------------------
(***************************************************************************)
(* The work station of the web interface (src/oneterm-ui, workStation/):   *)
(* tabs in which an operator works on assets, each with its own connection *)
(* (connect/terminal, connect/guacamoleClient), tabs that send one command *)
(* to several terminals (workStation/batchExecution), the menu that acts   *)
(* on the active tab, and the file drawer of a connection (FileDrawer).    *)
(*                                                                         *)
(* A tab is opened by the answer to a request for its permissions, its     *)
(* connection by a handshake, and both end in their own time: the tab that *)
(* is active, what a tab says of its connection, and what a dialog is      *)
(* about change between two steps of the user.  One drawer is followed,    *)
(* that of the first connection whose files are opened.                    *)
(***************************************************************************)
EXTENDS FileDrawer

CONSTANTS
    MaxTabs,    \* bound on the tabs ever opened
    MaxActs     \* bound on the steps of the user

ASSUME MoreBoundsAreNatural == MaxTabs \in Nat /\ MaxActs \in Nat

Home == 0
Kinds == {"terminal", "desktop", "webssh", "batch", "setting"}
Connected(kind) == IF kind = "batch" THEN 1..2 ELSE IF kind = "setting" THEN {} ELSE {1}

VARIABLES
    tabs,       \* terminalList, after the tab of the assets
    active,     \* tabActiveKey
    opened,     \* tabs opened or asked for so far
    asking,     \* requests for permissions not yet answered
    conns,      \* connections
    share,      \* the dialog that shares the active tab's asset, and its requests
    owner,      \* the tab whose drawer is followed
    acts        \* what the user has done so far

work == <<tabs, active, opened, asking, conns, share, owner>>
vars == <<work, acts, fileVars>>

\* status: socketStatus, of which a setting's or a batch's tab has none; may: the
\* permissions to share the asset and to move its files; says: there is a command
\* in the box of a batch tab (commandValue).
Tab == [id : Nat, kind : Kinds, may : BOOLEAN, says : BOOLEAN,
        status : {"loading", "success", "error", "none"}]

\* phase: of the browser's socket; pings: the keep-alive timer runs; live: what a
\* batch tab takes for connected; got: it was sent the command still in the box.
Conn == [tab : Nat, panel : 1..2, kind : Kinds,
         phase : {"connecting", "open", "closing", "closed"},
         pings : BOOLEAN, live : BOOLEAN, got : BOOLEAN]

Ids == {tabs[i].id : i \in DOMAIN tabs}
TabOf(id) == tabs[CHOOSE i \in DOMAIN tabs : tabs[i].id = id]
Has(id) == id \in Ids

Init ==
    /\ tabs = <<>> /\ active = Home /\ opened = 0 /\ asking = {}
    /\ conns = {}
    /\ share = [open |-> FALSE, of |-> Home, link |-> Home, busy |-> FALSE, asked |-> {}]
    /\ owner = Home /\ acts = 0
    /\ DrawerInit

Act == acts < MaxActs /\ acts' = acts + 1

\* A drawer or a dialog covers the page.
Uncovered == ~visible /\ ~share.open

-----------------------------------------------------------------------------
(* Opening and closing tabs.                                               *)

\* Tabs with these ids appear at the end and connect: a WebSocket for each panel.
NewTabs(ids, kind, may) ==
    /\ tabs' = tabs \o [i \in DOMAIN ids |->
            [id |-> ids[i], kind |-> kind, may |-> may, says |-> FALSE,
             status |-> IF kind \in {"batch", "setting"} THEN "none" ELSE "loading"]]
    /\ conns' = conns \cup
            {[tab |-> ids[i], panel |-> p, kind |-> kind, phase |-> "connecting",
              pings |-> FALSE, live |-> TRUE, got |-> FALSE] :
                i \in DOMAIN ids, p \in Connected(kind)}

\* openTerminal, openTerminalList: one tab, or one for each of two accounts, once
\* the permissions have come.
AskTabs(n, kind) ==
    /\ Uncovered /\ opened + n <= MaxTabs
    /\ opened' = opened + n
    /\ asking' = asking \cup {[first |-> opened + 1, n |-> n, kind |-> kind]}
    /\ Act
    /\ UNCHANGED <<tabs, active, conns, share, owner, fileVars>>

\* The answer, or a failure, which leaves the tab without permissions: the tab
\* opens and becomes the active one, whatever the user does by then.
TabsOpen(a, may) ==
    LET ids == [i \in 1..a.n |-> a.first + i - 1]
    IN  /\ asking' = asking \ {a}
        /\ NewTabs(ids, a.kind, may)
        /\ active' = a.first
        /\ UNCHANGED <<opened, share, owner, acts, fileVars>>

\* openWebSSH, openBatchExecution, copyTerminal: at once.
OpenNow(kind, may) ==
    /\ Uncovered /\ opened < MaxTabs
    /\ opened' = opened + 1
    /\ NewTabs(<<opened + 1>>, kind, may)
    /\ active' = opened + 1
    /\ Act
    /\ UNCHANGED <<asking, share, owner, fileVars>>

OpenFresh == \E kind \in {"webssh", "batch"} : OpenNow(kind, FALSE)

CopyTab(i) ==
    /\ tabs[i].kind = "terminal"
    /\ OpenNow("terminal", tabs[i].may)

\* openSystemSetting: the tab of a setting is opened once.
OpenSetting ==
    /\ Uncovered
    /\ IF \E i \in DOMAIN tabs : tabs[i].kind = "setting"
       THEN /\ active' = (CHOOSE t \in ToSet(tabs) : t.kind = "setting").id
            /\ UNCHANGED <<opened, tabs, conns>>
       ELSE /\ opened < MaxTabs /\ opened' = opened + 1
            /\ NewTabs(<<opened + 1>>, "setting", FALSE)
            /\ active' = opened + 1
    /\ Act
    /\ UNCHANGED <<asking, share, owner, fileVars>>

Activate(id) ==
    /\ Uncovered /\ id # active
    /\ active' = id
    /\ Act
    /\ UNCHANGED <<tabs, opened, asking, conns, share, owner, fileVars>>

\* handleSortEnd.
Drag(i, j) ==
    /\ Uncovered /\ i # j
    /\ tabs' = InsertAt(RemoveAt(tabs, i), j, tabs[i])
    /\ Act
    /\ UNCHANGED <<active, opened, asking, conns, share, owner, fileVars>>

\* A slip: the panel of a desktop leaves its client connected.
AbandonedBy(id) ==
    {c \in conns : c.tab # id \/ (c.kind = "desktop" /\ c.phase # "closed")} \cup
    {[c EXCEPT !.phase = "closing", !.pings = FALSE] :
        c \in {d \in conns : d.tab = id /\ d.kind # "desktop" /\ d.phase # "closed"}}

\* beforeDestroy of the panels: their sockets are closed, their timers stopped.  A
\* closed socket is forgotten.
ClosedBy(id) ==
    {c \in conns : c.tab # id} \cup
    {[c EXCEPT !.phase = "closing", !.pings = FALSE] :
        c \in {d \in conns : d.tab = id /\ d.phase # "closed"}}

\* closeTerminal: the tab to the left of an active one becomes active.
CloseTab(i) ==
    /\ Uncovered
    /\ active' = IF tabs[i].id # active THEN active
                 ELSE IF i = 1 THEN Home ELSE tabs[i - 1].id
    /\ tabs' = RemoveAt(tabs, i)
    /\ conns' = ClosedBy(tabs[i].id)
    /\ IF tabs[i].id = owner THEN owner' = Home /\ DrawerGone
                             ELSE UNCHANGED <<owner, fileVars>>
    /\ Act
    /\ UNCHANGED <<opened, asking, share>>

-----------------------------------------------------------------------------
(* Connections.                                                            *)

\* handleTerminalSocketStatus: a tab that is still there shows what its panel emits.
Tell(id, status) ==
    [i \in DOMAIN tabs |->
        IF tabs[i].id = id /\ tabs[i].status # "none"
        THEN [tabs[i] EXCEPT !.status = status] ELSE tabs[i]]

Change(c, d) == conns' = (conns \ {c}) \cup {d}

\* A slip: the panel does not say that it is connected.
ConnectsSilently(c) ==
    /\ c.phase = "connecting"
    /\ Change(c, [c EXCEPT !.phase = "open", !.pings = c.kind # "desktop"])
    /\ UNCHANGED <<tabs, active, opened, asking, share, owner, acts, fileVars>>

\* onopen, or STATE_CONNECTED of a desktop, which keeps no timer of its own.
Connects(c) ==
    /\ c.phase = "connecting"
    /\ Change(c, [c EXCEPT !.phase = "open", !.pings = c.kind # "desktop"])
    /\ tabs' = Tell(c.tab, "success")
    /\ UNCHANGED <<active, opened, asking, share, owner, acts, fileVars>>

\* A slip: the timer is not stopped.
ClosesPinging(c) ==
    /\ c.phase # "closed"
    /\ Change(c, [c EXCEPT !.phase = "closed", !.live = FALSE])
    /\ tabs' = Tell(c.tab, "error")
    /\ UNCHANGED <<active, opened, asking, share, owner, acts, fileVars>>

\* onclose: the handshake failed or the server closed; onerror and a desktop's
\* errors come before it and say the same.
Closes(c) ==
    /\ c.phase \in {"connecting", "open"}
    /\ Change(c, [c EXCEPT !.phase = "closed", !.pings = FALSE, !.live = FALSE])
    /\ tabs' = Tell(c.tab, "error")
    /\ UNCHANGED <<active, opened, asking, share, owner, acts, fileVars>>

\* The socket of a panel that is gone is closed; handleTerminalSocketStatus finds
\* no tab.
Gone(c) ==
    /\ c.phase = "closing"
    /\ conns' = conns \ {c}
    /\ UNCHANGED <<tabs, active, opened, asking, share, owner, acts, fileVars>>

-----------------------------------------------------------------------------
(* One command for several terminals.                                      *)

Panels(id) == {c \in conns : c.tab = id}

Batch == Uncovered /\ Has(active) /\ TabOf(active).kind = "batch"
Says(keep) ==
    tabs' = [i \in DOMAIN tabs |->
                IF tabs[i].id = active THEN [tabs[i] EXCEPT !.says = keep] ELSE tabs[i]]

\* A command is written, or taken from the quick commands.
Compose ==
    /\ Batch /\ ~TabOf(active).says
    /\ Says(TRUE)
    /\ Act
    /\ UNCHANGED <<active, opened, asking, conns, share, owner, fileVars>>

\* A panel that is taken for connected while its handshake is under way: send
\* throws.
Refuses(c) == c.live /\ c.phase = "connecting"

\* The panels that are given the command: those before the first that refuses.
Given(id) ==
    {c \in Panels(id) : c.live /\ ~\E d \in Panels(id) : Refuses(d) /\ d.panel <= c.panel}

\* batchWriteCommand: a panel that refuses ends it, and the box keeps its text.
EnterCommand ==
    LET kept == \E c \in Panels(active) : Refuses(c)
    IN  /\ Batch /\ TabOf(active).says
        /\ Says(kept)
        /\ conns' = {IF c.tab # active THEN c
                     ELSE [c EXCEPT !.got = kept /\ (@ \/ c \in Given(active))] : c \in conns}
        /\ Act
        /\ UNCHANGED <<active, opened, asking, share, owner, fileVars>>

-----------------------------------------------------------------------------
(* The menu beside the tabs acts on the active one.                        *)

\* controlDisplayList: the files of a connection that is shown as connected.
FilesOffered ==
    Has(active) /\ TabOf(active).may /\ TabOf(active).status = "success"

\* callComponentFn("openFileManagementDrawer")
OpenFiles ==
    /\ Uncovered /\ FilesOffered /\ owner \in {Home, active}
    /\ owner' = active
    /\ OpenDrawer
    /\ Act
    /\ UNCHANGED <<tabs, active, opened, asking, conns, share>>

\* shareAsset: the dialog that makes a link to the asset of the active tab.
OpenShare ==
    /\ Uncovered /\ Has(active) /\ TabOf(active).may
    /\ share' = [share EXCEPT !.open = TRUE, !.of = active]
    /\ Act
    /\ UNCHANGED <<tabs, active, opened, asking, conns, owner, fileVars>>

\* OK: assetData is the active tab's by now.
AskLink ==
    /\ share.open /\ share.link = Home /\ ~share.busy
    /\ share' = [share EXCEPT !.busy = TRUE, !.asked = @ \cup {active}]
    /\ UNCHANGED <<tabs, active, opened, asking, conns, owner, acts, fileVars>>

\* The answer is shown, in a dialog that was closed or opened again too.
LinkMade(of) ==
    /\ share' = [share EXCEPT !.link = of, !.asked = @ \ {of}, !.busy = FALSE]
    /\ UNCHANGED <<tabs, active, opened, asking, conns, owner, acts, fileVars>>

\* A failure is not caught: the button spins until the dialog is closed.
LinkRefused(of) ==
    /\ share' = [share EXCEPT !.asked = @ \ {of}]
    /\ UNCHANGED <<tabs, active, opened, asking, conns, owner, acts, fileVars>>

\* handleCancel, by Cancel or by OK on a link.
CloseShare ==
    /\ share.open
    /\ share' = [share EXCEPT !.open = FALSE, !.of = Home, !.link = Home, !.busy = FALSE]
    /\ UNCHANGED <<tabs, active, opened, asking, conns, owner, acts, fileVars>>

\* What the drawer of the owner's tab does.
Files ==
    /\ Has(owner)
    /\ \/ FileAnswers /\ UNCHANGED acts
       \/ Browse /\ Act
    /\ UNCHANGED work

-----------------------------------------------------------------------------

Network ==
    \/ \E a \in asking, may \in BOOLEAN : TabsOpen(a, may)
    \/ \E c \in conns : Connects(c) \/ Closes(c) \/ Gone(c)
    \/ \E of \in share.asked : LinkMade(of) \/ LinkRefused(of)

Operator ==
    \/ \E n \in 1..2, kind \in {"terminal", "desktop"} : AskTabs(n, kind)
    \/ OpenFresh \/ \E i \in DOMAIN tabs : CopyTab(i)
    \/ OpenSetting \/ \E id \in Ids \cup {Home} : Activate(id)
    \/ \E i, j \in DOMAIN tabs : Drag(i, j)
    \/ \E i \in DOMAIN tabs : CloseTab(i)
    \/ Compose \/ EnterCommand \/ OpenFiles \/ OpenShare \/ AskLink \/ CloseShare

Next == Network \/ Operator \/ Files

\* A request for permissions is answered and a handshake ends, and a socket that is
\* being closed closes.  One that is open may stay so for ever, and nothing is
\* assumed of the user.
Fairness ==
    /\ \A k \in 1..MaxTabs :
          WF_vars(\E a \in asking : a.first = k /\ \E may \in BOOLEAN : TabsOpen(a, may))
    /\ \A k \in 1..MaxTabs, p \in 1..2 :
          WF_vars(\E c \in conns : /\ c.tab = k /\ c.panel = p
                                   /\ \/ Connects(c) \/ Gone(c)
                                      \/ c.phase = "connecting" /\ Closes(c))
Spec == Init /\ [][Next]_vars /\ Fairness

-----------------------------------------------------------------------------
(* Properties.                                                             *)

TypeOK ==
    /\ tabs \in Seq(Tab) /\ opened \in 0..MaxTabs /\ acts \in 0..MaxActs
    /\ Cardinality(Ids) = Len(tabs)
    /\ active \in Ids \cup {Home}
    /\ conns \subseteq Conn
    /\ share \in [open : BOOLEAN, of : Nat, link : Nat, busy : BOOLEAN, asked : SUBSET Nat]
    /\ DrawerTypeOK

\* What a tab says of its connection is so, however the tabs were moved, closed and
\* opened since (handleTerminalSocketStatus, closeTerminal, handleSortEnd); and a
\* keep-alive timer runs for an open connection of a tab that is there
\* (closeWebSocket and beforeDestroy of the terminal).
StatusTrue ==
    /\ \A i \in DOMAIN tabs : \A c \in conns : c.tab = tabs[i].id =>
          /\ tabs[i].status = "success" => c.phase = "open"
          /\ tabs[i].status = "error" => c.phase = "closed"
    /\ \A c \in conns : c.pings => c.phase = "open" /\ Has(c.tab)

\* A tab does not spin for ever.
StatusSettles ==
    \A k \in 1..MaxTabs :
        (Has(k) /\ TabOf(k).status = "loading") ~> (~Has(k) \/ TabOf(k).status # "loading")

\* A connection ends with its tab, that of a batch tab with all its terminals too,
\* even when the tab is closed while the handshake is under way (beforeDestroy).
ConnectionEnds ==
    \A k \in 1..MaxTabs :
        (~Has(k) /\ Panels(k) # {}) ~> Panels(k) = {}

\* A terminal is given a command once for each time it is composed.  The code does
\* not give it: a panel that still connects ends the round, the box keeps the
\* command, and the next Enter repeats it in the panels before.
CommandOnce ==
    [][EnterCommand => \A c \in Given(active) : ~c.got]_vars

\* The link shown is to the asset the dialog was opened for.  The code does not give
\* it: a tab that opens late is active by the time of the OK, and a late answer is
\* shown by a dialog opened since for another asset.
LinkOwn == (share.open /\ share.link # Home) => share.link = share.of
=============================================================================
