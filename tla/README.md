# OneTerm in TLA+

OneTerm is a bastion: users reach servers, databases and web assets through it
in a browser or an SSH client, with credentials they do not see, and everything
they do is recorded. It is a Go server, `src/backend/internal`, and a web
interface of Vue pages, `src/oneterm-ui`.

This directory models the parts of the server in which several goroutines,
processes or external systems touch the same state, and the parts of the
interface in which answers meet a page that has changed since it asked. TLC
checks every model on small instances; TLAPS proves every invariant that the runs
check, and the action properties among the rest, for instances of every size.

Contents: [inventory](#inventory), [plan](#plan), then one section per
component: [password execution](#password-execution),
[access requests](#access-requests), [managed sessions](#managed-sessions),
[terminal sessions](#terminal-sessions), [gateway tunnels](#gateway-tunnels),
[list pages](#list-pages), [edit forms](#edit-forms),
[the work station](#the-work-station), [signing in and out](#signing-in-and-out);
[findings](#findings), [proofs](#proofs),
[what is not modelled](#what-is-not-modelled), [how to run](#how-to-run).

## Inventory

Paths are relative to `src/backend/internal`, in the lower part of the table to
`src/oneterm-ui/src`. *Hard* names what a test would
hardly reach, *correct* the properties that make the component right.

| component | state | operations | hard | correct |
|---|---|---|---|---|
| password execution (`repository/pam_execution.go`, `service/pam_execution_runner.go`, `service/pam_password.go`) | execution rows with a lease, credential versions, the account's version pointer, the target's password | start, continue, reconcile, keep the original; the runner's steps; manual edits, removal, binding edits | crashes, expired leases, lost answers, stale confirmations | a mutation is sent once; the slot is freed on a known outcome; one active version |
| access requests (`service/pam_request.go`, `pam_itsm_worker.go`, `pam_itsm_decision.go`, `password_view.go`) | request rows with a synchronization state and lease, policies, tickets at ITSM | create, replace, cancel, save policy, worker synchronization, decision, expiry, retry | two workers, lost and late HTTP calls, policy changes, stale copies | no access without approval; nothing ended comes back; tickets are closed |
| managed sessions (`service/pam_session*.go`, `connector/pam.go`) | session leases, permits, transports | admit, activate, check, renew, release, dial, close | time, late dials, cut-off processes | session limit; no transport outlives its lease by more than one check; withdrawals end sessions |
| terminal sessions (`connector/handlers.go`, `connector/protocols`, `session/session.go`) | goroutines, channels, the session record, recordings | connect, read, write, resize, monitor, close | goroutine ends in every order, full and abandoned channels | cleaned up last, always cleaned up, ends are noticed |
| gateway tunnels (`tunneling/tunnel.go`, `schedule/connectable.go`) | shared SSH clients with counts, tunnels, sockets | open, accept, dial, close, connectivity check | goroutines outside the mutex, drops | one close cuts off nobody else; nothing stays open |
| graphical sessions (`guacd`, `connector/protocols/guacd.go`) | guacd connection, instruction stream, join connections | handshake, read, write, disconnect | as terminal sessions, with a monitor per join | as terminal sessions |
| share links (`service/share.go`, `repository/share.go`) | row with remaining uses and a period | create, validate, take a use, connect | concurrent uses, failing connections, deletion while in use | never more uses than given; a session ends with its link |
| web proxy (`service/web_proxy`, `controller/web_proxy.go`) | two in-memory stores of sessions, session records | start, heartbeat, proxy a request, close, clean up | two stores, check then create, two clocks | limit per asset; a closed session serves nothing; record and store agree |
| authorization (`service/authorization_v2.go`, `authorization_matcher.go`, `time_template.go`) | rules, cached results | match, merge, check a period | cached rules, overlapping periods | the matcher equals its definition; a removed rule stops to work |
| asset tree (`service/node.go`, `asset.go`, `repository`) | nodes with parents, assets, cached lists | move, delete, count, inherit | cycles, stale caches, deletion of a node in use | a forest; inherited permissions |
| storage (`service/storage.go`, `storage_cleaner.go`, `pkg/storage`) | providers, health, metrics, one primary | initialize, write, fall back, clean up | fall-back on failure, retention while writing | what was written is found; nothing young is deleted |
| file transfer (`service/file`) | connection caches, progress map | connect, transfer, cancel, clean up | clean-up while in use | a client in use stays open |
| PAM applications (`service/pam_application.go`, `credential_access.go`) | identities with rotating secrets | authenticate, rotate, fetch | rotation during a fetch | old secrets stop to work |
| configuration (`schedule/config.go`, `service/config.go`) | database row, Redis copy, in-process copy | save, refresh | two processes, one hour of cache | a saved value reaches every process |
| command control (`session/parser.go`, `service/command*.go`) | terminal screen, current command line | feed, match | text processing | a forbidden command is not sent |
| ACL client, controllers, preferences, statistics, secrets, deployment | little or none | translation and single-row operations | | |
| list pages (`modules/oneterm/views`, `modules/acl/views`, `views/setting`) | query, page number, table, spinner, selection, dialog | search, turn, select, delete, switch, batch, export | answers out of order, one flag for several calls, a batch over a live selection | the spinner ends; the last load is shown; a batch does what was agreed to |
| edit forms (the same directories) | fields, record, lock, of one instance for all openings | open, fill, save, test, cancel | what an earlier opening or a late answer leaves behind | a save carries its own record; one creation per opening; shown is what was opened |
| work station (`modules/oneterm/views/workStation`, `connect`) | tabs, their connections, batch panels, the share dialog, the file drawer | open, close, move, copy a tab; one command for several; share; browse, download, upload | handshakes that end after their tab, tabs opened late | a tab's status is true and settles; connections end; files are those of the directory named |
| signing in and out (`guard.js`, `store/global/user.js`, `views/user`) | token, roles, routes, navigation under way, timers | guard a navigation, fetch user and permissions, log in, sign on, log out | overlapping navigations, failed fetches, a timer | a page has its routes; the last navigation ends; a sign-out leads out |
| settings pages, employee upload, dashboard, replays, shared components | one object each, or none | load and save; show | answers that fill the wrong tab | |

How they meet: `connector.DoConnect` authorizes (authorization, access
requests), admits (managed sessions), opens a tunnel (gateway tunnels), starts
the goroutines of the protocol (terminal or graphical sessions) and ends with
the record (session records, storage). The password execution replaces the
version that new sessions read; a saved policy invalidates requests and,
through its revision, ends running sessions. Two background loops in
`schedule` drive the ITSM workers (15 s) and the connectivity checks.

## Plan

In the order of importance. Modules marked * exist; every item marked so is
done as far as its section says.

1. `PAMRotation`* (abstract) and `PAMExecution`* (detailed), with
   `PAMExecution_proofs`*.
2. `PAMAccess`* (abstract), `PAMRequest`* and `PAMRequest_proofs`*, one lemma per
   worker step.
3. `PAMSession`* and `PAMSession_proofs`*.
4. `TerminalSession`* and `TerminalSession_proofs`*; next a variant for guacd.
5. `GatewayTunnel`* and `GatewayTunnel_proofs`*.
6. `ListPage`* with `UIPages`* and `ListPage_proofs`*, `EditForm`* with `UIForms`*
   and `EditForm_proofs`*: the pages and forms of the interface as choices of two
   modules.
7. `WorkStation`*, which extends `FileDrawer`*; `SignIn`*; `Interface_proofs`* about
   all three.
8. `WebProxySession`: both stores with their clocks; abstract specification: a
   counter with a limit and a set of open sessions. Runs: two requests for the
   last place, a heartbeat of an inactive session, a close by the user.
9. `ShareLink`: uses, period, deletion, sessions. Theorem: uses taken never
   exceed those given, for every number of users.
10. `AuthorizationRule`: matching and merging as operators against a reference
    definition over all small rule sets; lemmas: merging is monotone.
11. `ConfigCache`, `AssetTree`, `StorageProvider`, `FileSession`: caches and
    maps with their clean-ups.
12. `PAMApplication`: secrets and their rotation.
13. A composition of `PAMSession` and `PAMRequest`: the withdrawal of a session
    is the revocation of its request (`PAMAccess` is what it needs of the latter).

## Password execution

`PAMExecution` models one managed account. An execution is a row; a run is one
HTTP request of an operator, handled by one process, with a new lease name.

| in the model | in the code |
|---|---|
| `state`, `active`, `owner`, `lease`, `plan` | `State`, `ActiveAccountID`, `LeaseOwner`, `LeaseUntil` and the copied revisions of `model.PAMExecution`; `"kept"` is the failed state with code `original_verified` |
| `managed`, `enabled`, `accountRev`, `current`, `versionState` | `model.Account`, `model.PAMCredentialVersion` |
| `bindingRev`, `scope`, `bindingOn`, `matches` | the binding, its configuration, and whether the asset still has the bound address |
| `remote`, `mutation` | the password the target accepts, and what became of the command sent to it (external) |
| `pc`, `mode`, `job`, `seen`, `live` | the request: its step, kind, row, copied target, and its context |
| `Start`, `PrepareReplay`, `Prepare`, `Continue`, `KeepOriginal`, `Claim`, `Authorize` | `StartPAMPasswordChange`, `ContinuePAMPassword`, `Prepare`, `Claim`, `RunPAMExecution` |
| `BeforeChange`, `Send`, `Response`, `ChangeResult`, `Verify`, `CandidateResult`, `Publish`, `FinishUnsent`, `RejectChange`, `VerifyOriginal`, `PreserveOriginal` | the transactions of `repository/pam_execution.go` and the executors' calls between them |
| `Abandon`, `ContextDone`, `LeaseExpires` | a refused transaction, a crash, the end of the request, two minutes |
| `Settle`, `ChangeOutside` | the target, at its own pace |
| `StoreCredential`, `SetEnabled`, `RemoveManagement`, `Adopt`, `ReviewBinding`, `SaveConfig`, `EditAsset` | the handlers that race with a run |

Each transaction is one action: the code locks the account row first. Between
two actions of a run anything may happen. A request's context lives for 85
seconds and a lease for two minutes, so a lease expires only after the context
of the run that took it (`LeaseExpires`). Whether a login fails although the
password is right is left open (`Verify`). Permissions are abstracted to
"the operator may".

`PAMRotation` is the promise: a rotation is open from its preparation until its
outcome is known, one at a time; its mutation is sent once; the stored
credential changes to the candidate only after the mutation has landed, and by
hand only while no rotation is open. The refinement mapping reads `holder` off
`active`, `sent` and `landed` off `mutation`, `closed` off `state`.

Runs:

- `execution_edits`: the safety properties and the refinement. One execution, two
  runs, one manual version, two identities of the target and two revisions, so
  that the account or its binding changes between any two steps.
- `execution_recovery`: `Recoverable` under `Fairness`, with two revisions, one
  identity and no manual version. From some point on no crashes, cancelled
  requests or failing logins happen and operators start one request at a time
  (`CalmNext`); operators repeat each kind of recovery (strong fairness, since
  another request may take its turn), leases run out, mutations end. Nothing in
  the server drives a recovery, so without operators there is no progress. The
  premise, `Finishable`, is what an operator needs: the binding names the
  target, one of the two passwords works there, and a row that was never
  started has current revisions. The last part is a finding: `ResumeOffered`
  asks for progress of every prepared row the list offers to resume, and TLC
  refutes it (`PAMExecution_stuck.cfg`).

Without fairness an account at the revision bound, out of management, has no
step left; hence `CHECK_DEADLOCK FALSE`.
`Init` has the account managed or not yet managed.

The runs have one execution. Two runs for one row are an expired lease or a
duplicated request; that two rows of one account never meet is what the theorems
show for any number of executions, `OneRowPerKey` among them.

Two more instances show why the outcome properties need their assumptions; TLC
refutes `KnownOutcome` in both. `PAMExecution_repeated.cfg`: the new password
typed by the operator is the present one. `PAMExecution_unlisted.cfg`: a
keep-original confirmation was made on a row that was not listed for it.

Bounds: `MaxRevision` (revisions), the sets `Exec`, `Run`, `Key`, `Manual`,
`Scope`. A lease name is used again only when no row holds it (`Fresh`), which
stands for a new uuid.

## Access requests

`PAMRequest` models the requests of one operator for one account, the policy of
each kind, the ITSM service and the workers.

- `row` is the request table with the synchronization columns; `job` a worker
  between two steps, with the part of its copied row it still uses; `editor` a
  `CreatePasswordViewRequest` between its unlocked reads and its writes.
- `remote` and `late` are the ITSM service. It is external: a creation or
  cancellation is idempotent by the request's id, a cancellation of an unknown
  request leaves a mark that closes a later creation, each decision has one
  event with a growing revision. A call may fail before or after it is served,
  or arrive after its caller gave up (`Arrive`).
- Every HTTP call of a synchronization is a step (`Call`, `CallFails`), and so is
  every transaction (`Bind`, `Accept`, `Settle`, `Finish`). A lease can pass to another
  worker between any two.
- Two clocks per request: `due` (it expires) and `over` (the approved period has ended).

`PAMAccess` is the promise, without workers, leases, copies and HTTP: a request is
asked for, approved once and only on a ticket that ITSM approved in time, and over
for good once it ended; a change of its policy ends it in the same step, the next
view request ends the one before, and a ticket is cancelled only when its request
has ended. The mapping `AccessBook` reads `stage` off the state of the row (`StageOf`),
`active` off `HasActiveAccess`, `ticket` off what ITSM holds (`TicketStage`: an approval
in time is one for good, a late or an unqualified one closes the ticket) and `rules`
off the policies' revisions. `ImplementsAccess` says that every step of `PAMRequest` is
one of `PAMAccess`, or none that it can see; it contains `NoReturn`. TLC checks it with
`request_workers`; it holds in the instances of the other two runs as well, with the
steps that only view requests (`AskView`) and changing policies (`ChangePolicy`) take.

Runs: `request_workers` (one request, two workers, the refinement), `request_review` (one
request, one worker, two revisions of the policy, liveness), `request_view` (two
view requests, one replacing the other). `PAMRequest_revocation.cfg` is the
instance of two view requests in which `RevocationKept` fails: replacing a request
writes a stale copy over a cancellation or a decision, against the comment of
pam_access.go:135.
Bounds: `MaxAttempts` 1 instead of 8, since what matters is whether a failure is
the last; `MaxRevision`; `MaxLate` two calls on the way, enough for a
late creation to meet a cancellation. The runs with two workers and with two
requests are separate because workers meet on a single row, and requests of one
operator meet in `ReplaceView` only.

Fairness (`request_review`): the scheduler calls the workers every 15 seconds and
takes the request that waits longest, hence strong fairness of `Claim` per
request; calls that can be served are, in the end; leases run out; a failed
synchronization is retried by an operator, since the code stops after eight
attempts; an operator who opened the replacement of a view request finishes it.

## Managed sessions

`PAMSession` has discrete time. A live process handles a timer that is due before
the clock moves on (`Urgent`, `Tick`); statements of the database take any time
the context allows. The constants keep the order of the real ones (lease 45 s,
check every 10 s, calls of 5 s): `session_lease` uses 2, 1, 1.

- `lease` is the table, `permit` the copy in the process, `timer` its next
  wake-up or the end of its context, `reading` the clock value that a pending
  renewal carries.
- `dial`, `result`, `open`, `hook`, `shut`: the connecting goroutine, `ErrChan`
  (room for one result), the transport, and the two halves of
  `pamTransportClose` that let the later of dial and stop close it.
- `Withdraw` stands for every reason `checkPAMConnectionScope` finds other than
  the policy: a grant revoked, a binding changed, a requester blocked. It is
  final; a subject that is blocked and unblocked again is not modelled.

`Covered` is about a process that cannot reach the database: once the watcher runs,
the transport ends before the place is given away, because the context of a check
ends with the lease (`WatchContext`). The context of an activation
(pam_session_lease.go:151) ends with neither the lease nor the deadline, so a
transport may be open past them while it is activated, for the time of that context
and until the stop that follows; `Overrun` says so. When the statement of an
activation may wait for the database as well (`Prompt` false), the first check
begins late and may end as late.

The run `session_lease` has two sessions for one place, a grant that ends at 4, a
session time of 3, two policies and a clock until 4, twice the life of a lease: a
lease is renewed, runs out and its place is taken within it. `Prompt` says
that the statement of an activation executes when it has read the clock; without it
(`PAMSession_late_activation.cfg`) TLC finds one session more than the limit.

The runs stop at `MaxTime`, or when all sessions have ended, hence
`CHECK_DEADLOCK FALSE`.

## Terminal sessions

`TerminalSession` is one SSH session of a browser. Its processes:

| variable | goroutine |
|---|---|
| `main` | the HTTP handler: `DoConnect` with the wait for a dial and the activation, `HandleTerm` and its deferred clean-up |
| `conn` | `ConnectSsh` |
| `waiter`, `pump`, `window` | the three goroutines it adds to the group: the end of the shell, output, window sizes |
| `reader`, `writer` | the two of `HandleTerm`: browser to `InChan`, and the select loop |
| `watcher` | `WatchPAMConnection`, in the group of a managed account |
| `admin`, `monitor` | `ConnectClose`/`OfflineSession` and `ConnectMonitor` |

Channels are `inq` (`InChan`, as a count: a message is typed text, a window size or neither
when the writer looks at it), `out.queue` (`OutChan`), `errChan`, `away` with
`once`; `WindowChan` and `CloseChan` are unbuffered, so a send is a rendezvous.
Data are counts: what the shell `made` moves through the pipe, the pump, the channel
and the buffer until it is `shown`.

The handler waits for the result of the dial (`Meet`, `Take`). For a managed account the
wait may also end with the request, the lease or the deadline (`WaitEnds`), and a good
result may be followed by a refused activation (`Activate`); `Refuse` is the stop and
the return that end all these. The result of a dial that ends after that stays in the
channel. If its group then fails, the deferred second send of `ConnectSsh` (ssh.go:25)
finds no room and waits for ever, although the room is there because, in the words of
handlers.go:281, "A late dial result must not retain a sender after admission has
expired". `ConnectorEnds` names this channel, and the unbuffered one, as the only
places where a connector with an error to report may stay.

Run: `terminal_sessions` (keys and window sizes, output, a monitor, an
administrator; accounts whose `ErrChan` has room for one result and accounts whose
has none). The capacity of `InChan` and `OutChan` is 1 instead of 8: full and not
full are what matters. Two sends have no receiver any more once another goroutine
has returned; `CleanedUp` and `EndNoticed` name them, `ReaderStuck` and
`WriterStuck`, as what may hold a session for ever, and say that nothing else
does. `TerminalSession_monitored.cfg` is the instance in which `AwayClosed` fails.

Fairness: every goroutine that can go on does; the target need not answer the dial,
nor the permit of a managed account end. When the shell's channel is
closed the shell ends. The writer's `select` chooses at random among its ready
cases, so a case that is ready again and again is taken (strong fairness of
`WriterStops`). Nothing is assumed of the user, who may leave a page open for
ever; the properties say what happens when the user leaves (`client = "left"`) or
whether that happens or not.
A session that has been cleaned up stops, hence `CHECK_DEADLOCK FALSE`.

## Gateway tunnels

`GatewayTunnel` is one gateway: the SSH client that all tunnels share, its count,
the `OpenTunnel` calls (`call`, with the mutex), the goroutine of each tunnel
(`worker`), the waiter of each client (`WaitReturns`), the sockets, and a
connectivity check as one kind of user (`verdict`). `Closing` are the users that
call `CloseTunnels`: connectivity checks and remote desktops do; terminal,
database and file sessions do not.

Run: `tunnel_shared` (three tunnels, one of them of a check and one that is
never closed, two clients). Two clients let an old one end while a newer one is
in use. Every tunnel and
client is used once, so the model ends: `CHECK_DEADLOCK FALSE`. Fairness:
goroutines go on, timers fire, a user that is done gets the mutex at last (strong
fairness of `Close`, as Go's mutex prevents starvation). Nothing is assumed of the
dials: the second that `OpenTunnel` gives to `ssh.Dial` (tunnel.go:118) bounds the
TCP connection and not the handshake after it, so a silent gateway holds the mutex of
all gateways for ever. `MutexReleased` says that nothing else does.

## List pages

A list page asks the server for a page of a table, and asks again after each
search, turn of the page, deletion, switch, batch and save. Some thirty pages are
written on this plan, each by hand. `ListPage` is what they all do, and a
constant, `Pages`, says how they differ: a profile is a record whose fields are
explained in the module (when the page number is set, which page a reload asks
for, what a spinner covers and what ends it, whether a search sends the box or
merges it into the last one, what a batch goes by). `UIPages` has one profile for
each of 35 pages, in three definitions: its Controls are read from the template,
its Loads from the method that fetches, its Rows (or Handlers) from the methods
that act on rows. `Init` chooses a page, so one run checks them all.

| in the model | in the code (the account page) |
|---|---|
| `page`, `table`, `loading`, `selected`, `query` | `currentPage`, `tableData`, `loading`, `selectedRowKeys`, `searchValue` |
| `loads`, `calls`, `saves` | requests whose promise is not settled |
| `batch` | the loop of `batchDelete`: its index, its copy of the selection, what was agreed to |
| `Ask`, `LoadAnswered`, `LoadFailed` | `updateTableData` before its `await`, its `then`, its `finally` |
| `Serve` | the server reads the table at a moment between question and answer |

Run: `list_pages`. Three records, one to a page, are enough for a page that is
emptied by a deletion and for a selection that crosses pages; two queries differ in
what they hit; `MaxOps` 3 lets a search, a deletion and a turn be under way at
once. `LatestShown` is about answers in order, `overtaken` says that some were
not: no page compares an answer with what it asked for last, so an overtaken
answer is shown. `SpinnerEnds` is about pages that clear the flag whatever the
answer; the others keep their spinner after a failure. A page at its bound stops,
hence `CHECK_DEADLOCK FALSE`.

`ListPage_broken.cfg` is the page of public keys, whose batch throws before its
first call and never ends (`BatchEnds`). `ListPage_merging.cfg` is the tables of
the history, in which a filter that was emptied is still sent
(`SearchSendsBox`).

## Edit forms

One instance of a dialog or drawer serves every opening. `EditForm` keeps apart
what the user opened it for (`meant`), the record a save goes to (`target`) and whose
content the fields hold (`holds`); they part when an opening, a cancel or a late
answer leaves something behind. `opening` numbers the openings, `created` counts
what each has created. `UIForms` has the profile of 33 forms: Buttons from the
template (lock and test), Opening from `open`, `handleEdit`, `handleCancel` (what
fills the form, when it is blanked), Saving from `handleOk` (calls, what ends the
lock, what a success does).

Two forms have something of their own. The drawer of authorizations fetches default
permissions when it is mounted, and its answer makes the defaults of the module the
very object that the user edits (`shares`, `DefaultsCome`); what was ticked there is
what the next close leaves in the form (`Leave`, `Refill`), until an edit gives the
form fields of its own (`Detached`). The form of roles makes a second call when a role
has been created, for the parents that the form holds by then (`Following`).

Run: `edit_forms`. Two records and the empty form are what an edit can meet; five
steps of the user are open, save, cancel, open another, save.

- `SavesOwn` is about the forms a row or the user fills at once, that share nothing
  and save in calls made at once (`Plain`). The
  others are in `EditForm_mixing.cfg`, where `NeverMixed`, the same of all forms,
  is refuted by each of them: an edit whose button waits for an answer opens the form
  over another one, a batch update reads the fields anew for each record, the page
  of the company saves by an id it may not have yet, ticks of a cancelled
  authorization come with the next one and the late defaults overwrite the permissions
  of the one that is edited, and a new role gets the parents of another.
- `OneRecord` is about forms whose lock only an answer releases (`Latched`).
- `ShownOwn` is about forms that fetch what they show at every opening.

## The work station

`WorkStation` is the page on which an operator works: `tabs` in their order, the
tab that is `active`, a connection (`conns`) for each terminal or desktop and two
for each batch tab, the dialog that shares an asset (`share`). `FileDrawer`, which
it extends, is the file drawer of one connection.

| in the model | in the code |
|---|---|
| `AskTabs`, `TabsOpen`, `OpenNow`, `OpenFresh`, `CopyTab`, `OpenSetting` | `openTerminal` and the answer to its permissions request, `openBatchExecution`, `openWebSSH`, `copyTerminal`, `openSystemSetting` |
| `Connects`, `Closes`, `Gone`, `Tell` | `websocketOpen`, `closeWebSocket`, the end of the socket, `handleTerminalSocketStatus` |
| `CloseTab`, `ClosedBy` | `closeTerminal` and the `beforeDestroy` of the panels |
| `EnterCommand`, `Given` | `batchWriteCommand` and the panels it reaches |
| `AskLink`, `LinkMade`, `OpenShare` | `shareAssetModal.vue` |
| `path`, `shown`, `loads` | `pathList`, the table, requests of the drawer |

Run: `work_station`. Two tabs are what moving, closing and copying need, and a
batch tab's two panels what a command needs; five steps of the user; a tree of
three directories. `disturbed` says that two requests of the drawer
were under way at once or that a step back failed since it was last at rest;
`DirectoryShown` excuses that, since the code then parts the table from the path.

Fairness: a request for permissions is answered, a handshake ends one way or the
other, and a socket that was told to close does. An open socket may stay so.

What the code does not give: `CommandOnce` (`WorkStation_command.cfg`), `LinkOwn`
(`WorkStation_link.cfg`), `DownloadsOwn` (`WorkStation_download.cfg`).

## Signing in and out

`SignIn` has three pages: login, logout, and `app` for every page behind the guard
of `guard.js`. A navigation to `app` waits (`going`) for the user, the permissions
and the routes, or for the login methods. One begun meanwhile replaces it, but the
answers of the first still come (`infos`, `probing`), and its guard goes on to where
it names: vue-router (`^3.1.2`) compares a navigation with the last one begun before
it calls a guard, not when the guard answers with a place. So `RoutesAdded` and
`MethodsCome` navigate whatever the user has done meanwhile, unless the router refuses
because the very page is shown (`Refused`). vue-router is not part of the repository;
this is what its version 3 does. `Load` is a
page loaded anew: it forgets all but what the browser and the server store
(`stored`, `session`). `due` is the timer that `FetchFails` starts; `stray` is the
request of a logout page that was left.

Run: `sign_in`, with three steps of the user and two fetches per load of the page:
two navigations can overlap, the answer of the first can begin one that fetches the
user again, and a failed fetch can be followed by a login; the properties hold with
three fetches as well.
Fairness: each request of each fetch is answered or fails, timers fire; nothing is
assumed of the user or of a sign-on's pages. `NavigationEnds` is about the last
navigation begun, by the user or by a late answer, and excuses
failures that nothing catches (`failed`); `RoutesFirst` excuses overlapping
navigations.

What the code does not give (`SignIn_routes.cfg`): `RoutesBeforePage` without that
excuse; `NotThrownOut`, since the timer of an earlier failure signs out a user who has
signed in since; and `StaysPut`, since the late answer of a replaced navigation takes
the user off the page they have reached.

## Findings

Every listed run passes. These are instances that TLC refutes, each with the assumption of a passing run
dropped or with a promise that the code does not keep (`tlc` shows the first of the three
properties of `SignIn_routes.cfg` that it meets; a copy of the file with one of them
shows that one):

| configuration | property | what the code does |
|---|---|---|
| `PAMExecution_stuck.cfg` | `ResumeOffered` | a prepared row whose account or binding is edited afterwards is offered for a resumption that is refused (`pam_password.go:98`, `:552`); nothing else may finish it, and it holds the account |
| `PAMExecution_repeated.cfg` | `KnownOutcome` | a typed candidate equal to the present password makes a successful login meaningless: the row completes while its mutation may still run |
| `PAMExecution_unlisted.cfg` | `KnownOutcome` | a confirmation that nothing runs on the target is compared with one read of the row and used for another |
| `PAMRequest_revocation.cfg` | `RevocationKept` | replacing a view request writes stale copies over a cancellation or a decision |
| `PAMSession_late_activation.cfg` | `WithinLimit` | a renewal that waits for the database revives a lease that ran out, beyond the session limit |
| `TerminalSession_monitored.cfg` | `AwayClosed` | a monitor that leaves spends the `Once` of the session it watched |
| `TerminalSession_offline.cfg` | `OfflineEnds` | an administrator's close is dropped after a second, and the session goes on as offline |
| `TerminalSession_flush.cfg` | `OutputShown` | the last output of a shell that exits in order is dropped |
| `GatewayTunnel_sockets.cfg` | `ClosedWhole` | a remote connection dialled during `CloseTunnels` is never closed |
| `GatewayTunnel_leak.cfg`, `GatewayTunnel_dead.cfg` | `NothingShared`, `DeadForgotten` | the waiter of an SSH client removes the entry of another one, or removes its own too early |
| `ListPage_broken.cfg` | `BatchEnds` | the batch of the public keys throws before its first call |
| `ListPage_merging.cfg` | `SearchSendsBox` | a filter of the history that was emptied is still sent |
| `EditForm_mixing.cfg` | `NeverMixed` | a save carries the fields of another record than the form was opened for |
| `WorkStation_command.cfg` | `CommandOnce` | a panel that still connects ends the round of a batch command, which the next Enter repeats in the panels before |
| `WorkStation_link.cfg` | `LinkOwn` | the share dialog acts on the tab that is active when OK is pressed, and shows whichever link comes |
| `WorkStation_download.cfg` | `DownloadsOwn` | a download names a directory other than that of its files |
| `SignIn_routes.cfg` | `RoutesBeforePage` | a second navigation does not wait for the routes of the first |
| `SignIn_routes.cfg` | `NotThrownOut` | the timer of a failed fetch signs out a user who has signed in since |
| `SignIn_routes.cfg` | `StaysPut` | the guard of a replaced navigation goes on to where it led, whatever page is shown by then |

## Proofs

Eight modules hold theorems: `PAMExecution_proofs`, `PAMRequest_proofs`,
`PAMSession_proofs`, `TerminalSession_proofs`, `GatewayTunnel_proofs`,
`ListPage_proofs`, `EditForm_proofs` and `Interface_proofs`. They are for any number of
executions, runs, requests, workers, sessions, tunnels, records, forms, tabs and
directories and for any bounds, and
assume the ASSUMEs of the modules they are about: names are distinct, bounds are
numbers, sessions, tunnels and records are finite sets, profiles have the fields of a
profile; of the list pages also that Reset searches (`ResetSearches`) and that a
page which merges its box into the last search loads by searching only
(`MergingSearches`), both of which TLC evaluates for the pages of the interface. What
else a theorem assumes, it states; it is said below.

### Password execution

`PAMExecution_proofs` proves the inductive invariant

    Structure == TypeOK /\ SlotOK /\ VersionOK /\ LeaseOK /\ StepOK /\ SendOK

one lemma per conjunct, one step per action. No conjunct is inductive alone:
that a mutation is sent once (`SendOK`) needs to know that a run about to send
holds a row in state `changing` (`StepOK`) that no second run can claim back to
`prepared` (`LeaseOK`), because one row at a time holds the account (`SlotOK`).

- `TypeCorrect`: `Spec => []TypeOK`.
- `SentOnce`: the mutation of an execution is sent at most once.
- `PointerCorrect`: the account's version is its only active version.
- `OneRow`: no two rows have the same idempotency key; `Prepare` alone makes rows,
  and on a row that holds the account no other step can.

The properties about outcomes need two facts about the outside:
no two versions have the same plaintext (`DistinctPasswords`), and keep-original is
confirmed on listed rows only (`ConfirmListed`). `PAMExecution_repeated.cfg` and
`PAMExecution_unlisted.cfg` show that both are necessary. Under them a second invariant `Outcome` (what a run or the
target has seen is so) is inductive relative to `Structure`, and gives

- `OutcomeKnown`: no finished row has a mutation in flight;
- `OutcomeTrue`: completed means applied, failed means never sent or refused;
- `Pinned`: while a mutation is in flight the account stays managed and both
  versions can be recovered;
- `ImplementsRotationHolds`: every step is a step of
  `PAMRotation` or a stutter.

### Access requests

`PAMRequest_proofs`. The inductive invariant is

    Base == Shape /\ TicketsOK /\ AnswersOK /\ EditorOK /\ AbsentOK

`TicketsOK`: a ticket is decided once. `AnswersOK`: a worker's answer about a
ticket is what ITSM holds, or has been withdrawn since, whoever has taken the
lease meanwhile. `EditorOK` and `AbsentOK`: the request that is being made does
not exist yet. From it every step is summarized for each row (`RowsMove`): the row
`Stays` as far as the properties see, `Ends`, `Begins` under the present policy, or
`Grants` an access that ITSM approved in time. These follow from that summary alone:

- `PolicyCurrentHolds`, `OneOpenViewHolds`, `ApprovedHolds`, `NoReturnHolds`
  (for `PolicyCurrent`, `OneOpenView`, `ApprovedByProvider`, `NoReturn`).
- `OnlyReplacedOverwritten`: a recorded revocation is overwritten by nothing but the
  replacement of a view request (`ReplaceView`), which saves the copy it read. It
  needs that only what is over has been revoked (`UnrevokedOK`). So
  `RevocationKeptHolds` assumes `View = {}`, as the run does; with view requests
  the property fails (`PAMRequest_revocation.cfg`).
- `ImplementsAccessHolds`, for any number of requests of both kinds: `AccessInv`
  joins `Base` with `DoneInv` (below), `ViewsOK` (the request that is being replaced is
  the only open one), `UnrevokedOK`, and `LateOK`: a call that still travels is for a
  request that exists, and one that cancels is for a request that is over. The last
  is what keeps a late cancellation from closing the ticket of a live request. The
  summary of each row gives the step of the book (`OneRowBook`: `End`, `Ask`, `Approve`);
  steps that rewrite many rows (`PolicyBook`, `ReplaceBook`), tickets (`TicketsBook`) and
  the clock (`PeriodBook`) have a lemma each.
- `DoneIsClosedHolds` has an invariant of its own, `DoneInv`. A worker decides that
  all is done several steps after it read the row and was answered, while leases
  pass and others write; so `JobDone` says, step by step, which of "the request is
  over" and "its ticket is closed" the worker already knows, `OverLasts` that nobody
  takes either back, and `Advances` that the answer it goes by is an earlier state of
  the ticket. The step that needs most is the acceptance of an event that the row
  has noted before: `RowDone` says that a row which noted a final event has
  finished, and `EditorDone` that the copy of a replaced request noted no event
  that is still to come.
- `TypeCorrect` is `Spec => []TypeOK`. Its substance is the counter of failures: a
  worker writes the number it read when it claimed the request plus one, so
  `JobsCount` says that the holder of a lease still agrees with the row, and
  `RowsTried` that a counter at its bound goes with `failed`, or with a request that
  is over. The exact bound is `MaxAttempts + 1`: invalidation starts a request that
  was given up once more and does not reset its counter.

### Managed sessions

`PAMSession_proofs`. `WatchOK` says of each session that what it knows of its lease
is not more than the lease, that its timers end with it, and that the clock reading
of a renewal is not older than its timer allows. With it a renewal finds the lease
still effective (`RenewsHeld`), so leases pass only through `Admit`, which counts.

- `WithinLimitHolds` assumes `Prompt` and `Timeout <= TTL`. The
  second is so in the code: 5 s and 45 s. The first is about the statement of an
  activation, which the code does not bound by the lease;
  `PAMSession_late_activation.cfg` shows that the limit fails without it.
- `CoveredHolds` assumes `Timeout <= TTL` only: with or without `Prompt` a transport
  is open past what its session knows of lease and deadline for `Overrun` at most.
- `WithdrawnEndsHolds` assumes nothing of this. `CheckedOK` bounds, for each stage of the
  watcher, the end of the check that runs and the last check that can have passed
  after the withdrawal; a renewal that waits for the database is cut off by the
  context of its check.
- `NothingLeftOpenHolds` assumes nothing either. Its invariant, `TransportOK`, follows
  the transport through dial, hook and stop: one of the two that meet last closes
  it.

### Terminal sessions and gateway tunnels

- `CleanedLastHolds` (`TerminalSession_proofs`): the invariant says that before the
  handler serves, and after it has refused, no goroutine of its own runs, and that an error is reported
  only when the shell's waiter has ended.
- `TypeCorrect` and `NothingLostHolds` (`TerminalSession_proofs`) follow the shell's
  output through its six places, from the pipe to the browser (`InTransit`): what is
  in them never exceeds what the shell wrote, and equals it as long as the browser
  stays, but for the one rune that the pump may hold when it ends (`OutInv`). That
  the pump starts once, with nothing in hand, is `StartOK`. What stays behind in
  the channel when the writer leaves still counts as on its way: that it is shown
  after an orderly exit is false in the code (`OutputShown`).
- `VerdictTrueHolds`, `LastClosesHolds` (`GatewayTunnel_proofs`): the count is at least
  the number of tunnels that hold a reference, those in the map and the one that
  `OpenTunnel` has counted but not entered yet (`CountOK`). It may be more, since
  tunnels of older connections count too; so a close that reaches zero is the
  last one.
- `TypeCorrect` (`GatewayTunnel_proofs`) bounds the count from the other side: it is at
  most the number of calls of `OpenTunnel` that have counted (`CountBounded`).
- `OneInsideHolds` (`GatewayTunnel_proofs`): the manager's mutex is held across the
  dial and the wait for the goroutine, so at most one call is between them; and every
  goroutine that may dial was given a connection, even one that is cut off or deleted
  from the map before the goroutine gets to it.

### List pages

`ListPage_proofs`. Besides `TypeCorrect`, which bounds what a batch can read from the
selection (`AtMember`, by counting ranks in a finite set):

- `BatchAgreedHolds`: the copy a batch goes by is what was agreed to, and its next
  item is one of the copy until it is exhausted (`BatchOK`).
- `SpinnerEndsHolds`: while the flag is set there is a load, a flagged delete or a
  batch whose end clears it (`SpinnerInv`).
- `LatestShownHolds`: as long as answers come in order, the load numbered last is on
  its way or shown, and agrees with what the box, the last search and the pager say
  (`LatestInv`); two loads never have one number (`NumbersOK`).

### Edit forms

- `SavesOwnHolds` (`EditForm_proofs`), if every form that a row or the user fills is
  reset at its opening or its close (`Resets`); `ShownOwnHolds`, if forms that
  reload after a save have set the record to ask for and forms that fetch share no
  defaults (`ReloadsOwn`). TLC evaluates
  both for the 33 forms, as an ASSUME of `MCEditForm`. `OneRecordHolds` assumes
  nothing. Invariants: a closed form is empty if closing blanks it (`PlainInv`); a
  latched form has one save under way, and what it has created is counted for
  openings that are over (`LatchInv`); the youngest fetch is for the
  record the form is open for (`ShownInv`).
### The work station and signing in

`Interface_proofs`.

- `StatusTrueHolds`: a status finds its tab by the tab's id, so the invariant
  (`WorkInv`) is about identities: every tab has an id of its own (`TabsOK`), tab and
  panel tell connections apart and only a connection that is closing outlives its tab
  (`ConnsOK`), the ids set aside for tabs whose permissions are asked for belong to
  nobody else (`AsksOK`). Moving a tab rearranges the sequence and loses none
  (`Moved`).
- `DirectoryShownHolds`: unless disturbed, one request at most is under way, and it is
  for the directory wanted or, behind a step back, for the one the path already
  names (`DrawerInv`).
- `RoutesFirstHolds`: unless navigations overlapped, guards wait on behalf of the last
  navigation only, for one fetch or one answer about the login methods, so no late
  answer begins a navigation; and a user who is known or being fetched, while no
  navigation waits for a fetch, has been in the app with its routes before
  (`RoutesInv`).

### Only model-checked

Liveness everywhere, under fairness, and what speaks of ENABLED: out of the
prover's reach. These are `Recoverable`, `TicketClosed`, `VerdictArrives`, `CleanedUp`,
`ClosedEnds`, `EndNoticed`, `ConnectorEnds`, `MutexReleased`, `StatusSettles`,
`ConnectionEnds`, `NavigationEnds` and `SignOutLands`. Induction over data and
RECURSIVE operators are out of reach too; the modules have none. Of the safety
properties there remain `RevocationKept` with view requests, where it is false, and the type
invariants other than those of `PAMExecution`, `PAMRequest`, `TerminalSession`,
`GatewayTunnel` and `ListPage` (the other proofs carry the parts they need, as `Shape`).

Each module has a type invariant, which its run would check at every state;
`BatchEnds`, `LockEnds` and `ProviderMonotone` hold as well where
their module says so. They are left out of the listed runs in favour of
properties that say more.

## What is not modelled

Text and bytes: the command parser and its patterns, terminal emulation, rewriting
of web pages, recordings, encryption, cron and filter expressions. Pure input and
output: storage providers, drivers, the ACL client, exports, replays, the dashboard.
Single-row operations without protocol: preferences, keys, statistics, audit
rows. Planned but not done yet: items 8 to 14 of the plan, among them share links,
whose uses are counted before the connection exists (repository/share.go:95), and
the web proxy, whose two stores disagree about closed sessions
(controller/web_proxy.go:266, service/web_proxy/api.go:95). PROJECT.json lists each
component with its reason.

Inside the modelled components of the server: the admission semaphore and audit
rows of the password execution, MFA and templates of requests, session identifiers
used twice, the recording and the other protocols of terminal sessions, and two
tunnels under one session id.

Inside those of the interface: validation and formatting; the option lists
a form loads for its selects; the
descriptions that histories build of changes; the wizard that uploads employees;
keys typed while a connection comes up; the preferences that a terminal loads;
the progress of an upload on the server; `GetInfo` called by the user panel outside
the guard; the page within the app that a redirect names, and a redirect that names
the login page, where a login then leads; what the axios error handler does with an expired session; the sign-on
and notice pages of the settings, where an answer fills whichever tab is active.

## How to run

    tlc -config PAMExecution_edits.cfg MCPAMExecution.tla
    tlc -config TerminalSession_sessions.cfg TerminalSession.tla
    tlapm PAMExecution_proofs.tla

`MC<module>.tla` holds the instances of a module: symmetry sets and the values of
constants that a configuration cannot write. A module without one is run itself. Operators whose
comment begins with "Fault:" or "A slip:" are the mutants of PROJECT.json: each is a plausible bug, put in the place of the
definition after it, that a run must catch.
