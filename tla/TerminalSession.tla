--------------------------- MODULE TerminalSession ---------------------------
(***************************************************************************)
(* The goroutines and channels of one SSH session in a browser: the        *)
(* handler that serves it (connector/handlers.go), the goroutine that      *)
(* connects to the target (connector/protocols/ssh.go), the group of five, *)
(* and of a sixth that watches a managed account's permit, that both of    *)
(* them wait for, an administrator who closes the session and another who  *)
(* watches it (connector/protocols/utils.go), and the channels between     *)
(* them (session/session.go).                                              *)
(***************************************************************************)
EXTENDS Naturals

CONSTANTS
    InCap,      \* capacity of InChan, 8
    OutCap,     \* capacity of OutChan, 8
    Managed,    \* whether the session's account may be a managed one
    MaxInput,   \* bound on the browser's messages
    MaxOutput,  \* bound on what the shell writes
    Monitored   \* whether somebody may watch the session

ASSUME CapacityAssumption == InCap \in Nat \ {0} /\ OutCap \in Nat \ {0}
ASSUME InputAssumption ==
    MaxInput \in Nat /\ MaxOutput \in Nat /\ Monitored \in BOOLEAN
ASSUME ManagedAssumption == Managed \in (SUBSET BOOLEAN) \ {{}}

VARIABLES
    main,       \* Connect: DoConnect, which may refuse, HandleTerm, its deferred calls
    conn,       \* ConnectSsh
    failed,     \* its result err, which the waiter assigns too
    errChan,    \* ErrChan: unbuffered, or with room for one value for a managed account
    waiter,     \* waits for the end of the shell
    pump,       \* shell output to OutChan
    window,     \* window sizes to the shell
    reader,     \* protocols.Read: browser to InChan
    writer,     \* the select loop of HandleTerm
    watcher,    \* WatchPAMConnection, for a managed account
    gctx,       \* the group's context is cancelled
    away,       \* AwayChan is closed
    once,       \* sess.Once has run
    inq,        \* how many messages InChan holds
    sent,       \* messages of the browser so far
    out,        \* the shell's output on its way to the browser
    shell, client, admin, monitor

group == <<waiter, pump, window, reader, writer, watcher>>
ends == <<gctx, away, once>>
input == <<inq, sent>>
people == <<client, admin, monitor>>
vars == <<main, conn, failed, errChan, group, ends, input, out, shell, people>>

\* remote: not yet copied; ahead and taken: read by the pump; queue: in OutChan;
\* buffer: in OutBuf.
Output == [remote : 0 .. MaxOutput, ahead : 0 .. MaxOutput, taken : 0 .. 1,
           queue : 0 .. OutCap, buffer : 0 .. MaxOutput, made : 0 .. MaxOutput, shown : 0 .. MaxOutput]

Init ==
    /\ main = "dialing" /\ conn = "dial" /\ failed = FALSE
    /\ errChan \in {IF m THEN "empty" ELSE "unbuffered" : m \in Managed}
    /\ waiter = "off" /\ pump = "off" /\ window = "off" /\ reader = "off" /\ writer = "off"
    /\ watcher = "off"
    /\ inq = 0 /\ sent = 0
    /\ gctx = FALSE /\ away = FALSE /\ once = FALSE
    /\ out = [remote |-> 0, ahead |-> 0, taken |-> 0, queue |-> 0, buffer |-> 0, made |-> 0, shown |-> 0]
    /\ shell = "none" /\ client = "here" /\ admin = "idle" /\ monitor = "none"
-----------------------------------------------------------------------------
Ended(g) == g \in {"off", "gone"}

\* Fault: the handler waits for its own two goroutines only.
HandlerDone == Ended(reader) /\ Ended(writer)

\* errgroup.Group.Wait.
GroupDone ==
    /\ Ended(waiter) /\ Ended(pump) /\ Ended(window) /\ Ended(reader) /\ Ended(writer)
    /\ Ended(watcher)

\* The first goroutine that returns an error cancels the context.
Cancel(err) == gctx' = (gctx \/ err)

\* sess.Once.Do(func() { close(chs.AwayChan) })
CloseAway == once' = TRUE /\ away' = (away \/ ~once)

\* stopPAMConnection: the channel, the transport and the browser's socket are closed.
Stop ==
    /\ CloseAway
    /\ shell' = IF shell = "running" THEN "broken" ELSE shell
    /\ client' = "left"

\* The handler serves the session.
Serve == main' = "serving" /\ reader' = "top" /\ writer' = "select"
-----------------------------------------------------------------------------
\* ConnectSsh until its first send; a transport of a session that was stopped meanwhile
\* is closed as soon as it is there.
Dial(ok) ==
    /\ conn = "dial" /\ (ok => main = "dialing")
    /\ conn' = "send"
    /\ failed' = ~ok
    /\ IF ok THEN waiter' = "waiting" /\ shell' = "running" ELSE UNCHANGED <<waiter, shell>>
    /\ UNCHANGED <<main, errChan, pump, window, reader, writer, watcher, ends, input, out, people>>

AfterSend == conn' = IF waiter = "off" THEN "gone" ELSE "spawn"

\* chs.ErrChan <- err meets the handler, or leaves the value in the channel.
Meet ==
    /\ conn = "send" /\ errChan = "unbuffered" /\ main = "dialing"
    /\ \/ failed /\ main' = "refused" /\ CloseAway /\ UNCHANGED <<reader, writer>>
       \/ ~failed /\ Serve /\ UNCHANGED <<away, once>>
    /\ AfterSend
    /\ UNCHANGED <<failed, errChan, waiter, pump, window, watcher, gctx, input, out, shell, people>>

Put ==
    /\ conn = "send" /\ errChan = "empty"
    /\ errChan' = IF failed THEN "error" ELSE "ok"
    /\ AfterSend
    /\ UNCHANGED <<main, failed, group, ends, input, out, shell, people>>

\* A managed session is given up.
Refuse ==
    /\ main' = "refused" /\ Stop
    /\ UNCHANGED <<conn, failed, group, gctx, input, out, admin, monitor>>

\* waitPAMConnection hears of the connection,
Take ==
    /\ main = "dialing" /\ errChan \in {"ok", "error"}
    /\ errChan' = "empty"
    /\ \/ errChan = "error" /\ Refuse
       \/ /\ errChan = "ok" /\ main' = "activating"
          /\ UNCHANGED <<conn, failed, group, ends, input, out, shell, people>>

\* or its lease, its deadline or its request ends first.
WaitEnds == main = "dialing" /\ errChan # "unbuffered" /\ Refuse /\ UNCHANGED errChan

\* ActivatePAMConnection; then the permit is watched.
Activate ==
    /\ main = "activating"
    /\ \/ Refuse
       \/ /\ Serve /\ watcher' = "watching"
          /\ UNCHANGED <<conn, failed, waiter, pump, window, ends, input, out, shell, people>>
    /\ UNCHANGED errChan

Spawn ==
    /\ conn = "spawn"
    /\ conn' = "group"
    /\ pump' = "top" /\ window' = "select"
    /\ UNCHANGED <<main, failed, errChan, waiter, reader, writer, watcher, ends, input, out, shell, people>>

\* ConnectSsh returns: an error is sent once more.
ConnReturns ==
    /\ conn = "group" /\ GroupDone
    /\ gctx' = TRUE
    /\ conn' = IF failed THEN "report" ELSE "gone"
    /\ UNCHANGED <<main, failed, errChan, group, away, once, input, out, shell, people>>

\* Fault: the channel has no room.
CanReportNow == main = "dialing"

\* There is room: the value sent before was taken; nobody receives any more.
CanReport == errChan = "empty"

ConnReports ==
    /\ conn = "report" /\ CanReport
    /\ errChan' = "error"
    /\ conn' = "gone"
    /\ UNCHANGED <<main, failed, group, ends, input, out, shell, people>>

\* HandleTerm after the group: recorder, file client and record are closed; then
\* HandleError and ws.Close of Connect.
Cleanup ==
    /\ main = "serving" /\ GroupDone
    /\ main' = "done"
    /\ gctx' = TRUE /\ CloseAway
    /\ UNCHANGED <<conn, failed, errChan, group, input, out, shell, people>>
-----------------------------------------------------------------------------
\* Nobody reads the shell's output any more: Wout or Rout is closed.
Unread == writer = "gone" \/ window = "gone"

\* Fault: an orderly end of the shell is not announced.
ShellEndsQuietly ==
    /\ waiter = "waiting" /\ shell \in {"exited", "broken"}
    /\ out.remote = 0 \/ Unread
    /\ LET err == shell = "broken" \/ out.remote > 0 IN
       /\ waiter' = "gone" /\ failed' = err /\ Cancel(err)
       /\ IF err THEN CloseAway ELSE UNCHANGED <<away, once>>
    /\ UNCHANGED <<main, conn, errChan, pump, window, reader, writer, watcher, input, out, shell, people>>

\* sshSess.Wait returns after the output was copied, or could not be.
ShellEnds ==
    /\ waiter = "waiting" /\ shell \in {"exited", "broken"}
    /\ out.remote = 0 \/ Unread
    /\ LET err == shell = "broken" \/ out.remote > 0 IN
       waiter' = "gone" /\ failed' = err /\ Cancel(err)
    /\ CloseAway
    /\ UNCHANGED <<main, conn, errChan, pump, window, reader, writer, watcher, input, out, shell, people>>

Pump(next, o) ==
    /\ pump' = next /\ out' = o
    /\ UNCHANGED <<main, conn, failed, errChan, waiter, window, reader, writer, watcher, away, once, input, shell, people>>

PumpTop ==
    /\ pump = "top"
    /\ Pump(IF gctx THEN "gone" ELSE "read", out)
    /\ UNCHANGED gctx

\* buf.ReadRune: from its buffer, from the pipe, or the end of it.
PumpRead ==
    /\ pump = "read"
    /\ \/ /\ out.ahead > 0
          /\ Pump("send", [out EXCEPT !.ahead = @ - 1, !.taken = 1])
          /\ UNCHANGED gctx
       \/ /\ out.ahead = 0 /\ ~Unread
          /\ \E n \in 1 .. out.remote : Pump("read", [out EXCEPT !.ahead = n, !.remote = @ - n])
          /\ UNCHANGED gctx
       \/ /\ out.ahead = 0 /\ Unread
          /\ Pump("gone", out)
          /\ Cancel(TRUE)

\* SendOutput.
PumpSend ==
    /\ pump = "send"
    /\ \/ (gctx \/ away) /\ Pump("gone", [out EXCEPT !.taken = 0])
       \/ out.queue < OutCap /\ Pump("top", [out EXCEPT !.taken = 0, !.queue = @ + 1])
    /\ UNCHANGED gctx

\* Fault: it waits for the end of the shell only.
WindowEndsWhenAway ==
    /\ window = "select" /\ away
    /\ window' = "gone" /\ gctx' = TRUE
    /\ UNCHANGED <<main, conn, failed, errChan, waiter, pump, reader, writer, watcher, away, once, input, out, shell, people>>

\* The goroutine for window sizes; its deferred calls close the shell and the pipes.
WindowEnds ==
    /\ window = "select" /\ (gctx \/ away)
    /\ window' = "gone"
    /\ gctx' = (gctx \/ away)
    /\ UNCHANGED <<main, conn, failed, errChan, waiter, pump, reader, writer, watcher, away, once, input, out, shell, people>>
-----------------------------------------------------------------------------
Reader(next) ==
    /\ reader' = next
    /\ UNCHANGED <<main, conn, failed, errChan, waiter, pump, window, writer, watcher, away, once, out, shell, people>>

\* protocols.Read.
ReaderTop ==
    /\ reader = "top"
    /\ Reader(IF gctx \/ away THEN "gone" ELSE "read")
    /\ UNCHANGED <<gctx, input>>

ReaderMessage ==
    /\ reader = "read" /\ client = "here" /\ sent < MaxInput
    /\ sent' = sent + 1
    /\ Reader("push")
    /\ UNCHANGED <<gctx, inq>>

\* Fault: the end of the connection is no error.
ReaderFailsQuietly ==
    /\ reader = "read" /\ client = "left"
    /\ Reader("gone")
    /\ UNCHANGED <<gctx, input>>

ReaderFails ==
    /\ reader = "read" /\ client = "left"
    /\ Reader("gone") /\ Cancel(TRUE)
    /\ UNCHANGED input

ReaderPush ==
    /\ reader = "push" /\ inq < InCap
    /\ inq' = inq + 1
    /\ Reader("top")
    /\ UNCHANGED <<gctx, sent>>
-----------------------------------------------------------------------------
\* protocols.Write: OutBuf goes to the browser, if it is there.
Flushed == IF client = "here" THEN [out EXCEPT !.buffer = 0, !.shown = @ + out.buffer] ELSE [out EXCEPT !.buffer = 0]

\* The writer returns.
Leave(o, err) ==
    /\ writer' = "gone" /\ out' = o /\ Cancel(err)
    /\ UNCHANGED <<main, conn, failed, errChan, waiter, pump, window, reader, watcher, away, once, input, shell, client, monitor>>

WriterStops ==
    /\ writer = "select" /\ (gctx \/ away)
    /\ Leave(Flushed, FALSE)
    /\ UNCHANGED admin

\* Nobody types for an hour, or access is not allowed at this time.
WriterIdle ==
    /\ writer = "select"
    /\ \E o \in {Flushed, out} : Leave(o, TRUE)
    /\ UNCHANGED admin

WriterClosed ==
    /\ writer = "select" /\ admin = "sending"
    /\ admin' = "closed"
    /\ Leave(Flushed, TRUE)

\* The message is typed text, a new window size, or a keep-alive or a malformed size,
\* which need nothing more; its kind is chosen when it is looked at.
WriterInput ==
    /\ writer = "select" /\ inq > 0
    /\ inq' = inq - 1
    /\ writer' \in {"select", "resize", "paste"}
    /\ UNCHANGED <<main, conn, failed, errChan, waiter, pump, window, reader, watcher, ends, sent, out, shell, people>>

\* chs.WindowChan <- meets the goroutine for window sizes.
WriterResize ==
    /\ writer = "resize" /\ window = "select"
    /\ writer' = "select"
    /\ UNCHANGED <<main, conn, failed, errChan, waiter, pump, window, reader, watcher, ends, input, out, shell, people>>

\* chs.Win.Write returns when the shell reads, which it need not, or the pipe is closed.
WriterPasted ==
    /\ writer = "paste" /\ window # "gone" /\ shell = "running"
    /\ writer' = "select"
    /\ UNCHANGED <<main, conn, failed, errChan, waiter, pump, window, reader, watcher, ends, input, out, shell, people>>

\* The error of a forbidden command's replacement is not looked at.
WriterPasteFails ==
    /\ writer = "paste" /\ window = "gone"
    /\ \/ Leave(out, TRUE) /\ UNCHANGED admin
       \/ /\ writer' = "select"
          /\ UNCHANGED <<main, conn, failed, errChan, waiter, pump, window, reader, watcher, ends, input, out, shell, people>>

WriterOutput ==
    /\ writer = "select" /\ out.queue > 0
    /\ out' = [out EXCEPT !.queue = @ - 1, !.buffer = @ + 1]
    /\ UNCHANGED <<main, conn, failed, errChan, group, ends, input, shell, people>>

\* The tickers: output every 100 ms, a ping every second.
WriterTick ==
    /\ writer = "select"
    /\ IF client = "here"
       THEN /\ out.buffer > 0
            /\ out' = Flushed
            /\ UNCHANGED <<main, conn, failed, errChan, group, ends, input, shell, people>>
       ELSE Leave(Flushed, TRUE) /\ UNCHANGED admin
-----------------------------------------------------------------------------
\* WatchPAMConnection returns when the group's context ends or when the permit is lost,
\* an error; the session is stopped, and later its admission released.
WatcherStops ==
    /\ watcher = "watching"
    /\ watcher' \in IF gctx THEN {"ending"} ELSE {"lost"}
    /\ Stop
    /\ UNCHANGED <<main, conn, failed, errChan, waiter, pump, window, reader, writer, gctx, input, out, admin, monitor>>

WatcherEnds ==
    /\ watcher \in {"ending", "lost"}
    /\ watcher' = "gone" /\ Cancel(watcher = "lost")
    /\ UNCHANGED <<main, conn, failed, errChan, waiter, pump, window, reader, writer, away, once, input, out, shell, people>>
-----------------------------------------------------------------------------
ShellWrites ==
    /\ shell = "running" /\ out.made < MaxOutput
    /\ out' = [out EXCEPT !.made = @ + 1, !.remote = @ + 1]
    /\ UNCHANGED <<main, conn, failed, errChan, group, ends, input, shell, people>>

ShellExits ==
    /\ shell = "running"
    /\ shell' = "exited"
    /\ UNCHANGED <<main, conn, failed, errChan, group, ends, input, out, people>>

\* It exits with a code, the connection breaks, or this side closes it.
ShellBreaks ==
    /\ shell = "running"
    /\ shell' = "broken"
    /\ UNCHANGED <<main, conn, failed, errChan, group, ends, input, out, people>>

ClientLeaves ==
    /\ client = "here"
    /\ client' = "left"
    /\ UNCHANGED <<main, conn, failed, errChan, group, ends, input, out, shell, admin, monitor>>

\* ConnectClose: the record is set offline, then OfflineSession offers the close for
\* a second and removes the session from the online ones.
AdminCloses ==
    /\ admin = "idle" /\ main = "serving"
    /\ admin' = "sending"
    /\ UNCHANGED <<main, conn, failed, errChan, group, ends, input, out, shell, client, monitor>>

AdminGivesUp ==
    /\ admin = "sending" /\ writer # "select"
    /\ admin' = "gaveUp"
    /\ UNCHANGED <<main, conn, failed, errChan, group, ends, input, out, shell, client, monitor>>

\* ConnectMonitor finds the session served; when it leaves, its HandleError spends the
\* session's Once on a channel of its own.
MonitorLeaves ==
    /\ Monitored /\ monitor = "none" /\ main = "serving"
    /\ monitor' = "gone"
    /\ once' = TRUE
    /\ UNCHANGED <<main, conn, failed, errChan, group, gctx, away, input, out, shell, client, admin>>
-----------------------------------------------------------------------------
ConnStep == Meet \/ Put \/ Spawn \/ ConnReturns \/ ConnReports
MainStep == Take \/ WaitEnds \/ Activate \/ Cleanup
PumpStep == PumpTop \/ PumpRead \/ PumpSend
ReaderStep == ReaderTop \/ ReaderFails \/ ReaderPush
WriterStep ==
    WriterStops \/ WriterClosed \/ WriterInput \/ WriterResize \/ WriterPasteFails
    \/ WriterOutput \/ WriterTick

Next ==
    \/ \E ok \in BOOLEAN : Dial(ok)
    \/ ConnStep \/ MainStep \/ ShellEnds \/ PumpStep \/ WindowEnds \/ WatcherStops
    \/ WatcherEnds \/ ReaderStep \/ ReaderMessage \/ WriterStep \/ WriterIdle \/ WriterPasted
    \/ ShellWrites \/ ShellExits \/ ShellBreaks \/ ClientLeaves
    \/ AdminCloses \/ AdminGivesUp \/ MonitorLeaves

Spec == Init /\ [][Next]_vars

\* Goroutines that can go on do, and a shell ends when its channel is closed; the
\* user may keep the page open for ever, the target the handshake.  The wait for a
\* managed connection ends with its lease, an activation after five seconds.
Fairness ==
    /\ WF_vars(ConnStep) /\ WF_vars(MainStep) /\ WF_vars(ShellEnds) /\ WF_vars(PumpStep)
    /\ WF_vars(gctx /\ WatcherStops) /\ WF_vars(WatcherEnds)
    /\ WF_vars(WindowEnds) /\ WF_vars(ReaderStep) /\ WF_vars(WriterStep)
    /\ SF_vars(WriterStops)
    /\ WF_vars(window = "gone" /\ ShellBreaks)

LiveSpec == Spec /\ Fairness
-----------------------------------------------------------------------------
Goroutine == {"off", "gone", "top", "read", "send", "push", "select", "paste", "resize", "waiting",
              "watching", "ending", "lost"}

TypeOK ==
    /\ main \in {"dialing", "activating", "serving", "refused", "done"}
    /\ conn \in {"dial", "send", "spawn", "group", "report", "gone"}
    /\ failed \in BOOLEAN /\ errChan \in {"unbuffered", "empty", "ok", "error"}
    /\ {waiter, pump, window, reader, writer, watcher} \subseteq Goroutine
    /\ sent \in 0 .. MaxInput /\ inq \in 0 .. InCap
    /\ gctx \in BOOLEAN /\ away \in BOOLEAN /\ once \in BOOLEAN
    /\ out \in Output
    /\ out.remote + out.ahead + out.taken + out.queue + out.buffer + out.shown <= out.made
    /\ shell \in {"none", "running", "exited", "broken"}
    /\ client \in {"here", "left"}
    /\ admin \in {"idle", "sending", "closed", "gaveUp"}
    /\ monitor \in {"none", "gone"}

\* The recording and the record are closed last: when HandleTerm cleans up, nobody
\* writes to the recording and the shell has ended.
CleanedLast ==
    main = "done" => Ended(reader) /\ Ended(writer) /\ Ended(waiter)

\* "Always close AwayChan when SSH session ends" (ssh.go:84).
AwayClosed == waiter = "gone" ~> away

\* The two sends of which nobody receives the value any more: the reader's to a full
\* InChan when the writer has returned (utils.go:216), the writer's to WindowChan
\* when the goroutine for window sizes has (handlers.go:472).
ReaderStuck == reader = "push" /\ inq = InCap /\ Ended(writer)
WriterStuck == writer = "resize" /\ Ended(window)

\* The end of the shell ends the service of the browser, even of one that stays
\* open and silent, and even after an orderly exit, which is no error of the group;
\* unless somebody watched the session before, or it holds a size nobody takes.
EndNoticed == waiter = "gone" /\ monitor = "none" ~> Ended(writer) \/ WriterStuck

\* When the browser has gone, HandleTerm comes to its cleanup, "to ensure proper
\* cleanup" (handlers.go:404), unless one of these two sends holds it for ever:
\* no other goroutine of the session is left waiting.
CleanedUp ==
    main = "serving" /\ client = "left" ~> main = "done" \/ ReaderStuck \/ WriterStuck

\* A close that was delivered ends the shell and what serves it on this side, although
\* the browser stays.
ClosedEnds == admin = "closed" ~> waiter = "gone" /\ pump = "gone" /\ window = "gone"

\* The connecting goroutine does not outlive its session, whether it was served or
\* given up, except in a handshake the target never ends, or with an error to report
\* where there is no room and nobody receives any more: on the unbuffered channel, or
\* on the one of a managed account that still holds what nobody waited for.
ConnectorEnds ==
    main \in {"refused", "done"} ~>
        \/ conn \in {"gone", "dial"}
        \/ conn = "report" /\ errChan # "empty"

\* "OfflineSession makes a session offline" (utils.go:255): a session an administrator
\* closed stops serving its browser, whether the user leaves or not.
OfflineEnds == admin \in {"closed", "gaveUp"} ~> writer = "gone"

\* "Flush any remaining output before terminating" (handlers.go:437): what the shell
\* wrote before it exited reaches a browser that stays.
OutputShown ==
    main = "done" /\ shell = "exited" /\ client = "here" /\ waiter = "gone" /\ ~failed /\ admin = "idle"
        => out.shown = out.made
=============================================================================
