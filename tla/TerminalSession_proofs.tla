------------------------ MODULE TerminalSession_proofs ------------------------
(***************************************************************************)
(* Proofs about TerminalSession for any capacities of the channels, any    *)
(* input and output, and both kinds of accounts.                           *)
(***************************************************************************)
EXTENDS TerminalSession, TLAPS

\* The connecting goroutine starts the shell's waiter once, before the handler hears
\* of it; an error is reported only without a shell, or after its end.  The handler's
\* own two goroutines start when it serves.
LatchedInv ==
    /\ conn = "dial" => main \in {"dialing", "refused"} /\ errChan \in {"unbuffered", "empty"} /\ waiter = "off"
    /\ failed => Ended(waiter)
    /\ errChan = "error" \/ conn = "report" => Ended(waiter)
    /\ main \in {"dialing", "activating", "refused"} => Ended(reader) /\ Ended(writer)
    /\ CleanedLast

LEMMA LatchedInit == Init => LatchedInv
<1> SUFFICES ASSUME Init PROVE LatchedInv
  OBVIOUS
<1>1. errChan \in {"unbuffered", "empty"}
  BY DEF Init
<1> QED BY <1>1 DEF Init, LatchedInv, Ended, CleanedLast

LEMMA LatchedStep == LatchedInv /\ [Next]_vars => LatchedInv'
<1> SUFFICES ASSUME LatchedInv, [Next]_vars PROVE LatchedInv'
  OBVIOUS
<1> USE DEF LatchedInv, CleanedLast, Ended
\* Steps of the connecting goroutine, and what the handler hears from it.
<1>1. ASSUME NEW ok \in BOOLEAN, Dial(ok) PROVE LatchedInv'
  BY <1>1 DEF Dial, ends
<1>2. CASE Meet
  BY <1>2 DEF Meet, Serve, AfterSend
<1>3. CASE Put
  BY <1>3 DEF Put, AfterSend, group, ends
<1>4. CASE Take \/ WaitEnds \/ Activate
  BY <1>4 DEF Take, WaitEnds, Activate, Refuse, Serve, group
<1>5. CASE Spawn \/ ConnReturns \/ ConnReports
  <2>1. CASE Spawn
    BY <2>1 DEF Spawn
  <2>2. CASE ConnReturns
    BY <2>2 DEF ConnReturns, GroupDone, group
  <2>3. CASE ConnReports
    BY <2>3 DEF ConnReports, group
  <2> QED BY <1>5, <2>1, <2>2, <2>3
\* The handler comes to its cleanup after all five.
<1>6. CASE Cleanup
  BY <1>6 DEF Cleanup, GroupDone, group
\* The end of the shell: its waiter is gone when the result is an error.
<1>7. CASE ShellEnds
  BY <1>7 DEF ShellEnds
\* The handler's goroutines go on or end, while the handler serves.
<1>8. ASSUME UNCHANGED <<main, conn, failed, errChan, waiter>>,
             reader' = reader \/ reader \notin {"off", "gone"},
             writer' = writer \/ writer \notin {"off", "gone"}
      PROVE  LatchedInv'
  BY <1>8
<1>9. CASE PumpStep \/ WindowEnds
  <2>1. CASE PumpStep
    BY <1>8, <2>1 DEF PumpStep, PumpTop, PumpRead, PumpSend, Pump
  <2> QED BY <1>8, <1>9, <2>1 DEF WindowEnds
<1>10. CASE ReaderStep \/ ReaderMessage
  <2>1. reader \notin {"off", "gone"}
    BY <1>10 DEF ReaderStep, ReaderTop, ReaderFails, ReaderPush, ReaderMessage
  <2>2. UNCHANGED <<main, conn, failed, errChan, waiter, writer>>
    BY <1>10 DEF ReaderStep, ReaderTop, ReaderFails, ReaderPush, ReaderMessage, Reader
  <2> QED BY <1>8, <2>1, <2>2
<1>11. CASE WriterStep \/ WriterIdle \/ WriterPasted
  <2>1. writer \notin {"off", "gone"}
    BY <1>11 DEF WriterStep, WriterIdle, WriterPasted, WriterStops, WriterClosed, WriterInput,
                 WriterResize, WriterPasteFails, WriterOutput, WriterTick
  <2>2. UNCHANGED <<main, conn, failed, errChan, waiter, reader>>
    BY <1>11 DEF WriterStep, WriterIdle, WriterPasted, WriterStops, WriterClosed, WriterInput,
                 WriterResize, WriterPasteFails, WriterOutput, WriterTick, Leave, group
  <2> QED BY <1>8, <2>1, <2>2
\* People and the shell change nothing here.
<1>12. CASE \/ WatcherStops \/ WatcherEnds \/ ShellWrites \/ ShellExits \/ ShellBreaks \/ ClientLeaves
            \/ AdminCloses \/ AdminGivesUp \/ MonitorLeaves \/ UNCHANGED vars
  BY <1>8, <1>12 DEF WatcherStops, WatcherEnds, ShellWrites, ShellExits, ShellBreaks, ClientLeaves, AdminCloses, AdminGivesUp,
               MonitorLeaves, vars, group
<1> QED
  BY <1>1, <1>2, <1>3, <1>4, <1>5, <1>6, <1>7, <1>8, <1>9, <1>10, <1>11, <1>12
     DEF Next, ConnStep, MainStep

\* TerminalSession!CleanedLast: when HandleTerm has cleaned up, nobody serves the
\* browser any more and the shell has ended.
THEOREM CleanedLastHolds == Spec => []CleanedLast
<1>1. LatchedInv => CleanedLast
  BY DEF LatchedInv
<1> QED BY <1>1, LatchedInit, LatchedStep, PTL DEF Spec
-----------------------------------------------------------------------------
\* What the shell wrote is in one of six places; the pump holds a rune exactly while it
\* sends one.  As long as the browser is there, only that rune can be lost, when the
\* pump gives it up and ends.
InTransit == out.remote + out.ahead + out.taken + out.queue + out.buffer + out.shown
NothingLost ==
    client = "here" => InTransit = out.made \/ (pump = "gone" /\ InTransit + 1 = out.made)
OutInv ==
    /\ out \in Output
    /\ out.taken = IF pump = "send" THEN 1 ELSE 0
    /\ InTransit <= out.made
    /\ NothingLost

\* The control state, every variable in the range of its own.
ControlOK ==
    /\ main \in {"dialing", "activating", "serving", "refused", "done"}
    /\ conn \in {"dial", "send", "spawn", "group", "report", "gone"}
    /\ failed \in BOOLEAN /\ errChan \in {"unbuffered", "empty", "ok", "error"}
    /\ waiter \in {"off", "waiting", "gone"} /\ pump \in {"off", "top", "read", "send", "gone"}
    /\ window \in {"off", "select", "gone"} /\ reader \in {"off", "top", "read", "push", "gone"}
    /\ writer \in {"off", "select", "paste", "resize", "gone"}
    /\ watcher \in {"off", "watching", "ending", "lost", "gone"}
    /\ gctx \in BOOLEAN /\ away \in BOOLEAN /\ once \in BOOLEAN
    /\ shell \in {"none", "running", "exited", "broken"}
    /\ client \in {"here", "left"}
    /\ admin \in {"idle", "sending", "closed", "gaveUp"}
    /\ monitor \in {"none", "gone"}
InputOK == sent \in 0 .. MaxInput /\ inq \in 0 .. InCap
StartOK == conn \in {"dial", "send", "spawn"} => pump = "off"
TypeInv == ControlOK /\ InputOK /\ StartOK /\ OutInv

LEMMA TypeInvInit == Init => TypeInv
<1> SUFFICES ASSUME Init PROVE TypeInv
  OBVIOUS
<1>1. errChan \in {"unbuffered", "empty"}
  BY DEF Init
<1>2. ControlOK /\ StartOK
  BY <1>1 DEF Init, ControlOK, StartOK
<1>3. InputOK
  BY CapacityAssumption, InputAssumption DEF Init, InputOK
<1>4. OutInv
  BY CapacityAssumption, InputAssumption DEF Init, OutInv, Output, InTransit, NothingLost
<1> QED BY <1>2, <1>3, <1>4 DEF TypeInv

\* How much may be in each place.
LEMMA Places ==
    ASSUME NEW o \in Output
    PROVE  /\ o.remote \in Nat /\ o.ahead \in Nat /\ o.taken \in {0, 1} /\ o.queue \in Nat
           /\ o.buffer \in Nat /\ o.made \in Nat /\ o.shown \in Nat
           /\ o.remote <= MaxOutput /\ o.ahead <= MaxOutput /\ o.queue <= OutCap
           /\ o.buffer <= MaxOutput /\ o.made <= MaxOutput /\ o.shown <= MaxOutput
BY CapacityAssumption, InputAssumption DEF Output

\* Steps that leave the shell's output where it is, and the browser there or gone.
LEMMA OutStays ==
    ASSUME OutInv, UNCHANGED out, pump' = "send" <=> pump = "send", pump = "gone" => pump' = "gone",
           client' = client \/ client' = "left"
    PROVE  OutInv'
BY DEF OutInv, InTransit, NothingLost, Output

\* One step of the output's way: so much leaves one place and arrives in the next.
LEMMA OutMoves ==
    ASSUME OutInv, UNCHANGED client, out' \in Output,
           out'.taken = (IF pump' = "send" THEN 1 ELSE 0),
           InTransit' + out.made = InTransit + out'.made, pump = "gone" => pump' = "gone"
    PROVE  OutInv'
<1>1. out \in Output
  BY DEF OutInv
<1>2. /\ InTransit \in Nat /\ InTransit' \in Nat
      /\ out.made \in Nat /\ out'.made \in Nat
  BY <1>1, CapacityAssumption, InputAssumption DEF InTransit, Output
<1>3. InTransit' <= out'.made
  BY <1>2 DEF OutInv
<1>4. NothingLost'
  BY <1>2 DEF OutInv, NothingLost
<1> QED BY <1>3, <1>4 DEF OutInv

LEMMA PumpOut == ASSUME OutInv, PumpStep PROVE OutInv'
<1> USE CapacityAssumption, InputAssumption
<1>1. out \in Output /\ InTransit <= out.made
  BY DEF OutInv
<1>2. CASE PumpTop
  BY <1>2, OutStays DEF PumpTop, Pump, people
<1>3. ASSUME pump = "read", out.ahead > 0, Pump("send", [out EXCEPT !.ahead = @ - 1, !.taken = 1])
      PROVE  OutInv'
  <2>1. out.taken = 0 /\ UNCHANGED client
    BY <1>3 DEF OutInv, Pump, people
  <2>2. out.ahead - 1 \in 0 .. MaxOutput
    BY <1>1, <1>3, Places
  <2>3. out' \in Output /\ out'.taken = 1 /\ pump' = "send"
    <3>1. out' = [remote |-> out.remote, ahead |-> out.ahead - 1, taken |-> 1, queue |-> out.queue,
                buffer |-> out.buffer, made |-> out.made, shown |-> out.shown]
      BY <1>1, <1>3 DEF Pump, Output
    <3>2. out' \in Output
      BY <1>1, <2>2, <3>1 DEF Output
    <3> QED BY <1>3, <3>1, <3>2 DEF Pump
  <2>4. InTransit' + out.made = InTransit + out'.made
    BY <1>1, <1>3, <2>1 DEF Pump, Output, InTransit
  <2> QED BY <1>3, <2>1, <2>3, <2>4, OutMoves
<1>4. ASSUME NEW n \in 1 .. out.remote, pump = "read", out.ahead = 0,
             Pump("read", [out EXCEPT !.ahead = n, !.remote = @ - n])
      PROVE  OutInv'
  <2>1. out.taken = 0 /\ UNCHANGED client
    BY <1>4 DEF OutInv, Pump, people
  <2>2. n \in 0 .. MaxOutput /\ out.remote - n \in 0 .. MaxOutput
    BY <1>1, <1>4, Places
  <2>3. out' \in Output /\ out'.taken = 0 /\ pump' = "read"
    BY <1>1, <1>4, <2>1, <2>2 DEF Pump, Output
  <2>4. InTransit' + out.made = InTransit + out'.made
    BY <1>1, <1>4, <2>1 DEF Pump, Output, InTransit
  <2> QED BY <1>4, <2>1, <2>3, <2>4, OutMoves
<1>5. ASSUME pump = "read", Pump("gone", out) PROVE OutInv'
  BY <1>5, OutStays DEF Pump, people
\* The pump ends, and the rune it holds is lost.
<1>6. ASSUME pump = "send", Pump("gone", [out EXCEPT !.taken = 0]) PROVE OutInv'
  <2>1. out.taken = 1 /\ UNCHANGED client /\ pump' = "gone"
    BY <1>6 DEF OutInv, Pump, people
  <2>2. out' \in Output /\ out'.taken = 0 /\ out'.made = out.made
    BY <1>1, <1>6 DEF Pump, Output
  <2>3. InTransit' + 1 = InTransit /\ InTransit' \in Nat /\ InTransit \in Nat /\ out.made \in Nat
    BY <1>1, <1>6, <2>1 DEF Pump, Output, InTransit
  <2>4. InTransit' <= out'.made
    <3>1. \A a, b, c \in Nat : a + 1 = b /\ b <= c => a <= c
      OBVIOUS
    <3> QED BY <1>1, <2>2, <2>3, <3>1
  <2>5. NothingLost'
    BY <1>6, <2>1, <2>2, <2>3 DEF OutInv, NothingLost
  <2> QED BY <2>1, <2>2, <2>4, <2>5 DEF OutInv
<1>7. ASSUME pump = "send", out.queue < OutCap,
             Pump("top", [out EXCEPT !.taken = 0, !.queue = @ + 1])
      PROVE  OutInv'
  <2>1. out.taken = 1 /\ UNCHANGED client
    BY <1>7 DEF OutInv, Pump, people
  <2>2. out.queue + 1 \in 0 .. OutCap
    BY <1>1, <1>7, Places
  <2>3. out' \in Output /\ out'.taken = 0 /\ pump' = "top"
    <3>1. out' = [remote |-> out.remote, ahead |-> out.ahead, taken |-> 0, queue |-> out.queue + 1,
                buffer |-> out.buffer, made |-> out.made, shown |-> out.shown]
      BY <1>1, <1>7 DEF Pump, Output
    <3>2. out' \in Output
      BY <1>1, <2>2, <3>1 DEF Output
    <3> QED BY <1>7, <3>1, <3>2 DEF Pump
  <2>4. InTransit' + out.made = InTransit + out'.made
    BY <1>1, <1>7, <2>1 DEF Pump, Output, InTransit
  <2> QED BY <1>7, <2>1, <2>3, <2>4, OutMoves
<1>8. CASE PumpRead
  BY <1>8, <1>3, <1>4, <1>5 DEF PumpRead
<1>9. CASE PumpSend
  BY <1>9, <1>6, <1>7 DEF PumpSend
<1> QED BY <1>2, <1>8, <1>9 DEF PumpStep

\* The buffer goes to the browser; without one it is thrown away.
LEMMA FlushOut == ASSUME OutInv, out' = Flushed, UNCHANGED <<pump, client>> PROVE OutInv'
<1> USE CapacityAssumption, InputAssumption
<1>1. out \in Output /\ InTransit <= out.made
  BY DEF OutInv
<1>2. CASE client = "here"
  <2>1. out' = [out EXCEPT !.buffer = 0, !.shown = @ + out.buffer]
    BY <1>2 DEF Flushed
  <2>2. out.shown + out.buffer <= out.made
    BY <1>1 DEF InTransit, Output
  <2>3. out' \in Output /\ out'.taken = out.taken
    <3>1. out' = [remote |-> out.remote, ahead |-> out.ahead, taken |-> out.taken, queue |-> out.queue,
                buffer |-> 0, made |-> out.made, shown |-> out.shown + out.buffer]
      BY <1>1, <2>1 DEF Output
    <3>2. out.shown + out.buffer \in 0 .. MaxOutput
      BY <1>1, <2>2, Places
    <3>3. out' \in Output
      BY <1>1, <3>1, <3>2 DEF Output
    <3> QED BY <3>1, <3>3
  <2>4. InTransit' + out.made = InTransit + out'.made
    BY <1>1, <2>1 DEF Output, InTransit
  <2> QED BY <2>3, <2>4, OutMoves DEF OutInv
<1>3. CASE client # "here"
  <2>1. out' = [out EXCEPT !.buffer = 0]
    BY <1>3 DEF Flushed
  <2>2. out' \in Output /\ out'.taken = out.taken /\ out'.made = out.made
    BY <1>1, <2>1 DEF Output
  <2>3. InTransit' <= InTransit /\ InTransit \in Nat /\ InTransit' \in Nat /\ out.made \in Nat
    BY <1>1, <2>1 DEF Output, InTransit
  <2> QED BY <1>1, <1>3, <2>2, <2>3 DEF OutInv, NothingLost
<1> QED BY <1>2, <1>3

LEMMA LeaveOut ==
    ASSUME OutInv, NEW o \in {Flushed, out}, NEW err \in BOOLEAN, Leave(o, err)
    PROVE  OutInv'
<1>1. UNCHANGED <<pump, client>> /\ out' = o
  BY DEF Leave
<1> QED BY <1>1, FlushOut, OutStays

LEMMA QueueOut == ASSUME OutInv, WriterOutput PROVE OutInv'
<1> USE CapacityAssumption, InputAssumption
<1>1. out \in Output /\ InTransit <= out.made
  BY DEF OutInv
<1>2. UNCHANGED <<pump, client>> /\ out.queue > 0
  BY DEF WriterOutput, group, people
<1>3. out' = [remote |-> out.remote, ahead |-> out.ahead, taken |-> out.taken, queue |-> out.queue - 1,
              buffer |-> out.buffer + 1, made |-> out.made, shown |-> out.shown]
  BY <1>1 DEF WriterOutput, Output
<1>4. out.queue - 1 \in 0 .. OutCap /\ out.buffer + 1 \in 0 .. MaxOutput
  <2>1. out.queue + out.buffer <= out.made
    BY <1>1, Places DEF InTransit
  <2> QED BY <1>1, <1>2, <2>1, Places
<1>5. out' \in Output
  BY <1>1, <1>3, <1>4 DEF Output
<1>6. InTransit' + out.made = InTransit + out'.made
  BY <1>1, <1>3, Places DEF InTransit
<1> QED BY <1>2, <1>3, <1>5, <1>6, OutMoves DEF OutInv

LEMMA ShellOut == ASSUME OutInv, ShellWrites PROVE OutInv'
<1> USE CapacityAssumption, InputAssumption
<1>1. out \in Output /\ InTransit <= out.made
  BY DEF OutInv
<1>2. UNCHANGED <<pump, client>> /\ out.made < MaxOutput
  BY DEF ShellWrites, group, people
<1>3. out' = [remote |-> out.remote + 1, ahead |-> out.ahead, taken |-> out.taken, queue |-> out.queue,
              buffer |-> out.buffer, made |-> out.made + 1, shown |-> out.shown]
  BY <1>1 DEF ShellWrites, Output
<1>4. out.remote + 1 \in 0 .. MaxOutput /\ out.made + 1 \in 0 .. MaxOutput
  <2>1. out.remote <= out.made
    BY <1>1, Places DEF InTransit
  <2> QED BY <1>1, <1>2, <2>1, Places
<1>5. out' \in Output
  BY <1>1, <1>3, <1>4 DEF Output
<1>6. InTransit' + out.made = InTransit + out'.made
  BY <1>1, <1>3, Places DEF InTransit
<1> QED BY <1>2, <1>3, <1>5, <1>6, OutMoves DEF OutInv

LEMMA OutStep == StartOK /\ OutInv /\ [Next]_vars => OutInv'
<1> SUFFICES ASSUME StartOK, OutInv, [Next]_vars PROVE OutInv'
  OBVIOUS
<1>1. ASSUME NEW ok \in BOOLEAN, Dial(ok) PROVE OutInv'
  BY <1>1, OutStays DEF Dial, people
\* The pump starts with nothing in hand.
<1>2. CASE ConnStep \/ MainStep \/ ShellEnds \/ WindowEnds \/ WatcherStops \/ WatcherEnds
  <2>1. CASE Spawn
    <3>1. pump = "off" /\ pump' = "top" /\ UNCHANGED <<out, client>>
      BY <2>1 DEF Spawn, StartOK, people
    <3> QED BY <3>1, OutStays
  <2>2. CASE Meet \/ Put \/ ConnReturns \/ ConnReports
    BY <2>2, OutStays DEF Meet, Put, ConnReturns, ConnReports, group, people
  <2> QED BY <1>2, <2>1, <2>2, OutStays
          DEF ConnStep, MainStep, Take, WaitEnds, Activate, Refuse, Stop, Cleanup, ShellEnds, WindowEnds,
              WatcherStops, WatcherEnds, group, people
<1>3. CASE PumpStep
  BY <1>3, PumpOut
<1>4. CASE ReaderStep \/ ReaderMessage
  BY <1>4, OutStays DEF ReaderStep, ReaderTop, ReaderFails, ReaderPush, ReaderMessage, Reader, people
<1>5. CASE WriterStep \/ WriterIdle \/ WriterPasted
  <2>1. CASE WriterStops \/ WriterClosed
    BY <2>1, LeaveOut DEF WriterStops, WriterClosed
  <2>2. CASE WriterIdle
    BY <2>2, LeaveOut DEF WriterIdle
  <2>3. CASE WriterInput \/ WriterResize \/ WriterPasted
    BY <2>3, OutStays DEF WriterInput, WriterResize, WriterPasted, people
  <2>4. CASE WriterPasteFails
    BY <2>4, LeaveOut, OutStays DEF WriterPasteFails, people
  <2>5. CASE WriterOutput
    BY <2>5, QueueOut
  <2>6. CASE WriterTick
    BY <2>6, LeaveOut, FlushOut DEF WriterTick, group, people
  <2> QED BY <1>5, <2>1, <2>2, <2>3, <2>4, <2>5, <2>6 DEF WriterStep
<1>6. CASE ShellWrites
  BY <1>6, ShellOut
<1>7. CASE \/ ShellExits \/ ShellBreaks \/ ClientLeaves
           \/ AdminCloses \/ AdminGivesUp \/ MonitorLeaves \/ UNCHANGED vars
  BY <1>7, OutStays DEF ShellExits, ShellBreaks, ClientLeaves, AdminCloses, AdminGivesUp,
               MonitorLeaves, vars, group, people
<1> QED BY <1>1, <1>2, <1>3, <1>4, <1>5, <1>6, <1>7 DEF Next

LEMMA ControlStep == ControlOK /\ [Next]_vars => ControlOK'
<1> SUFFICES ASSUME ControlOK, [Next]_vars PROVE ControlOK'
  OBVIOUS
<1> USE DEF ControlOK, group, ends, people, Cancel, CloseAway
<1>1. ASSUME NEW ok \in BOOLEAN, Dial(ok) PROVE ControlOK'
  BY <1>1 DEF Dial
<1>2. CASE ConnStep
  <2>1. CASE Meet
    <3>1. conn' \in {"gone", "spawn"} /\ errChan' = errChan
      BY <2>1 DEF Meet, AfterSend
    <3>2. CASE ~failed
      BY <2>1, <3>1, <3>2 DEF Meet, Serve
    <3>3. CASE failed
      BY <2>1, <3>1, <3>3 DEF Meet
    <3> QED BY <3>2, <3>3
  <2>2. CASE Put
    BY <2>2 DEF Put, AfterSend
  <2>3. CASE Spawn \/ ConnReturns \/ ConnReports
    BY <2>3 DEF Spawn, ConnReturns, ConnReports
  <2> QED BY <1>2, <2>1, <2>2, <2>3 DEF ConnStep
<1>3. CASE MainStep \/ ShellEnds \/ WatcherStops \/ WatcherEnds
  <2>1. CASE Take \/ WaitEnds
    BY <2>1 DEF Take, WaitEnds, Refuse, Stop
  <2>2. CASE Activate
    BY <2>2 DEF Activate, Refuse, Stop, Serve
  <2>3. CASE Cleanup
    BY <2>3 DEF Cleanup
  <2>4. CASE ShellEnds
    BY <2>4 DEF ShellEnds
  <2>5. CASE WatcherStops
    BY <2>5 DEF WatcherStops, Stop
  <2>6. CASE WatcherEnds
    BY <2>6 DEF WatcherEnds
  <2> QED BY <1>3, <2>1, <2>2, <2>3, <2>4, <2>5, <2>6 DEF MainStep
<1>4. CASE PumpStep \/ WindowEnds
  <2>1. CASE PumpStep
    BY <2>1 DEF PumpStep, PumpTop, PumpRead, PumpSend, Pump
  <2> QED BY <1>4, <2>1 DEF WindowEnds
<1>5. CASE ReaderStep \/ ReaderMessage
  BY <1>5 DEF ReaderStep, ReaderTop, ReaderFails, ReaderPush, ReaderMessage, Reader
<1>6. CASE WriterStep \/ WriterIdle \/ WriterPasted
  <2>1. ASSUME NEW o, NEW err \in BOOLEAN, Leave(o, err), admin' \in {admin, "closed"} PROVE ControlOK'
    BY <2>1 DEF Leave
  <2>2. CASE WriterStops \/ WriterClosed \/ WriterIdle
    BY <2>1, <2>2 DEF WriterStops, WriterClosed, WriterIdle
  <2>3. CASE WriterInput \/ WriterResize \/ WriterPasted \/ WriterOutput
    BY <2>3 DEF WriterInput, WriterResize, WriterPasted, WriterOutput
  <2>4. CASE WriterPasteFails \/ WriterTick
    BY <2>1, <2>4 DEF WriterPasteFails, WriterTick
  <2> QED BY <1>6, <2>2, <2>3, <2>4 DEF WriterStep
<1>7. CASE \/ ShellWrites \/ ShellExits \/ ShellBreaks \/ ClientLeaves
           \/ AdminCloses \/ AdminGivesUp \/ MonitorLeaves \/ UNCHANGED vars
  BY <1>7 DEF ShellWrites, ShellExits, ShellBreaks, ClientLeaves, AdminCloses, AdminGivesUp,
               MonitorLeaves, vars
<1> QED BY <1>1, <1>2, <1>3, <1>4, <1>5, <1>6, <1>7 DEF Next

\* The pump starts once, when the connecting goroutine enters its group.
LEMMA StartStep == StartOK /\ [Next]_vars => StartOK'
<1> SUFFICES ASSUME StartOK, [Next]_vars PROVE StartOK'
  OBVIOUS
<1> USE DEF StartOK, group
<1>1. ASSUME NEW ok \in BOOLEAN, Dial(ok) PROVE StartOK'
  BY <1>1 DEF Dial
<1>2. CASE ConnStep
  BY <1>2 DEF ConnStep, Meet, Put, Spawn, ConnReturns, ConnReports
<1>3. CASE PumpStep
  BY <1>3 DEF PumpStep, PumpTop, PumpRead, PumpSend, Pump
<1>4. CASE \/ MainStep \/ ShellEnds \/ WindowEnds \/ WatcherStops \/ WatcherEnds
           \/ ReaderStep \/ ReaderMessage
  BY <1>4 DEF MainStep, Take, WaitEnds, Activate, Refuse, Cleanup, ShellEnds, WindowEnds,
              WatcherStops, WatcherEnds, ReaderStep, ReaderTop, ReaderFails,
              ReaderPush, ReaderMessage, Reader
<1>5. CASE WriterStep \/ WriterIdle \/ WriterPasted
  BY <1>5 DEF WriterStep, WriterIdle, WriterPasted, WriterStops, WriterClosed, WriterInput,
              WriterResize, WriterPasteFails, WriterOutput, WriterTick, Leave
<1>6. CASE \/ ShellWrites \/ ShellExits \/ ShellBreaks \/ ClientLeaves
           \/ AdminCloses \/ AdminGivesUp \/ MonitorLeaves \/ UNCHANGED vars
  BY <1>6 DEF ShellWrites, ShellExits, ShellBreaks, ClientLeaves, AdminCloses, AdminGivesUp,
               MonitorLeaves, vars
<1> QED BY <1>1, <1>2, <1>3, <1>4, <1>5, <1>6 DEF Next

LEMMA InputStep == InputOK /\ [Next]_vars => InputOK'
<1> SUFFICES ASSUME InputOK, [Next]_vars PROVE InputOK'
  OBVIOUS
<1> USE CapacityAssumption, InputAssumption DEF InputOK
<1>1. CASE ReaderMessage
  BY <1>1 DEF ReaderMessage
<1>2. CASE ReaderStep
  <2>1. CASE ReaderPush
    BY <2>1 DEF ReaderPush
  <2> QED BY <1>2, <2>1 DEF ReaderStep, ReaderTop, ReaderFails, input
<1>3. CASE WriterStep \/ WriterIdle \/ WriterPasted
  <2>1. CASE WriterInput
    BY <2>1 DEF WriterInput
  <2>2. CASE WriterStep /\ ~WriterInput
    BY <2>2 DEF WriterStep, WriterStops, WriterClosed, WriterResize, WriterPasteFails,
                WriterOutput, WriterTick, Leave, input
  <2> QED BY <1>3, <2>1, <2>2 DEF WriterIdle, WriterPasted, Leave, input
<1>4. CASE UNCHANGED input
  BY <1>4 DEF input
<1>5. ASSUME NEW ok \in BOOLEAN, Dial(ok) PROVE UNCHANGED input
  BY <1>5 DEF Dial
<1>6. CASE \/ ConnStep \/ MainStep \/ ShellEnds \/ PumpStep \/ WindowEnds
           \/ WatcherStops \/ WatcherEnds
  BY <1>4, <1>6 DEF ConnStep, Meet, Put, Spawn, ConnReturns, ConnReports, MainStep, Take, WaitEnds,
                    Activate, Refuse, Cleanup, WatcherStops, WatcherEnds, ShellEnds, PumpStep, PumpTop, PumpRead, PumpSend, Pump, WindowEnds
<1>7. CASE \/ ShellWrites \/ ShellExits \/ ShellBreaks \/ ClientLeaves
           \/ AdminCloses \/ AdminGivesUp \/ MonitorLeaves \/ UNCHANGED vars
  BY <1>4, <1>7 DEF ShellWrites, ShellExits, ShellBreaks, ClientLeaves, AdminCloses, AdminGivesUp,
               MonitorLeaves, vars
<1> QED BY <1>1, <1>2, <1>3, <1>4, <1>5, <1>6, <1>7 DEF Next

LEMMA TypeInvStep == TypeInv /\ [Next]_vars => TypeInv'
  BY ControlStep, StartStep, InputStep, OutStep DEF TypeInv

\* TerminalSession!TypeOK: the channels never hold more than they have room for, and
\* the browser is shown no more than the shell wrote, no rune twice.
THEOREM TypeCorrect == Spec => []TypeOK
<1>1. TypeInv => TypeOK
  <2> SUFFICES ASSUME TypeInv PROVE TypeOK
    OBVIOUS
  <2>1. out \in Output /\ InTransit <= out.made
    BY DEF TypeInv, OutInv
  <2>2. {waiter, pump, window, reader, writer, watcher} \subseteq Goroutine
    BY DEF TypeInv, ControlOK, Goroutine
  <2> QED BY <2>1, <2>2 DEF TypeInv, ControlOK, InputOK, InTransit, TypeOK
<1> QED BY <1>1, TypeInvInit, TypeInvStep, PTL DEF Spec

\* As long as the browser stays, everything the shell wrote is on its way to it or
\* shown, except for at most the one rune that the pump held when it ended
\* (SendOutput, which gives up when the session ends).
THEOREM NothingLostHolds == Spec => []NothingLost
<1>1. TypeInv => NothingLost
  BY DEF TypeInv, OutInv
<1> QED BY <1>1, TypeInvInit, TypeInvStep, PTL DEF Spec
=============================================================================
