---------------------------- MODULE GatewayTunnel ----------------------------
(***************************************************************************)
(* Port forwarding through one SSH gateway (tunneling/tunnel.go): the      *)
(* connection to the gateway that all tunnels share, its reference count,  *)
(* the goroutine of each tunnel and the one that waits for the end of each *)
(* gateway connection.  The users of tunnels are sessions and connectivity *)
(* checks (schedule/connectable.go).                                       *)
(*                                                                         *)
(* OpenTunnel and CloseTunnels hold the manager's mutex; the goroutines do *)
(* not.  Two accesses to its maps at once may also end the process, after  *)
(* which everything is as in Init.                                         *)
(***************************************************************************)
EXTENDS Naturals, FiniteSets

CONSTANTS
    Tunnel,      \* calls of OpenTunnel, each for a session of its own
    Check,       \* those of connectivity checks
    Closing,     \* those whose user closes the tunnel: checks and remote desktops do
    Client,      \* SSH connections to the gateway that can be made
    PortTaken,   \* net.Listen may fail
    None

ASSUME TunnelAssumption ==
    /\ Check \subseteq Closing /\ Closing \subseteq Tunnel /\ IsFiniteSet(Tunnel)
    /\ PortTaken \in BOOLEAN
ASSUME NoneAssumption == None \notin Tunnel \cup Client

VARIABLES
    mutex,       \* the OpenTunnel call inside the manager
    call,        \* where each OpenTunnel call stands
    found,       \* the client it uses
    shared,      \* sshClients of the gateway
    count,       \* sshClientsCount of the gateway
    tunnels,     \* gatewayTunnels
    client,      \* a connection to the gateway: its Wait returns after it has ended
    worker,      \* the goroutine GatewayTunnel.Open
    listener, local, remote,
    verdict      \* of a connectivity check

manager == <<shared, count, tunnels>>
sockets == <<listener, local, remote>>
vars == <<mutex, call, found, manager, client, worker, sockets, verdict>>

Socket == {"none", "open", "closed"}

Init ==
    /\ mutex = None
    /\ call = [t \in Tunnel |-> "idle"] /\ found = [t \in Tunnel |-> None]
    /\ shared = None /\ count = 0 /\ tunnels = {}
    /\ client = [c \in Client |-> "unused"]
    /\ worker = [t \in Tunnel |-> "none"]
    /\ listener = [t \in Tunnel |-> "none"]
    /\ local = [t \in Tunnel |-> "none"] /\ remote = [t \in Tunnel |-> "none"]
    /\ verdict = [t \in Tunnel |-> "none"]
-----------------------------------------------------------------------------
Set(f, t, v) == [f EXCEPT ![t] = v]

\* An open socket is closed, another one stays as it is.
Shut(f, t) == IF f[t] = "open" THEN Set(f, t, "closed") ELSE f

\* Connections through client c end with it.
Cut(c, f) == [t \in Tunnel |-> IF found[t] = c /\ f[t] = "open" THEN "closed" ELSE f[t]]

Return(t, outcome) == mutex' = None /\ call' = Set(call, t, outcome)

Lookup(t) ==
    /\ call[t] = "idle" /\ mutex = None
    /\ mutex' = t
    /\ found' = Set(found, t, shared)
    /\ call' = Set(call, t, IF shared = None THEN "dial" ELSE "store")
    /\ UNCHANGED <<manager, client, worker, sockets, verdict>>

DialGateway(t) ==
    /\ call[t] = "dial"
    /\ \/ \E c \in Client :
             /\ client[c] = "unused"
             /\ client' = Set(client, c, "alive")
             /\ found' = Set(found, t, c)
             /\ call' = Set(call, t, "store")
             /\ UNCHANGED mutex
       \/ Return(t, "failed") /\ UNCHANGED <<client, found>>
    /\ UNCHANGED <<manager, worker, sockets, verdict>>

\* Fault: only the first user of a connection is counted.
StoreFirst(t) ==
    /\ call[t] = "store"
    /\ shared' = found[t] /\ count' = IF count = 0 THEN 1 ELSE count
    /\ call' = Set(call, t, "listen")
    /\ UNCHANGED <<mutex, found, tunnels, client, worker, sockets, verdict>>

Store(t) ==
    /\ call[t] = "store"
    /\ shared' = found[t] /\ count' = count + 1
    /\ call' = Set(call, t, "listen")
    /\ UNCHANGED <<mutex, found, tunnels, client, worker, sockets, verdict>>

Listen(t) ==
    /\ call[t] = "listen"
    /\ \/ /\ listener' = Set(listener, t, "open")
          /\ tunnels' = tunnels \cup {t}
          /\ worker' = Set(worker, t, "opening")
          /\ call' = Set(call, t, "wait")
          /\ UNCHANGED mutex
       \/ PortTaken /\ Return(t, "failed") /\ UNCHANGED <<listener, tunnels, worker>>
    /\ UNCHANGED <<found, shared, count, client, local, remote, verdict>>

\* Fault: the tunnel of a check reports when it is done.
OpenedUnlessCheck(t) ==
    /\ call[t] = "wait" /\ worker[t] = "opening" /\ t \notin Check
    /\ Return(t, "opened")
    /\ worker' = Set(worker, t, "accept")
    /\ UNCHANGED <<found, manager, client, sockets, verdict>>

\* The first send to Opened meets OpenTunnel.
Opened(t) ==
    /\ call[t] = "wait" /\ worker[t] = "opening"
    /\ Return(t, "opened")
    /\ worker' = Set(worker, t, "accept")
    /\ UNCHANGED <<found, manager, client, sockets, verdict>>
-----------------------------------------------------------------------------
\* GatewayTunnel.Open.
Accept(t) ==
    /\ worker[t] = "accept"
    /\ \/ /\ listener[t] = "open"
          /\ local' = Set(local, t, "open") /\ worker' = Set(worker, t, "dial")
       \/ listener[t] = "closed" /\ worker' = Set(worker, t, "refused") /\ UNCHANGED local
    /\ UNCHANGED <<mutex, call, found, manager, client, listener, remote, verdict>>

\* Three seconds after it was opened.
ListenerTimeout(t) ==
    /\ worker[t] # "none" /\ listener[t] = "open"
    /\ listener' = Set(listener, t, "closed")
    /\ UNCHANGED <<mutex, call, found, manager, client, worker, local, remote, verdict>>

DialTarget(t) ==
    /\ worker[t] = "dial"
    /\ \/ /\ client[found[t]] = "alive"
          /\ remote' = Set(remote, t, "open") /\ worker' = Set(worker, t, "connected")
          /\ UNCHANGED local
       \/ worker' = Set(worker, t, "refused") /\ local' = Shut(local, t) /\ UNCHANGED remote
    /\ UNCHANGED <<mutex, call, found, manager, client, listener, verdict>>

\* Fault: the check reads the first value of Opened it gets.
JudgeAtOnce(t) ==
    /\ verdict[t] = "waiting" /\ worker[t] \in {"dial", "connected", "refused"}
    /\ verdict' = Set(verdict, t, "connectable")
    /\ UNCHANGED <<mutex, call, found, manager, client, worker, sockets>>

\* updateConnectable receives the second send to Opened, which nobody else does.
Judge(t) ==
    /\ verdict[t] = "waiting" /\ worker[t] \in {"connected", "refused"} /\ t \in tunnels
    /\ verdict' = Set(verdict, t, IF worker[t] = "connected" THEN "connectable" ELSE "failed")
    /\ worker' = Set(worker, t, "done")
    /\ UNCHANGED <<mutex, call, found, manager, client, sockets>>

\* The check starts; a local dial that fails, or three seconds, end it.
CheckStarts(t) ==
    /\ t \in Check /\ call[t] = "opened" /\ verdict[t] = "none"
    /\ verdict' = Set(verdict, t, "waiting")
    /\ UNCHANGED <<mutex, call, found, manager, client, worker, sockets>>

CheckTimeout(t) ==
    /\ verdict[t] = "waiting"
    /\ verdict' = Set(verdict, t, "failed")
    /\ UNCHANGED <<mutex, call, found, manager, client, worker, sockets>>

\* Whoever opened a tunnel is done with it.
Done(t) == call[t] = "opened" /\ (t \in Check => verdict[t] \in {"connectable", "failed"})

\* CloseTunnels.
Close(t) ==
    /\ mutex = None /\ t \in tunnels \cap Closing /\ Done(t)
    /\ tunnels' = tunnels \ {t}
    /\ listener' = Shut(listener, t) /\ local' = Shut(local, t)
    /\ IF count <= 1
       THEN /\ count' = 0 /\ shared' = None
            /\ client' = IF shared # None /\ client[shared] = "alive" THEN Set(client, shared, "dead") ELSE client
            /\ remote' = Shut(IF shared = None THEN remote ELSE Cut(shared, remote), t)
       ELSE /\ count' = count - 1
            /\ remote' = Shut(remote, t)
            /\ UNCHANGED <<shared, client>>
    /\ UNCHANGED <<mutex, call, found, worker, verdict>>

\* The gateway or the network ends a connection.
Drop(c) ==
    /\ client[c] = "alive"
    /\ client' = Set(client, c, "dead") /\ remote' = Cut(c, remote)
    /\ UNCHANGED <<mutex, call, found, manager, worker, listener, local, verdict>>

\* sshCli.Wait returns and the map entry is deleted, without the mutex.
WaitReturns(c) ==
    /\ client[c] = "dead"
    /\ client' = Set(client, c, "gone")
    /\ shared' = None
    /\ UNCHANGED <<mutex, call, found, count, tunnels, worker, sockets, verdict>>
-----------------------------------------------------------------------------
\* OpenTunnel after its dial.
CallStep(t) == Store(t) \/ Listen(t) \/ Opened(t)
WorkerStep(t) == Accept(t) \/ DialTarget(t)

Next ==
    \/ \E t \in Tunnel :
          \/ Lookup(t) \/ DialGateway(t) \/ CallStep(t) \/ WorkerStep(t) \/ ListenerTimeout(t)
          \/ CheckStarts(t) \/ Judge(t) \/ CheckTimeout(t) \/ Close(t)
    \/ \E c \in Client : Drop(c) \/ WaitReturns(c)

Spec == Init /\ [][Next]_vars

\* Goroutines go on, timers fire, and a finished user closes its tunnel.  The gateway
\* need not answer: the timeout of the dial bounds the connection but not the SSH
\* handshake after it, and nothing bounds the dial of the target.
Fairness ==
    /\ \A t \in Tunnel :
          /\ WF_vars(CallStep(t)) /\ WF_vars(Accept(t)) /\ WF_vars(ListenerTimeout(t))
          /\ WF_vars(CheckStarts(t)) /\ WF_vars(Judge(t)) /\ WF_vars(CheckTimeout(t))
          /\ SF_vars(Close(t))
    /\ \A c \in Client : WF_vars(WaitReturns(c))

LiveSpec == Spec /\ Fairness
-----------------------------------------------------------------------------
TypeOK ==
    /\ mutex \in Tunnel \cup {None}
    /\ call \in [Tunnel -> {"idle", "dial", "store", "listen", "wait", "opened", "failed"}]
    /\ found \in [Tunnel -> Client \cup {None}]
    /\ shared \in Client \cup {None}
    /\ count \in 0 .. Cardinality(Tunnel) /\ tunnels \subseteq Tunnel
    /\ client \in [Client -> {"unused", "alive", "dead", "gone"}]
    /\ worker \in [Tunnel -> {"none", "opening", "accept", "dial", "connected", "refused", "done"}]
    /\ listener \in [Tunnel -> Socket] /\ local \in [Tunnel -> Socket] /\ remote \in [Tunnel -> Socket]
    /\ verdict \in [Tunnel -> {"none", "waiting", "connectable", "failed"}]

\* One user's close never cuts off another: CloseTunnels ends the shared connection
\* only with the last tunnel, also when it closes tunnels of older connections.
LastCloses ==
    [][\A t \in tunnels : tunnels' = tunnels \ {t} /\ client' # client => tunnels' = {}]_vars

\* An asset is shown as connectable only if it answered through the gateway.
VerdictTrue == \A t \in Tunnel : verdict[t] = "connectable" => remote[t] # "none"

\* The mutex of all gateways is free again and again, unless the call that holds it
\* waits for a gateway that never answers: an OpenTunnel that has its connection gives
\* the mutex back, and does not wait for ever for its goroutine (tunnel.go:157).
MutexReleased == []<>(mutex = None \/ call[mutex] = "dial")

\* "CloseTunnels closes gateway tunnels" (tunnel.go:163): nothing of a closed tunnel
\* stays open.
ClosedWhole ==
    \A t \in Tunnel : call[t] = "opened" /\ t \notin tunnels ~> local[t] # "open" /\ remote[t] # "open"

\* "Clean up tunnels" (connectable.go:205): when all tunnels are closed, no connection
\* to the gateway stays behind.
NothingShared ==
    (\A t \in Tunnel : call[t] = "failed" \/ (call[t] = "opened" /\ t \notin tunnels))
        ~> \A c \in Client : client[c] # "alive"

\* "OpenTunnel opens a new gateway tunnel" (tunnel.go:99): a connection that has ended
\* is not offered to later tunnels for ever.
DeadForgotten == \A c \in Client : shared = c /\ client[c] = "gone" ~> shared # c
=============================================================================
