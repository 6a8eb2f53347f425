------------------------- MODULE GatewayTunnel_proofs -------------------------
(***************************************************************************)
(* Proofs about GatewayTunnel for any number of tunnels and connections to *)
(* the gateway.                                                            *)
(***************************************************************************)
EXTENDS GatewayTunnel, FiniteSetTheorems, TLAPS

\* Where a tunnel and its goroutine stand, as far as the proofs ask.
Shape ==
    /\ call \in [Tunnel -> {"idle", "dial", "store", "listen", "wait", "opened", "failed"}]
    /\ worker \in [Tunnel -> {"none", "opening", "accept", "dial", "connected", "refused", "done"}]
    /\ remote \in [Tunnel -> Socket]
    /\ verdict \in [Tunnel -> {"none", "waiting", "connectable", "failed"}]
    /\ tunnels \subseteq Tunnel
    /\ count \in Nat

\* A goroutine that is connected to the target has, or had, a connection to it.
RemoteOK ==
    \A t \in Tunnel :
        /\ worker[t] = "connected" => remote[t] # "none"
        /\ verdict[t] = "connectable" => remote[t] # "none"

\* The tunnels that hold a reference to the shared connection: those in the map, and
\* the one that OpenTunnel has counted and not yet entered.
Counted == tunnels \cup {t \in Tunnel : call[t] = "listen"}

CountOK ==
    /\ Cardinality(Counted) <= count
    /\ \A t \in tunnels : call[t] \notin {"idle", "dial", "store", "listen"}

Inv == Shape /\ RemoteOK /\ CountOK

LEMMA InvInit == Init => Inv
<1> SUFFICES ASSUME Init PROVE Inv
  OBVIOUS
<1>1. Counted = {} /\ Cardinality({}) = 0
  BY FS_EmptySet DEF Init, Counted
<1> QED BY <1>1 DEF Init, Inv, Shape, Socket, RemoteOK, CountOK

LEMMA CountedFinite == Inv => IsFiniteSet(Counted)
  BY TunnelAssumption, FS_Subset DEF Inv, Shape, Counted

\* The set of counted tunnels does not grow without the count.
LEMMA CountKept ==
    ASSUME Inv, Counted' \subseteq Counted, count' = count
    PROVE  Cardinality(Counted)' <= count'
<1>1. Cardinality(Counted') <= Cardinality(Counted) /\ IsFiniteSet(Counted')
  BY CountedFinite, FS_Subset
<1>2. Cardinality(Counted') \in Nat /\ Cardinality(Counted) \in Nat
  BY <1>1, CountedFinite, FS_CardinalityType
<1> QED BY <1>1, <1>2 DEF Inv, Shape, CountOK

\* An open socket may close, and none comes out of nothing.
LEMMA Shutting ==
    ASSUME NEW f \in [Tunnel -> Socket], NEW t \in Tunnel, NEW c
    PROVE  /\ Shut(f, t) \in [Tunnel -> Socket] /\ Cut(c, f) \in [Tunnel -> Socket]
           /\ \A u \in Tunnel : f[u] # "none" => Shut(f, t)[u] # "none" /\ Cut(c, f)[u] # "none"
  BY DEF Shut, Cut, Set, Socket

\* The goroutines and the checks.
LEMMA ShapeStep ==
    ASSUME Shape, RemoteOK, [Next]_vars, count' \in Nat
    PROVE  Shape' /\ RemoteOK'
<1> USE DEF Shape, Set
<1>1. ASSUME NEW t \in Tunnel, Lookup(t) PROVE Shape' /\ RemoteOK'
  BY <1>1 DEF Lookup, manager, sockets, RemoteOK
<1>2. ASSUME NEW t \in Tunnel, DialGateway(t) PROVE Shape' /\ RemoteOK'
  BY <1>2 DEF DialGateway, Return, manager, sockets, RemoteOK
<1>3. ASSUME NEW t \in Tunnel, Store(t) PROVE Shape' /\ RemoteOK'
  BY <1>3 DEF Store, sockets, RemoteOK
<1>4. ASSUME NEW t \in Tunnel, Listen(t) PROVE Shape' /\ RemoteOK'
  BY <1>4 DEF Listen, Return, RemoteOK
<1>5. ASSUME NEW t \in Tunnel, Opened(t) PROVE Shape' /\ RemoteOK'
  BY <1>5 DEF Opened, Return, manager, sockets, RemoteOK
<1>6. ASSUME NEW t \in Tunnel, Accept(t) PROVE Shape' /\ RemoteOK'
  BY <1>6 DEF Accept, manager, RemoteOK
<1>7. ASSUME NEW t \in Tunnel, DialTarget(t) PROVE Shape' /\ RemoteOK'
  BY <1>7 DEF DialTarget, manager, RemoteOK, Socket
<1>8. ASSUME NEW t \in Tunnel, ListenerTimeout(t) \/ CheckStarts(t) \/ CheckTimeout(t)
      PROVE  Shape' /\ RemoteOK'
  BY <1>8 DEF ListenerTimeout, CheckStarts, CheckTimeout, manager, sockets, RemoteOK
<1>9. ASSUME NEW t \in Tunnel, Judge(t) PROVE Shape' /\ RemoteOK'
  BY <1>9 DEF Judge, manager, sockets, RemoteOK
<1>10. ASSUME NEW t \in Tunnel, Close(t) PROVE Shape' /\ RemoteOK'
  <2>1. PICK f \in [Tunnel -> Socket] :
           remote' = Shut(f, t) /\ \A u \in Tunnel : remote[u] # "none" => f[u] # "none"
    BY <1>10, Shutting DEF Close
  <2>2. /\ remote' \in [Tunnel -> Socket]
        /\ \A u \in Tunnel : remote[u] # "none" => remote'[u] # "none"
    BY <2>1, Shutting
  <2>3. UNCHANGED <<call, worker, verdict>> /\ tunnels' \subseteq tunnels
    BY <1>10 DEF Close
  <2> QED BY <2>2, <2>3 DEF RemoteOK
<1>11. ASSUME NEW c \in Client, Drop(c) PROVE Shape' /\ RemoteOK'
  <2>1. /\ remote' \in [Tunnel -> Socket]
        /\ \A u \in Tunnel : remote[u] # "none" => remote'[u] # "none"
    BY <1>11 DEF Drop, Cut, Socket
  <2> QED BY <1>11, <2>1 DEF Drop, manager, RemoteOK
<1>12. ASSUME NEW c \in Client, WaitReturns(c) PROVE Shape' /\ RemoteOK'
  BY <1>12 DEF WaitReturns, sockets, RemoteOK
<1>13. CASE UNCHANGED vars
  BY <1>13 DEF vars, manager, sockets, RemoteOK
<1> QED
  BY <1>1, <1>2, <1>3, <1>4, <1>5, <1>6, <1>7, <1>8, <1>9, <1>10, <1>11, <1>12, <1>13
     DEF Next, CallStep, WorkerStep

\* CloseTunnels takes one tunnel out, and ends the connection with the last one only.
LEMMA CloseStep ==
    ASSUME Inv, NEW t \in Tunnel, Close(t)
    PROVE  /\ count' \in Nat /\ CountOK'
           /\ client' # client => tunnels' = {}
<1>1. t \in tunnels /\ tunnels' = tunnels \ {t} /\ call' = call
  BY DEF Close
<1>2. call[t] # "listen"
  BY <1>1 DEF Inv, CountOK
<1>3. Counted' = Counted \ {t} /\ t \in Counted
  BY <1>1, <1>2 DEF Counted
<1>4. /\ Cardinality(Counted') = Cardinality(Counted) - 1 /\ IsFiniteSet(Counted')
      /\ Cardinality(Counted) \in Nat
  BY <1>3, CountedFinite, FS_RemoveElement, FS_CardinalityType
<1>5. Cardinality(Counted') \in Nat /\ Cardinality(Counted) <= count /\ count \in Nat
  BY <1>4, FS_CardinalityType DEF Inv, CountOK, Shape
<1>6. CASE count <= 1
  <2>1. Cardinality(Counted') = 0 /\ count' = 0
    BY <1>4, <1>5, <1>6 DEF Close
  <2>2. Counted' = {}
    BY <1>4, <2>1, FS_EmptySet
  <2>3. tunnels' = {}
    BY <2>2 DEF Counted
  <2> QED BY <1>1, <2>1, <2>3 DEF CountOK
<1>7. CASE ~(count <= 1)
  <2>1. count' = count - 1 /\ client' = client
    BY <1>7 DEF Close
  <2>2. \A u \in tunnels' : call'[u] \notin {"idle", "dial", "store", "listen"}
    BY <1>1 DEF Inv, CountOK
  <2> QED BY <1>4, <1>5, <1>7, <2>1, <2>2 DEF CountOK
<1> QED BY <1>6, <1>7

LEMMA InvStep == Inv /\ [Next]_vars => Inv'
<1> SUFFICES ASSUME Inv, [Next]_vars PROVE count' \in Nat /\ CountOK'
  BY ShapeStep DEF Inv
<1>1. ASSUME UNCHANGED <<count, tunnels>>,
             \A t \in Tunnel : call'[t] = "listen" => call[t] = "listen",
             \A t \in tunnels : call'[t] \notin {"idle", "dial", "store", "listen"}
      PROVE  count' \in Nat /\ CountOK'
  <2>1. Counted' \subseteq Counted
    BY <1>1 DEF Counted
  <2> QED BY <1>1, <2>1, CountKept DEF CountOK, Inv, Shape
<1> USE DEF Set
<1>2. ASSUME NEW t \in Tunnel, Lookup(t) \/ DialGateway(t) \/ Opened(t)
      PROVE  count' \in Nat /\ CountOK'
  <2>1. UNCHANGED <<count, tunnels>>
    BY <1>2 DEF Lookup, DialGateway, Opened, manager
  <2>2. \A u \in Tunnel : call'[u] = "listen" => call[u] = "listen"
    BY <1>2 DEF Lookup, DialGateway, Opened, Return, Inv, Shape
  <2>3. t \in tunnels => call[t] \notin {"idle", "dial"}
    BY DEF Inv, CountOK
  <2>4. \A u \in tunnels : call'[u] \notin {"idle", "dial", "store", "listen"}
    BY <1>2, <2>3 DEF Lookup, DialGateway, Opened, Return, Inv, Shape, CountOK
  <2> QED BY <1>1, <2>1, <2>2, <2>4
<1>3. ASSUME NEW t \in Tunnel, Store(t) PROVE count' \in Nat /\ CountOK'
  <2>1. t \notin tunnels /\ call[t] = "store" /\ tunnels' = tunnels /\ count' = count + 1
    BY <1>3 DEF Store, Inv, CountOK
  <2>2. Counted' = Counted \cup {t}
    BY <1>3, <2>1 DEF Store, Counted, Inv, Shape
  <2>3. /\ IsFiniteSet(Counted') /\ Cardinality(Counted') <= Cardinality(Counted) + 1
        /\ Cardinality(Counted) \in Nat
    <3>1. IsFiniteSet(Counted) /\ Cardinality(Counted) \in Nat
      BY CountedFinite, FS_CardinalityType
    <3>2. /\ IsFiniteSet(Counted \cup {t})
          /\ Cardinality(Counted \cup {t}) = IF t \in Counted THEN Cardinality(Counted)
                                             ELSE Cardinality(Counted) + 1
      BY <3>1, FS_AddElement
    <3> QED BY <2>2, <3>1, <3>2
  <2>4. Cardinality(Counted') \in Nat
    BY <2>3, FS_CardinalityType
  <2>5. \A u \in tunnels : call'[u] = call[u]
    BY <1>3, <2>1 DEF Store, Inv, Shape
  <2> QED BY <2>1, <2>3, <2>4, <2>5 DEF CountOK, Inv, Shape
<1>4. ASSUME NEW t \in Tunnel, Listen(t) PROVE count' \in Nat /\ CountOK'
  <2>1. t \notin tunnels /\ call[t] = "listen" /\ count' = count /\ tunnels' \subseteq tunnels \cup {t}
    BY <1>4 DEF Listen, Inv, CountOK
  <2>2. \A u \in Tunnel \ {t} : call'[u] = call[u]
    BY <1>4 DEF Listen, Return, Inv, Shape
  <2>3. call'[t] \in {"wait", "failed"}
    BY <1>4 DEF Listen, Return, Inv, Shape
  <2>4. Counted' \subseteq Counted
    BY <2>1, <2>2, <2>3 DEF Counted, Inv, Shape
  <2> QED BY <2>1, <2>2, <2>3, <2>4, CountKept DEF CountOK, Inv, Shape
<1>5. ASSUME NEW t \in Tunnel, Close(t) PROVE count' \in Nat /\ CountOK'
  BY <1>5, CloseStep
<1>6. ASSUME UNCHANGED <<count, tunnels, call>> PROVE count' \in Nat /\ CountOK'
  BY <1>1, <1>6 DEF Inv, CountOK
<1>7. ASSUME NEW t \in Tunnel, WorkerStep(t) \/ ListenerTimeout(t) \/ CheckStarts(t) \/ Judge(t) \/ CheckTimeout(t)
      PROVE  count' \in Nat /\ CountOK'
  BY <1>6, <1>7 DEF WorkerStep, Accept, DialTarget, ListenerTimeout, CheckStarts, Judge, CheckTimeout, manager
<1>8. ASSUME NEW c \in Client, Drop(c) \/ WaitReturns(c) PROVE count' \in Nat /\ CountOK'
  BY <1>6, <1>8 DEF Drop, WaitReturns, manager
<1>9. CASE UNCHANGED vars
  BY <1>6, <1>9 DEF vars, manager
<1> QED BY <1>2, <1>3, <1>4, <1>5, <1>7, <1>8, <1>9 DEF Next, CallStep

\* GatewayTunnel!VerdictTrue: an asset is called connectable only when the tunnel of
\* its check had a connection to it.
THEOREM VerdictTrueHolds == Spec => []VerdictTrue
<1>1. Inv => VerdictTrue
  BY DEF Inv, RemoteOK, VerdictTrue
<1> QED BY <1>1, InvInit, InvStep, PTL DEF Spec

\* GatewayTunnel!LastCloses: a user's close ends the connection that all tunnels share
\* only with the last tunnel, because the count is never below the tunnels in the map.
THEOREM LastClosesHolds == Spec => LastCloses
<1>1. Inv /\ [Next]_vars =>
        [\A t \in tunnels : tunnels' = tunnels \ {t} /\ client' # client => tunnels' = {}]_vars
  <2> SUFFICES ASSUME Inv, Next, NEW t \in tunnels, tunnels' = tunnels \ {t}, client' # client
               PROVE  tunnels' = {}
    OBVIOUS
  <2>1. tunnels' # tunnels
    OBVIOUS
  <2>2. PICK u \in Tunnel : Close(u) \/ Listen(u)
    BY <2>1 DEF Next, CallStep, Lookup, DialGateway, Store, Opened, WorkerStep, Accept, DialTarget,
                ListenerTimeout, CheckStarts, Judge, CheckTimeout, Drop, WaitReturns, manager
  <2>3. ~Listen(u)
    BY DEF Listen
  <2> QED BY <2>2, <2>3, CloseStep
<1> QED BY <1>1, InvInit, InvStep, PTL DEF Spec, LastCloses

-----------------------------------------------------------------------------
(* The types, and who is inside the manager.                               *)

\* OpenTunnel calls that have counted their reference, now or before.
HasCounted == {t \in Tunnel : call[t] \in {"listen", "wait", "opened", "failed"}}

\* The mutex belongs to the call that is between its lookup and its return; a call past
\* its lookup or its dial has a connection, and so has the goroutine it starts.
CallersOK ==
    /\ \A t \in Tunnel : call[t] \in {"dial", "store", "listen", "wait"} <=> mutex = t
    /\ \A t \in Tunnel : call[t] \in {"store", "listen", "wait", "opened"} => found[t] \in Client
    /\ \A t \in Tunnel : worker[t] # "none" => call[t] \in {"wait", "opened"}

TypeInv == TypeOK /\ CallersOK /\ count <= Cardinality(HasCounted)

LEMMA TypeInvInit == Init => TypeInv
<1> SUFFICES ASSUME Init PROVE TypeInv
  OBVIOUS
<1>1. TypeOK
  <2>1. Cardinality(Tunnel) \in Nat
    BY TunnelAssumption, FS_CardinalityType
  <2> QED BY <2>1 DEF Init, TypeOK, Socket
<1>2. CallersOK
  BY NoneAssumption DEF Init, CallersOK
<1>3. HasCounted = {} /\ Cardinality({}) = 0
  BY FS_EmptySet DEF Init, HasCounted
<1> QED BY <1>1, <1>2, <1>3 DEF Init, TypeInv

\* Who is inside, step by step.
LEMMA CallersStep ==
    ASSUME TypeOK, CallersOK, [Next]_vars
    PROVE  CallersOK'
<1> USE NoneAssumption DEF Set, TypeOK, CallersOK
<1>1. ASSUME NEW t \in Tunnel, Lookup(t) PROVE CallersOK'
  BY <1>1 DEF Lookup
<1>2. ASSUME NEW t \in Tunnel, DialGateway(t) PROVE CallersOK'
  BY <1>2 DEF DialGateway, Return
<1>3. ASSUME NEW t \in Tunnel, Store(t) PROVE CallersOK'
  BY <1>3 DEF Store
<1>4. ASSUME NEW t \in Tunnel, Listen(t) PROVE CallersOK'
  BY <1>4 DEF Listen, Return
<1>5. ASSUME NEW t \in Tunnel, Opened(t) PROVE CallersOK'
  BY <1>5 DEF Opened, Return
<1>6. ASSUME UNCHANGED <<mutex, call, found>>,
             \A t \in Tunnel : worker'[t] # "none" => worker[t] # "none"
      PROVE  CallersOK'
  BY <1>6
<1>7. ASSUME NEW t \in Tunnel, Accept(t) PROVE CallersOK'
  BY <1>6, <1>7 DEF Accept
<1>8. ASSUME NEW t \in Tunnel, DialTarget(t) PROVE CallersOK'
  BY <1>6, <1>8 DEF DialTarget
<1>9. ASSUME NEW t \in Tunnel, Judge(t) PROVE CallersOK'
  BY <1>6, <1>9 DEF Judge
<1>10. ASSUME NEW t \in Tunnel, \/ ListenerTimeout(t) \/ CheckStarts(t) \/ CheckTimeout(t)
                                \/ Close(t)
       PROVE  CallersOK'
  BY <1>6, <1>10 DEF ListenerTimeout, CheckStarts, CheckTimeout, Close
<1>11. ASSUME NEW c \in Client, Drop(c) \/ WaitReturns(c) PROVE CallersOK'
  BY <1>6, <1>11 DEF Drop, WaitReturns
<1>12. CASE UNCHANGED vars
  BY <1>6, <1>12 DEF vars
<1> QED
  BY <1>1, <1>2, <1>3, <1>4, <1>5, <1>7, <1>8, <1>9, <1>10, <1>11, <1>12
     DEF Next, CallStep, WorkerStep

\* The count is taken down by closes and up by a call that had not counted.
CountBounded == count \in 0 .. Cardinality(Tunnel) /\ count <= Cardinality(HasCounted)

LEMMA CountStep ==
    ASSUME TypeInv, [Next]_vars
    PROVE  CountBounded'
<1> USE DEF Set
<1>0. /\ count \in Nat /\ count <= Cardinality(HasCounted) /\ TypeOK
      /\ Cardinality(Tunnel) \in Nat
  BY TunnelAssumption, FS_CardinalityType DEF TypeInv, TypeOK
<1>1. /\ IsFiniteSet(HasCounted') /\ Cardinality(HasCounted') \in Nat
      /\ Cardinality(HasCounted') <= Cardinality(Tunnel)
  <2>1. HasCounted' \subseteq Tunnel
    BY DEF HasCounted
  <2> QED BY <2>1, TunnelAssumption, FS_Subset, FS_CardinalityType
<1>2. IsFiniteSet(HasCounted) /\ Cardinality(HasCounted) \in Nat
  <2>1. HasCounted \subseteq Tunnel
    BY DEF HasCounted
  <2> QED BY <2>1, TunnelAssumption, FS_Subset, FS_CardinalityType
<1>3. ASSUME count' \in Nat, count' <= count,
             \A t \in Tunnel : call[t] \in {"listen", "wait", "opened", "failed"}
                                 => call'[t] \in {"listen", "wait", "opened", "failed"}
      PROVE  CountBounded'
  <2>1. HasCounted \subseteq HasCounted'
    BY <1>3 DEF HasCounted
  <2>2. Cardinality(HasCounted) <= Cardinality(HasCounted')
    BY <1>1, <2>1, FS_Subset
  <2> QED BY <1>0, <1>1, <1>2, <1>3, <2>2 DEF CountBounded
<1>4. ASSUME NEW t \in Tunnel, Store(t) PROVE CountBounded'
  <2>1. HasCounted' = HasCounted \cup {t} /\ t \notin HasCounted /\ count' = count + 1
    BY <1>0, <1>4 DEF Store, HasCounted, TypeOK
  <2>2. Cardinality(HasCounted') = Cardinality(HasCounted) + 1
    BY <1>2, <2>1, FS_AddElement
  <2> QED BY <1>0, <1>1, <1>2, <2>1, <2>2 DEF CountBounded
<1>5. ASSUME NEW t \in Tunnel, Lookup(t) \/ DialGateway(t) \/ Listen(t) \/ Opened(t) PROVE CountBounded'
  <2>1. count' = count
    BY <1>5 DEF Lookup, DialGateway, Listen, Opened, manager
  <2>2. \A u \in Tunnel : call[u] \in {"listen", "wait", "opened", "failed"}
                            => call'[u] \in {"listen", "wait", "opened", "failed"}
    BY <1>0, <1>5 DEF Lookup, DialGateway, Listen, Opened, Return, TypeOK
  <2> QED BY <1>0, <1>3, <2>1, <2>2
<1>6. ASSUME NEW t \in Tunnel, Close(t) PROVE CountBounded'
  <2>1. call' = call /\ count' \in Nat /\ count' <= count
    BY <1>0, <1>6 DEF Close
  <2> QED BY <1>3, <2>1
<1>7. CASE UNCHANGED <<count, call>>
  <2>1. count' \in Nat /\ count' <= count
    BY <1>0, <1>7
  <2> QED BY <1>3, <1>7, <2>1
<1>8. ASSUME NEW t \in Tunnel, WorkerStep(t) \/ ListenerTimeout(t) \/ CheckStarts(t) \/ Judge(t) \/ CheckTimeout(t)
      PROVE  CountBounded'
  BY <1>7, <1>8 DEF WorkerStep, Accept, DialTarget, ListenerTimeout, CheckStarts, Judge, CheckTimeout, manager
<1>9. ASSUME NEW c \in Client, Drop(c) \/ WaitReturns(c) PROVE CountBounded'
  BY <1>7, <1>9 DEF Drop, WaitReturns, manager
<1>10. CASE UNCHANGED vars
  BY <1>7, <1>10 DEF vars, manager
<1> QED BY <1>4, <1>5, <1>6, <1>8, <1>9, <1>10 DEF Next, CallStep

LEMMA TypesStep ==
    ASSUME TypeInv, [Next]_vars
    PROVE  TypeOK'
<1>0. TypeOK /\ count' \in 0 .. Cardinality(Tunnel)
  BY CountStep DEF TypeInv, CountBounded
<1> USE <1>0 DEF Set, TypeOK
<1>1. ASSUME NEW t \in Tunnel, Lookup(t) PROVE TypeOK'
  BY <1>1 DEF Lookup, manager, sockets
<1>2. ASSUME NEW t \in Tunnel, DialGateway(t) PROVE TypeOK'
  BY <1>2 DEF DialGateway, Return, manager, sockets
<1>3. ASSUME NEW t \in Tunnel, Store(t) PROVE TypeOK'
  BY <1>3 DEF Store, sockets
<1>4. ASSUME NEW t \in Tunnel, Listen(t) PROVE TypeOK'
  BY <1>4 DEF Listen, Return, Socket
<1>5. ASSUME NEW t \in Tunnel, Opened(t) PROVE TypeOK'
  BY <1>5 DEF Opened, Return, manager, sockets
<1>6. ASSUME NEW t \in Tunnel, Accept(t) PROVE TypeOK'
  BY <1>6 DEF Accept, manager, Socket
<1>7. ASSUME NEW t \in Tunnel, DialTarget(t) PROVE TypeOK'
  <2>1. UNCHANGED <<mutex, call, found, manager, client, listener, verdict>>
    BY <1>7 DEF DialTarget
  <2>2. local' \in [Tunnel -> Socket]
    <3>1. local' = local \/ local' = Shut(local, t)
      BY <1>7 DEF DialTarget
    <3> QED BY <3>1, Shutting
  <2>3. /\ remote' \in [Tunnel -> Socket]
        /\ worker' \in [Tunnel -> {"none", "opening", "accept", "dial", "connected", "refused", "done"}]
    BY <1>7 DEF DialTarget, Socket
  <2> QED BY <2>1, <2>2, <2>3 DEF manager
<1>8. ASSUME NEW t \in Tunnel, ListenerTimeout(t) \/ CheckStarts(t) \/ CheckTimeout(t) PROVE TypeOK'
  BY <1>8 DEF ListenerTimeout, CheckStarts, CheckTimeout, manager, sockets, Socket
<1>9. ASSUME NEW t \in Tunnel, Judge(t) PROVE TypeOK'
  BY <1>9 DEF Judge, manager, sockets
<1>10. ASSUME NEW t \in Tunnel, Close(t) PROVE TypeOK'
  <2>1. UNCHANGED <<mutex, call, found, worker, verdict>> /\ tunnels' \subseteq tunnels
    BY <1>10 DEF Close
  <2>2. listener' \in [Tunnel -> Socket] /\ local' \in [Tunnel -> Socket]
    BY <1>10, Shutting DEF Close
  <2>3. PICK f \in [Tunnel -> Socket] : remote' = Shut(f, t)
    BY <1>10, Shutting DEF Close
  <2>4. remote' \in [Tunnel -> Socket]
    BY <2>3, Shutting
  <2>5. /\ shared' \in Client \cup {None}
        /\ client' \in [Client -> {"unused", "alive", "dead", "gone"}]
    BY <1>10 DEF Close
  <2> QED BY <2>1, <2>2, <2>4, <2>5
<1>11. ASSUME NEW c \in Client, Drop(c) PROVE TypeOK'
  <2>1. remote' \in [Tunnel -> Socket]
    BY <1>11 DEF Drop, Cut, Socket
  <2> QED BY <1>11, <2>1 DEF Drop, manager
<1>12. ASSUME NEW c \in Client, WaitReturns(c) PROVE TypeOK'
  BY <1>12 DEF WaitReturns, sockets
<1>13. CASE UNCHANGED vars
  BY <1>13 DEF vars, manager, sockets
<1> QED
  BY <1>1, <1>2, <1>3, <1>4, <1>5, <1>6, <1>7, <1>8, <1>9, <1>10, <1>11, <1>12, <1>13
     DEF Next, CallStep, WorkerStep

LEMMA TypeInvStep == TypeInv /\ [Next]_vars => TypeInv'
  BY TypesStep, CallersStep, CountStep DEF TypeInv, CountBounded

\* GatewayTunnel!TypeOK: the reference count of a gateway is at most the number of calls
\* of OpenTunnel that counted, so with LastCloses it is bounded from both sides.
THEOREM TypeCorrect == Spec => []TypeOK
<1> QED
  BY TypeInvInit, TypeInvStep, PTL DEF Spec, TypeInv

OneInside ==
    \A t, u \in Tunnel : call[t] \in {"dial", "store", "listen", "wait"} /\
                         call[u] \in {"dial", "store", "listen", "wait"} => t = u
GoroutineHasClient == \A t \in Tunnel : worker[t] # "none" => found[t] \in Client

\* At most one call is inside OpenTunnel, across its dial and its wait for the goroutine;
\* and every goroutine that may dial through the gateway was given a connection, also one
\* that is cut off or deleted from the map before the goroutine gets to it.
THEOREM OneInsideHolds == Spec => [](OneInside /\ GoroutineHasClient)
<1>1. TypeInv => OneInside /\ GoroutineHasClient
  <2> SUFFICES ASSUME TypeInv PROVE OneInside /\ GoroutineHasClient
    OBVIOUS
  <2>1. OneInside
    BY DEF TypeInv, CallersOK, OneInside
  <2>2. GoroutineHasClient
    BY DEF TypeInv, CallersOK, GoroutineHasClient
  <2> QED BY <2>1, <2>2
<1> QED BY <1>1, TypeInvInit, TypeInvStep, PTL DEF Spec

=============================================================================
