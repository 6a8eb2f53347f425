-------------------------- MODULE Interface_proofs --------------------------
(***************************************************************************)
(* Proofs about what lies around the pages of the web interface: signing   *)
(* in and out (SignIn), the tabs and connections of the work station       *)
(* (WorkStation) and the file drawer of a connection (FileDrawer), for any *)
(* number of tabs, connections, directories and steps of the user.         *)
(***************************************************************************)
EXTENDS WorkStation, SignIn, SequenceTheorems, TLAPS

-----------------------------------------------------------------------------
(* The file drawer.                                                        *)

\* As long as requests did not overlap and no step back failed: one request at
\* most is under way; it is for the directory wanted, or, when its answer will not
\* set pathList, for the one pathList says.  Only behind a step back, which sets
\* pathList first, do table and pathList differ.  A drawer that is closed is at the
\* root and reloads it at most.
DrawerInv ==
    ~disturbed =>
        /\ \A l, k \in loads : l = k
        /\ visible =>
              /\ loads = {} => path = wanted
              /\ \A l \in loads : IF l.sets THEN l.dir = wanted ELSE l.dir = path /\ path = wanted
              /\ (\A l \in loads : ~l.back) => shown \in {Nowhere, path}
        /\ ~visible =>
              /\ path = <<>> /\ shown \in {Nowhere, <<>>}
              /\ \A l \in loads : ~l.sets /\ ~l.back /\ l.dir = <<>>

\* A request that is the only one.
LEMMA GetKeeps ==
    ASSUME NEW dir, NEW sets \in BOOLEAN, NEW back \in BOOLEAN, GetFileList(dir, sets, back),
           ~disturbed'
    PROVE  /\ ~disturbed /\ loads = {}
           /\ \A l, k \in loads' : l = k
           /\ \A l \in loads' : l.sets = sets /\ l.back = back /\ l.dir = dir
           /\ loads' # {}
<1>1. ~(disturbed \/ loads # {})
  BY Zenon DEF GetFileList
<1>2. loads' = {[no |-> asked + 1, dir |-> dir, sets |-> sets, back |-> back]}
  BY <1>1 DEF GetFileList
<1> QED BY <1>1, <1>2

LEMMA DrawerOpens == DrawerInv /\ OpenDrawer => DrawerInv'
  BY GetKeeps DEF OpenDrawer, DrawerInv

LEMMA DrawerIsGone == DrawerGone => DrawerInv'
  BY DEF DrawerGone, DrawerInv

LEMMA FileAnswersKeep ==
    ASSUME DrawerInv, FileAnswers PROVE DrawerInv'
<1>1. ASSUME NEW l \in loads, Listed(l) PROVE DrawerInv'
  BY <1>1 DEF Listed, DrawerInv
<1>2. ASSUME NEW l \in loads, NotListed(l) PROVE DrawerInv'
  BY <1>2 DEF NotListed, DrawerInv
<1>3. ASSUME NEW u \in uploads, Transmit(u) \/ UploadDone(u) \/ UploadRefused(u) PROVE DrawerInv'
  BY <1>3 DEF Transmit, UploadDone, UploadRefused, drawer, listing, DrawerInv
<1>4. CASE RelistAfterUpload
  BY <1>4, GetKeeps DEF RelistAfterUpload, DrawerInv
<1> QED BY <1>1, <1>2, <1>3, <1>4 DEF FileAnswers

LEMMA BrowseKeeps ==
    ASSUME DrawerInv, Browse PROVE DrawerInv'
<1>1. ASSUME NEW n \in Names, StepInto(n) PROVE DrawerInv'
  BY <1>1, GetKeeps DEF StepInto, Free, DrawerInv
<1>2. CASE StepBack
  BY <1>2, GetKeeps DEF StepBack, Free, DrawerInv
<1>3. CASE Relist
  BY <1>3, GetKeeps DEF Relist, Free, DrawerInv
<1>4. CASE SelectFiles \/ Download \/ StartUpload
  BY <1>4 DEF SelectFiles, Download, StartUpload, drawer, listing, DrawerInv
<1>5. CASE CloseDrawer
  BY <1>5 DEF CloseDrawer, DrawerInv
<1>6. ASSUME NEW d \in Tree, EnterPath(d) PROVE DrawerInv'
  BY <1>6, GetKeeps DEF EnterPath, DrawerInv
<1> QED BY <1>1, <1>2, <1>3, <1>4, <1>5, <1>6 DEF Browse

LEMMA DrawerStep ==
    ASSUME DrawerInv, [Next]_vars PROVE DrawerInv'
<1>1. CASE UNCHANGED fileVars
  BY <1>1 DEF fileVars, drawer, listing, DrawerInv
<1>2. CASE Network
  BY <1>1, <1>2 DEF Network, TabsOpen, Connects, Closes, Gone, LinkMade, LinkRefused
<1>3. ASSUME NEW i \in DOMAIN tabs, CloseTab(i) PROVE DrawerInv'
  BY <1>1, <1>3, DrawerIsGone DEF CloseTab
<1>4. CASE OpenFiles
  BY <1>4, DrawerOpens DEF OpenFiles
<1>5. CASE Operator
  BY <1>1, <1>3, <1>4, <1>5
  DEF Operator, AskTabs, OpenFresh, OpenNow, CopyTab, OpenSetting, Activate, Drag, Compose,
      EnterCommand, OpenShare, AskLink, CloseShare
<1>6. CASE Files
  BY <1>6, FileAnswersKeep, BrowseKeeps DEF Files
<1>7. CASE UNCHANGED vars
  BY <1>1, <1>7 DEF vars
<1> QED BY <1>2, <1>5, <1>6, <1>7 DEF Next

\* A drawer at rest shows the directory that downloads and uploads go by, for any
\* tree and any number of requests, uploads and openings, in whichever tab.
THEOREM DirectoryShownHolds == Spec => []DirectoryShown
<1>1. Init => DrawerInv
  BY DEF Init, DrawerInit, DrawerInv
<1>2. DrawerInv => DirectoryShown
  BY DEF DrawerInv, DirectoryShown
<1> QED BY <1>1, <1>2, DrawerStep, PTL DEF Spec

-----------------------------------------------------------------------------
(* Sequences: taking an element out and putting it in.                     *)

\* Without its i-th element: the others, in order.
LEMMA Removed ==
    ASSUME NEW S, NEW s \in Seq(S), NEW i \in 1..Len(s)
    PROVE  /\ RemoveAt(s, i) \in Seq(S)
           /\ Len(RemoveAt(s, i)) = Len(s) - 1
           /\ \A k \in 1..(Len(s) - 1) :
                  RemoveAt(s, i)[k] = IF k < i THEN s[k] ELSE s[k + 1]
<1> DEFINE u == SubSeq(s, 1, i - 1)
           v == SubSeq(s, i + 1, Len(s))
<1>0. Len(s) \in Nat /\ i \in Nat
  BY LenProperties
<1>1. u \in Seq(S) /\ Len(u) = i - 1 /\ \A k \in 1..(i - 1) : u[k] = s[k]
  BY <1>0, SubSeqProperties, ElementOfSeq
<1>2. v \in Seq(S) /\ Len(v) = Len(s) - i /\ \A k \in 1..(Len(s) - i) : v[k] = s[k + i]
  BY <1>0, SubSeqProperties, ElementOfSeq
<1> HIDE DEF u, v
<1>3. /\ u \o v \in Seq(S) /\ Len(u \o v) = Len(u) + Len(v)
      /\ \A k \in 1..Len(u) + Len(v) : (u \o v)[k] = IF k <= Len(u) THEN u[k] ELSE v[k - Len(u)]
  BY <1>1, <1>2, ConcatProperties
<1>4. RemoveAt(s, i) = u \o v
  BY DEF RemoveAt, u, v
<1>5. ASSUME NEW k \in 1..(Len(s) - 1)
      PROVE  (u \o v)[k] = IF k < i THEN s[k] ELSE s[k + 1]
  <2>1. CASE k < i
    BY <1>0, <1>1, <1>2, <1>3, <2>1
  <2>2. CASE ~(k < i)
    <3>1. (u \o v)[k] = v[k - (i - 1)] /\ k - (i - 1) \in 1..(Len(s) - i)
      BY <1>0, <1>1, <1>2, <1>3, <2>2
    <3>2. v[k - (i - 1)] = s[(k - (i - 1)) + i]
      BY <1>2, <3>1
    <3> QED BY <1>0, <2>2, <3>1, <3>2
  <2> QED BY <2>1, <2>2
<1>6. Len(u \o v) = Len(s) - 1
  BY <1>0, <1>1, <1>2, <1>3
<1> QED BY <1>3, <1>4, <1>5, <1>6, Zenon

\* With e as its j-th element: the others before and after it, in order.
LEMMA Inserted ==
    ASSUME NEW S, NEW s \in Seq(S), NEW j \in 1..(Len(s) + 1), NEW e \in S
    PROVE  /\ InsertAt(s, j, e) \in Seq(S)
           /\ Len(InsertAt(s, j, e)) = Len(s) + 1
           /\ \A k \in 1..(Len(s) + 1) :
                  InsertAt(s, j, e)[k] = IF k < j THEN s[k] ELSE IF k = j THEN e ELSE s[k - 1]
<1> DEFINE u == SubSeq(s, 1, j - 1)
           v == SubSeq(s, j, Len(s))
           m == <<e>>
<1>0. Len(s) \in Nat /\ j \in Nat
  BY LenProperties
<1>1. u \in Seq(S) /\ Len(u) = j - 1 /\ \A k \in 1..(j - 1) : u[k] = s[k]
  BY <1>0, SubSeqProperties, ElementOfSeq
<1>2. v \in Seq(S) /\ Len(v) = Len(s) - j + 1 /\ \A k \in 1..(Len(s) - j + 1) : v[k] = s[j + k - 1]
  <2>1. \A k \in j..Len(s) : s[k] \in S
    BY <1>0, ElementOfSeq
  <2>2. /\ v \in Seq(S) /\ Len(v) = IF j <= Len(s) THEN Len(s) - j + 1 ELSE 0
        /\ \A k \in 1..(Len(s) - j + 1) : v[k] = s[j + k - 1]
    BY <1>0, <2>1, SubSeqProperties
  <2> QED BY <1>0, <2>2
<1>3. m \in Seq(S) /\ Len(m) = 1 /\ m[1] = e
  OBVIOUS
<1> HIDE DEF u, v, m
<1>4. /\ u \o m \in Seq(S) /\ Len(u \o m) = j
      /\ \A k \in 1..j : (u \o m)[k] = IF k < j THEN u[k] ELSE e
  <2>1. /\ u \o m \in Seq(S) /\ Len(u \o m) = Len(u) + Len(m)
        /\ \A k \in 1..Len(u) + Len(m) : (u \o m)[k] = IF k <= Len(u) THEN u[k] ELSE m[k - Len(u)]
    BY <1>1, <1>3, ConcatProperties
  <2>2. Len(u) + Len(m) = j
    BY <1>0, <1>1, <1>3
  <2>3. ASSUME NEW k \in 1..j PROVE (u \o m)[k] = IF k < j THEN u[k] ELSE e
    <3>1. CASE k < j
      BY <1>0, <1>1, <2>1, <2>2, <3>1
    <3>2. CASE k = j
      <4>1. k - Len(u) = 1
        BY <1>0, <1>1, <3>2
      <4>2. k \in 1..(Len(u) + Len(m)) /\ ~(k <= Len(u))
        BY <1>0, <1>1, <2>2, <3>2
      <4>3. (u \o m)[k] = m[k - Len(u)]
        BY <2>1, <4>2
      <4>4. ~(k < j)
        BY <1>0, <3>2
      <4>5. (u \o m)[k] = m[1]
        BY <4>1, <4>3, Zenon
      <4> QED BY <1>3, <4>4, <4>5, Zenon
    <3> QED
      <4>1. k < j \/ k = j
        BY <1>0
      <4> QED BY <3>1, <3>2, <4>1, Zenon
  <2> QED BY <2>1, <2>2, <2>3, Zenon
<1>5. /\ (u \o m) \o v \in Seq(S) /\ Len((u \o m) \o v) = Len(s) + 1
      /\ \A k \in 1..(Len(s) + 1) :
             ((u \o m) \o v)[k] = IF k <= j THEN (u \o m)[k] ELSE v[k - j]
  <2> DEFINE w == u \o m
  <2>1. w \in Seq(S) /\ Len(w) = j
    BY <1>4
  <2> HIDE DEF w
  <2>2. /\ w \o v \in Seq(S) /\ Len(w \o v) = Len(w) + Len(v)
        /\ \A k \in 1..Len(w) + Len(v) : (w \o v)[k] = IF k <= Len(w) THEN w[k] ELSE v[k - Len(w)]
    BY <1>2, <2>1, ConcatProperties
  <2>3. Len(w) + Len(v) = Len(s) + 1
    BY <1>0, <1>2, <2>1
  <2> QED BY <2>1, <2>2, <2>3, Zenon DEF w
<1>6. InsertAt(s, j, e) = (u \o m) \o v
  BY DEF InsertAt, u, v, m
<1>7. ASSUME NEW k \in 1..(Len(s) + 1)
      PROVE  ((u \o m) \o v)[k] = IF k < j THEN s[k] ELSE IF k = j THEN e ELSE s[k - 1]
  <2>0. ((u \o m) \o v)[k] = IF k <= j THEN (u \o m)[k] ELSE v[k - j]
    BY <1>5, Zenon
  <2>1. CASE k <= j
    <3>1. k \in 1..j /\ (k < j => k \in 1..(j - 1)) /\ (~(k < j) => k = j)
      BY <1>0, <2>1
    <3>2. (u \o m)[k] = IF k < j THEN u[k] ELSE e
      BY <1>4, <3>1, Zenon
    <3>3. k < j => u[k] = s[k]
      BY <1>1, <3>1, Zenon
    <3> QED BY <2>0, <2>1, <3>1, <3>2, <3>3, Zenon
  <2>2. CASE k > j
    <3>1. ~(k <= j) /\ ~(k < j) /\ k # j /\ k - j \in 1..(Len(s) - j + 1)
      BY <1>0, <2>2
    <3>2. v[k - j] = s[j + (k - j) - 1]
      BY <1>2, <3>1, Zenon
    <3>3. j + (k - j) - 1 = k - 1
      BY <1>0
    <3> QED BY <2>0, <3>1, <3>2, <3>3, Zenon
  <2>3. k <= j \/ k > j
    BY <1>0
  <2> QED BY <2>1, <2>2, <2>3, Zenon
<1> QED BY <1>5, <1>6, <1>7, Zenon

\* t has the elements of s, each at one place.
Rearranged(t, s) ==
    /\ Len(t) = Len(s)
    /\ \E g \in [1..Len(s) -> 1..Len(s)] :
          /\ \A k \in 1..Len(s) : t[k] = s[g[k]]
          /\ \A k, m \in 1..Len(s) : g[k] = g[m] => k = m
          /\ \A m \in 1..Len(s) : \E k \in 1..Len(s) : g[k] = m

\* Moving an element rearranges the sequence.
LEMMA Moved ==
    ASSUME NEW S, NEW s \in Seq(S), NEW i \in 1..Len(s), NEW j \in 1..Len(s)
    PROVE  /\ InsertAt(RemoveAt(s, i), j, s[i]) \in Seq(S)
           /\ Rearranged(InsertAt(RemoveAt(s, i), j, s[i]), s)
<1> DEFINE r == RemoveAt(s, i)
           t == InsertAt(r, j, s[i])
           n == Len(s)
           From(k) == IF k < i THEN k ELSE k + 1
           g == [k \in 1..n |-> IF k < j THEN From(k) ELSE IF k = j THEN i ELSE From(k - 1)]
<1>0. n \in Nat /\ i \in Nat /\ j \in Nat /\ s[i] \in S
  BY LenProperties, ElementOfSeq
<1>1. r \in Seq(S) /\ Len(r) = n - 1 /\ \A k \in 1..(n - 1) : r[k] = s[From(k)]
  <2>1. \A k \in 1..(n - 1) : r[k] = IF k < i THEN s[k] ELSE s[k + 1]
    BY Removed
  <2> QED BY <2>1, Removed
<1> HIDE DEF r
<1>2. j \in 1..(Len(r) + 1)
  BY <1>0, <1>1
<1>3. /\ t \in Seq(S) /\ Len(t) = Len(r) + 1
      /\ \A k \in 1..(Len(r) + 1) :
             t[k] = IF k < j THEN r[k] ELSE IF k = j THEN s[i] ELSE r[k - 1]
  <2>1. r \in Seq(S) /\ s[i] \in S
    BY <1>0, <1>1
  <2> HIDE DEF n, From, g
  <2>2. PICK e \in S : e = s[i]
    BY <2>1
  <2>3. /\ InsertAt(r, j, e) \in Seq(S)
        /\ Len(InsertAt(r, j, e)) = Len(r) + 1
        /\ \A m \in 1..(Len(r) + 1) :
               InsertAt(r, j, e)[m] = IF m < j THEN r[m] ELSE IF m = j THEN e ELSE r[m - 1]
    BY <1>2, <2>1, Inserted
  <2>4. t = InsertAt(r, j, e)
    BY <2>2
  <2> HIDE DEF t
  <2> QED BY <2>2, <2>3, <2>4
<1>4. Len(r) + 1 = n
  BY <1>0, <1>1
<1> HIDE DEF t
<1>5. g \in [1..n -> 1..n]
  BY <1>0
<1>6. ASSUME NEW k \in 1..n PROVE t[k] = s[g[k]]
  <2>1. CASE k < j
    <3>1. t[k] = r[k] /\ k \in 1..(n - 1)
      BY <1>0, <1>3, <1>4, <2>1
    <3>2. g[k] = From(k)
      BY <2>1
    <3> QED BY <1>1, <3>1, <3>2
  <2>2. CASE k = j
    <3>1. t[k] = s[i] /\ g[k] = i
      BY <1>0, <1>3, <1>4, <2>2
    <3> QED BY <3>1
  <2>3. CASE j < k
    <3>1. t[k] = r[k - 1] /\ k - 1 \in 1..(n - 1)
      BY <1>0, <1>3, <1>4, <2>3
    <3>2. g[k] = From(k - 1)
      BY <1>0, <2>3
    <3> QED BY <1>1, <3>1, <3>2
  <2> QED BY <1>0, <2>1, <2>2, <2>3
<1>7. \A k, m \in 1..n : g[k] = g[m] => k = m
  BY <1>0
<1>8. ASSUME NEW m \in 1..n PROVE \E k \in 1..n : g[k] = m
  <2>1. CASE m = i
    BY <1>0, <2>1
  <2>2. CASE m # i
    <3> DEFINE q == IF m < i THEN m ELSE m - 1
               k == IF q < j THEN q ELSE q + 1
    <3>1. q \in 1..(n - 1) /\ From(q) = m
      BY <1>0, <2>2
    <3>2. k \in 1..n /\ g[k] = From(q)
      BY <1>0, <3>1
    <3> QED BY <3>1, <3>2
  <2> QED BY <2>1, <2>2
<1> HIDE DEF g
<1>9. /\ t \in Seq(S) /\ Len(t) = n
      /\ \E h \in [1..n -> 1..n] :
            /\ \A k \in 1..n : t[k] = s[h[k]]
            /\ \A k, m \in 1..n : h[k] = h[m] => k = m
            /\ \A m \in 1..n : \E k \in 1..n : h[k] = m
  BY <1>3, <1>4, <1>5, <1>6, <1>7, <1>8
<1>10. t \in Seq(S) /\ Rearranged(t, s)
  BY <1>9 DEF Rearranged
<1> QED BY <1>10 DEF t, r

-----------------------------------------------------------------------------
(* Tabs and connections.                                                   *)

\* Every tab has an id of its own.
TabsOK ==
    /\ tabs \in Seq(Tab) /\ opened \in Nat
    /\ \A i \in DOMAIN tabs : tabs[i].id \in 1..opened
    /\ \A i, j \in DOMAIN tabs : tabs[i].id = tabs[j].id => i = j

\* Tab and panel tell connections apart; a tab with a status has one panel; only a
\* connection that is being closed outlives its tab.
ConnsOK ==
    /\ conns \subseteq Conn
    /\ \A c \in conns : c.tab \in 1..opened
    /\ \A c, d \in conns : c.tab = d.tab /\ c.panel = d.panel => c = d
    /\ \A i \in DOMAIN tabs : \A c \in conns :
           c.tab = tabs[i].id /\ tabs[i].status # "none" => c.panel = 1
    /\ \A c \in conns : c.phase # "closing" => \E i \in DOMAIN tabs : tabs[i].id = c.tab

\* The ids of the tabs that wait for their permissions are theirs.
Waits(a, id) == a.first <= id /\ id < a.first + a.n
AsksOK ==
    /\ asking \subseteq [first : Nat \ {0}, n : 1..2, kind : {"terminal", "desktop"}]
    /\ \A a \in asking : a.first + a.n <= opened + 1
    /\ \A a, b \in asking : a = b \/ a.first + a.n <= b.first \/ b.first + b.n <= a.first
    /\ \A a \in asking : \A i \in DOMAIN tabs : ~Waits(a, tabs[i].id)
    /\ \A a \in asking : \A c \in conns : ~Waits(a, c.tab)

WorkInv == TabsOK /\ ConnsOK /\ AsksOK /\ StatusTrue

\* Tabs that are the old ones, in other places perhaps and with another status or
\* box, each once.
LEMMA TabsStay ==
    ASSUME TabsOK, opened' \in Nat, opened <= opened', tabs' \in Seq(Tab),
           NEW g \in [DOMAIN tabs' -> DOMAIN tabs],
           \A k \in DOMAIN tabs' : tabs'[k].id = tabs[g[k]].id,
           \A k, m \in DOMAIN tabs' : g[k] = g[m] => k = m
    PROVE  TabsOK'
<1>1. ASSUME NEW k \in DOMAIN tabs' PROVE tabs'[k].id \in 1..opened'
  BY DEF TabsOK
<1> QED BY <1>1 DEF TabsOK

\* Connections that are the old ones, in another phase perhaps.
LEMMA ConnsStay ==
    ASSUME ConnsOK, opened \in Nat, opened' \in Nat, opened <= opened', conns' \subseteq Conn,
           NEW h \in [conns' -> conns],
           \A c \in conns' : c.tab = h[c].tab /\ c.panel = h[c].panel,
           \A c, d \in conns' : h[c] = h[d] => c = d
    PROVE  /\ \A c \in conns' : c.tab \in 1..opened'
           /\ \A c, d \in conns' : c.tab = d.tab /\ c.panel = d.panel => c = d
<1>1. ASSUME NEW c \in conns' PROVE c.tab \in 1..opened'
  BY DEF ConnsOK
<1>2. ASSUME NEW c \in conns', NEW d \in conns', c.tab = d.tab, c.panel = d.panel PROVE c = d
  <2>1. h[c] = h[d]
    BY <1>2 DEF ConnsOK
  <2> QED BY <2>1
<1> QED BY <1>1, <1>2

\* A panel reports to its own tab: one connection changes, with what its tab says.
LEMMA TellKeeps ==
    ASSUME WorkInv, NEW c \in conns, NEW d \in Conn, c.phase # "closing",
           d.tab = c.tab, d.panel = c.panel,
           NEW status \in {"success", "error"},
           status = "success" => d.phase = "open",
           status = "error" => d.phase = "closed",
           d.pings => d.phase = "open",
           Change(c, d), tabs' = Tell(c.tab, status), UNCHANGED <<opened, asking>>
    PROVE  WorkInv'
<1>1. /\ tabs' \in Seq(Tab) /\ DOMAIN tabs' = DOMAIN tabs
      /\ \A i \in DOMAIN tabs :
             /\ tabs'[i].id = tabs[i].id
             /\ tabs'[i].status = IF tabs[i].id = c.tab /\ tabs[i].status # "none"
                                  THEN status ELSE tabs[i].status
  <2>1. tabs \in Seq(Tab) /\ DOMAIN tabs = 1..Len(tabs) /\ Len(tabs) \in Nat
    BY LenProperties DEF WorkInv, TabsOK
  <2>2. \A i \in DOMAIN tabs : tabs[i] \in Tab
    BY <2>1, ElementOfSeq
  <2>3. \A i \in DOMAIN tabs : [tabs[i] EXCEPT !.status = status] \in Tab
    BY <2>2 DEF Tab
  <2>4. \A i \in 1..Len(tabs) :
          (IF tabs[i].id = c.tab /\ tabs[i].status # "none"
           THEN [tabs[i] EXCEPT !.status = status] ELSE tabs[i]) \in Tab
    BY <2>1, <2>2, <2>3
  <2>5. tabs' \in Seq(Tab)
    BY <2>1, <2>4, IsASeq DEF Tell
  <2>6. DOMAIN tabs' = DOMAIN tabs
    BY DEF Tell
  <2>7. ASSUME NEW i \in DOMAIN tabs
        PROVE  /\ tabs'[i].id = tabs[i].id
               /\ tabs'[i].status = IF tabs[i].id = c.tab /\ tabs[i].status # "none"
                                    THEN status ELSE tabs[i].status
    BY <2>2 DEF Tell, Tab
  <2> QED BY <2>5, <2>6, <2>7
<1>2. conns' = (conns \ {c}) \cup {d} /\ conns' \subseteq Conn
  BY DEF Change, WorkInv, ConnsOK
<1>3. TabsOK'
  <2> DEFINE g == [k \in DOMAIN tabs' |-> k]
  <2>1. g \in [DOMAIN tabs' -> DOMAIN tabs] /\ \A k \in DOMAIN tabs' : g[k] = k
    BY <1>1
  <2> HIDE DEF g
  <2> QED BY <1>1, <2>1, TabsStay DEF WorkInv, TabsOK
<1>4. ConnsOK'
  <2>1. \A e \in conns' : e.tab \in 1..opened'
    BY <1>2 DEF WorkInv, ConnsOK
  <2>2. \A e, f \in conns' : e.tab = f.tab /\ e.panel = f.panel => e = f
    BY <1>2 DEF WorkInv, ConnsOK
  <2>3. \A i \in DOMAIN tabs' : \A e \in conns' :
            e.tab = tabs'[i].id /\ tabs'[i].status # "none" => e.panel = 1
    BY <1>1, <1>2 DEF WorkInv, ConnsOK
  <2>4. \A e \in conns' : e.phase # "closing" => \E i \in DOMAIN tabs' : tabs'[i].id = e.tab
    BY <1>1, <1>2 DEF WorkInv, ConnsOK
  <2> QED BY <1>2, <2>1, <2>2, <2>3, <2>4 DEF ConnsOK
<1>5. AsksOK'
  BY <1>1, <1>2 DEF WorkInv, AsksOK, Waits
<1>6. StatusTrue'
  <2>1. ASSUME NEW i \in DOMAIN tabs', NEW e \in conns', e.tab = tabs'[i].id
        PROVE  /\ tabs'[i].status = "success" => e.phase = "open"
               /\ tabs'[i].status = "error" => e.phase = "closed"
    <3>1. CASE tabs[i].id = c.tab /\ tabs[i].status # "none"
      <4>1. e = d
        BY <1>1, <1>2, <2>1, <3>1 DEF WorkInv, ConnsOK
      <4> QED BY <1>1, <3>1, <4>1
    <3>2. CASE tabs[i].id = c.tab /\ tabs[i].status = "none"
      BY <1>1, <3>2
    <3>3. CASE tabs[i].id # c.tab
      BY <1>1, <1>2, <2>1, <3>3 DEF WorkInv, StatusTrue
    <3> QED BY <3>1, <3>2, <3>3
  <2>2. ASSUME NEW e \in conns', e.pings PROVE e.phase = "open" /\ Has(e.tab)'
    <3>1. e.phase = "open"
      BY <1>2, <2>2 DEF WorkInv, StatusTrue
    <3>2. \E i \in DOMAIN tabs' : tabs'[i].id = e.tab
      BY <1>4, <3>1 DEF ConnsOK
    <3> QED BY <3>1, <3>2 DEF Has, Ids
  <2> QED BY <2>1, <2>2 DEF StatusTrue
<1> QED BY <1>3, <1>4, <1>5, <1>6 DEF WorkInv

\* Tabs that were not there, at the end, and their connections.
LEMMA NewTabsAre ==
    ASSUME TabsOK, ConnsOK, NEW n \in 1..2, NEW f \in Nat \ {0}, NEW kind \in Kinds,
           NEW may \in BOOLEAN, NewTabs([i \in 1..n |-> f + i - 1], kind, may)
    PROVE  /\ tabs' \in Seq(Tab) /\ Len(tabs') = Len(tabs) + n
           /\ \A i \in 1..Len(tabs) : tabs'[i] = tabs[i]
           /\ \A i \in 1..n :
                 /\ tabs'[Len(tabs) + i].id = f + i - 1
                 /\ tabs'[Len(tabs) + i].status =
                        IF kind \in {"batch", "setting"} THEN "none" ELSE "loading"
           /\ conns' \subseteq Conn
           /\ \A c \in conns' \ conns :
                 /\ \E i \in 1..n : c.tab = f + i - 1
                 /\ c.panel \in Connected(kind) /\ c.phase = "connecting" /\ ~c.pings
           /\ \A c, d \in conns' \ conns : c.tab = d.tab /\ c.panel = d.panel => c = d
           /\ conns \subseteq conns'
<1> DEFINE ids == [i \in 1..n |-> f + i - 1]
           status == IF kind \in {"batch", "setting"} THEN "none" ELSE "loading"
           more == [i \in 1..n |-> [id |-> f + i - 1, kind |-> kind, may |-> may,
                                    says |-> FALSE, status |-> status]]
           Line(i, p) == [tab |-> f + i - 1, panel |-> p, kind |-> kind, phase |-> "connecting",
                          pings |-> FALSE, live |-> TRUE, got |-> FALSE]
<1>0. DOMAIN ids = 1..n /\ \A i \in 1..n : ids[i] = f + i - 1
  OBVIOUS
<1>1. status \in {"loading", "none"}
  OBVIOUS
<1>2. more \in Seq(Tab) /\ Len(more) = n
  <2>1. \A i \in 1..n : [id |-> f + i - 1, kind |-> kind, may |-> may,
                         says |-> FALSE, status |-> status] \in Tab
    BY <1>1 DEF Tab
  <2>2. n \in Nat
    OBVIOUS
  <2>3. more \in Seq(Tab)
    BY <2>1, <2>2, IsASeq
  <2>4. DOMAIN more = 1..n
    OBVIOUS
  <2> HIDE DEF more
  <2> QED BY <2>2, <2>3, <2>4
<1>3. \A i \in 1..n : more[i].id = f + i - 1 /\ more[i].status = status
  OBVIOUS
<1>4. tabs' = tabs \o more
  BY <1>0 DEF NewTabs
<1>5. conns' = conns \cup {Line(i, p) : i \in 1..n, p \in Connected(kind)}
  BY <1>0 DEF NewTabs
<1>6. Connected(kind) \subseteq 1..2
  BY DEF Connected
<1>7. ASSUME NEW i \in 1..n, NEW p \in Connected(kind) PROVE Line(i, p) \in Conn
  <2>1. f + i - 1 \in Nat /\ p \in 1..2
    BY <1>6
  <2> QED BY <2>1 DEF Conn
<1>8. /\ conns' \subseteq Conn /\ conns \subseteq conns'
      /\ \A c \in conns' \ conns :
            \E i \in 1..n, p \in Connected(kind) : c = Line(i, p)
  BY <1>5, <1>7 DEF ConnsOK
<1>9. ASSUME NEW c \in conns' \ conns
      PROVE  /\ \E i \in 1..n : c.tab = f + i - 1
             /\ c.panel \in Connected(kind) /\ c.phase = "connecting" /\ ~c.pings
  <2>1. PICK i \in 1..n, p \in Connected(kind) : c = Line(i, p)
    BY <1>8
  <2> QED BY <2>1
<1>10. ASSUME NEW c \in conns' \ conns, NEW d \in conns' \ conns,
              c.tab = d.tab, c.panel = d.panel
       PROVE  c = d
  <2>1. PICK i \in 1..n, p \in Connected(kind) : c = Line(i, p)
    BY <1>8
  <2>2. PICK j \in 1..n, q \in Connected(kind) : d = Line(j, q)
    BY <1>8
  <2>3. f + i - 1 = f + j - 1 /\ p = q
    BY <1>10, <2>1, <2>2
  <2> QED BY <2>1, <2>2, <2>3
<1> HIDE DEF more, status
<1>11. /\ tabs' \in Seq(Tab) /\ Len(tabs') = Len(tabs) + n
       /\ \A i \in 1..Len(tabs) + Len(more) : tabs'[i] =
              IF i <= Len(tabs) THEN tabs[i] ELSE more[i - Len(tabs)]
  BY <1>2, <1>4, ConcatProperties DEF TabsOK
<1>12. Len(tabs) \in Nat
  BY LenProperties DEF TabsOK
<1>13. \A i \in 1..Len(tabs) : tabs'[i] = tabs[i]
  BY <1>2, <1>11, <1>12
<1>14. ASSUME NEW i \in 1..n PROVE tabs'[Len(tabs) + i] = more[i]
  <2>1. Len(tabs) + i \in 1..Len(tabs) + Len(more) /\ ~(Len(tabs) + i <= Len(tabs))
    BY <1>2, <1>12
  <2>2. tabs'[Len(tabs) + i] = more[(Len(tabs) + i) - Len(tabs)]
    BY <1>11, <2>1
  <2>3. (Len(tabs) + i) - Len(tabs) = i
    BY <1>12
  <2> QED BY <2>2, <2>3
<1> QED BY <1>3, <1>8, <1>9, <1>10, <1>11, <1>13, <1>14 DEF status

LEMMA NewTabsKeep ==
    ASSUME WorkInv, NEW n \in 1..2, NEW f \in Nat \ {0}, NEW kind \in Kinds,
           NEW may \in BOOLEAN, NewTabs([i \in 1..n |-> f + i - 1], kind, may),
           opened' \in Nat, opened <= opened', f + n <= opened' + 1,
           \A i \in DOMAIN tabs : tabs[i].id < f \/ f + n <= tabs[i].id,
           \A c \in conns : c.tab < f \/ f + n <= c.tab
    PROVE  /\ TabsOK' /\ ConnsOK' /\ StatusTrue'
           /\ \A i \in DOMAIN tabs' : \/ i \in DOMAIN tabs /\ tabs'[i] = tabs[i]
                                      \/ (f <= tabs'[i].id /\ tabs'[i].id < f + n)
           /\ \A c \in conns' : c \in conns \/ (f <= c.tab /\ c.tab < f + n)
<1>0. /\ Len(tabs) \in Nat /\ DOMAIN tabs = 1..Len(tabs)
      /\ DOMAIN tabs' = 1..Len(tabs') /\ TabsOK /\ ConnsOK
      /\ \A i \in DOMAIN tabs : tabs[i] \in Tab
  BY NewTabsAre, LenProperties, ElementOfSeq DEF WorkInv, TabsOK
<1>1. /\ tabs' \in Seq(Tab) /\ Len(tabs') = Len(tabs) + n
      /\ \A i \in 1..Len(tabs) : tabs'[i] = tabs[i]
      /\ \A i \in 1..n :
            /\ tabs'[Len(tabs) + i].id = f + i - 1
            /\ tabs'[Len(tabs) + i].status =
                   IF kind \in {"batch", "setting"} THEN "none" ELSE "loading"
      /\ conns' \subseteq Conn
      /\ \A c \in conns' \ conns :
            /\ \E i \in 1..n : c.tab = f + i - 1
            /\ c.panel \in Connected(kind) /\ c.phase = "connecting" /\ ~c.pings
      /\ \A c, d \in conns' \ conns : c.tab = d.tab /\ c.panel = d.panel => c = d
      /\ conns \subseteq conns'
  <2>1. TabsOK /\ ConnsOK
    BY <1>0
  <2> QED BY <2>1, NewTabsAre, Zenon
<1>2. /\ conns' \subseteq Conn
      /\ \A c \in conns' \ conns :
            /\ \E i \in 1..n : c.tab = f + i - 1
            /\ c.panel \in Connected(kind) /\ c.phase = "connecting" /\ ~c.pings
      /\ \A c, d \in conns' \ conns : c.tab = d.tab /\ c.panel = d.panel => c = d
      /\ conns \subseteq conns'
  BY <1>1, Zenon
<1>3. ASSUME NEW i \in DOMAIN tabs'
      PROVE  \/ i \in DOMAIN tabs /\ tabs'[i] = tabs[i]
             \/ /\ i > Len(tabs) /\ tabs'[i].id = f + (i - Len(tabs)) - 1
                /\ tabs'[i].status = IF kind \in {"batch", "setting"} THEN "none" ELSE "loading"
  <2>1. CASE i <= Len(tabs)
    BY <1>0, <1>1, <2>1
  <2>2. CASE i > Len(tabs)
    <3>1. i - Len(tabs) \in 1..n /\ Len(tabs) + (i - Len(tabs)) = i
      BY <1>0, <1>1, <2>2
    <3> QED BY <1>1, <2>2, <3>1
  <2> QED BY <1>0, <2>1, <2>2
<1>4. \A i \in DOMAIN tabs' : \/ i \in DOMAIN tabs /\ tabs'[i] = tabs[i]
                              \/ (i > Len(tabs) /\ f <= tabs'[i].id /\ tabs'[i].id < f + n)
  BY <1>0, <1>1, <1>3
<1>5. ASSUME NEW c \in conns' PROVE c \in conns \/ (f <= c.tab /\ c.tab < f + n)
  <2>1. CASE c \notin conns
    <3>1. PICK i \in 1..n : c.tab = f + i - 1
      BY <1>2, <2>1
    <3> QED BY <3>1
  <2> QED BY <2>1, Zenon
<1>6. TabsOK'
  <2>1. ASSUME NEW i \in DOMAIN tabs' PROVE tabs'[i].id \in 1..opened'
    <3>1. CASE i \in DOMAIN tabs /\ tabs'[i] = tabs[i]
      BY <1>0, <3>1 DEF TabsOK
    <3>2. CASE i > Len(tabs) /\ tabs'[i].id = f + (i - Len(tabs)) - 1
      <4>1. i \in 1..(Len(tabs) + n)
        BY <1>0, <1>1
      <4>2. Len(tabs) \in Nat
        BY <1>0
      <4>3. f + (i - Len(tabs)) - 1 \in 1..opened'
        BY <3>2, <4>1, <4>2
      <4> QED BY <3>2, <4>3
    <3> QED BY <1>3, <3>1, <3>2
  <2>2. ASSUME NEW i \in DOMAIN tabs', NEW j \in DOMAIN tabs', tabs'[i].id = tabs'[j].id PROVE i = j
    <3>1. CASE i <= Len(tabs) /\ j <= Len(tabs)
      BY <1>0, <1>3, <2>2, <3>1 DEF TabsOK
    <3>2. CASE i > Len(tabs) /\ j > Len(tabs)
      <4>1. /\ tabs'[i].id = f + (i - Len(tabs)) - 1
            /\ tabs'[j].id = f + (j - Len(tabs)) - 1
        BY <1>3, <3>2
      <4>2. i \in Int /\ j \in Int /\ Len(tabs) \in Int /\ f \in Int
        BY <1>0, <1>1
      <4>3. f + (i - Len(tabs)) - 1 = f + (j - Len(tabs)) - 1
        BY <2>2, <4>1, Zenon
      <4> QED BY <4>2, <4>3
    <3>3. CASE i <= Len(tabs) /\ j > Len(tabs)
      <4>1. tabs'[i] = tabs[i] /\ i \in DOMAIN tabs
        BY <1>0, <1>1, <3>3
      <4>2. tabs[i].id \in 1..opened
        BY <1>0, <4>1 DEF TabsOK
      <4>3. f <= tabs'[j].id /\ tabs'[j].id < f + n
        BY <1>0, <1>4, <3>3
      <4>4. opened \in Nat /\ (tabs[i].id < f \/ f + n <= tabs[i].id)
        BY <1>0, <4>1 DEF TabsOK
      <4>5. tabs[i].id = tabs'[j].id /\ tabs[i].id \in Nat
        BY <2>2, <4>1, <4>2, <4>4
      <4> QED BY <4>3, <4>4, <4>5
    <3>4. CASE i > Len(tabs) /\ j <= Len(tabs)
      <4>1. tabs'[j] = tabs[j] /\ j \in DOMAIN tabs
        BY <1>0, <1>1, <3>4
      <4>2. tabs[j].id \in 1..opened
        BY <1>0, <4>1 DEF TabsOK
      <4>3. f <= tabs'[i].id /\ tabs'[i].id < f + n
        BY <1>0, <1>4, <3>4
      <4>4. opened \in Nat /\ (tabs[j].id < f \/ f + n <= tabs[j].id)
        BY <1>0, <4>1 DEF TabsOK
      <4>5. tabs[j].id = tabs'[i].id /\ tabs[j].id \in Nat
        BY <2>2, <4>1, <4>2, <4>4
      <4> QED BY <4>3, <4>4, <4>5
    <3> QED BY <1>0, <3>1, <3>2, <3>3, <3>4
  <2> QED BY <1>1, <2>1, <2>2 DEF TabsOK
<1>7. ConnsOK'
  <2>1. \A c \in conns' : c.tab \in 1..opened'
    <3> SUFFICES ASSUME NEW c \in conns' PROVE c.tab \in 1..opened'
      OBVIOUS
    <3>1. CASE c \in conns
      BY <1>0, <3>1 DEF ConnsOK, TabsOK
    <3>2. CASE c \notin conns
      BY <1>0, <1>2, <3>2
    <3> QED BY <3>1, <3>2
  <2>2. ASSUME NEW c \in conns', NEW d \in conns', c.tab = d.tab, c.panel = d.panel PROVE c = d
    <3>1. CASE c \in conns /\ d \in conns
      BY <1>0, <2>2, <3>1 DEF ConnsOK
    <3>2. CASE c \notin conns /\ d \notin conns
      BY <1>2, <2>2, <3>2
    <3>3. CASE (c \in conns /\ d \notin conns) \/ (c \notin conns /\ d \in conns)
      BY <1>2, <2>2, <3>3 DEF Conn
    <3> QED BY <3>1, <3>2, <3>3, Zenon
  <2>3. ASSUME NEW i \in DOMAIN tabs', NEW c \in conns',
               c.tab = tabs'[i].id, tabs'[i].status # "none"
        PROVE  c.panel = 1
    <3>1. CASE i \in DOMAIN tabs /\ tabs'[i] = tabs[i]
      <4>1. c \in conns
        BY <1>0, <1>5, <2>3, <3>1, SMTT(20) DEF TabsOK
      <4> QED BY <1>0, <2>3, <3>1, <4>1 DEF ConnsOK
    <3>2. CASE i > Len(tabs)
      <4>1. c \notin conns /\ kind \notin {"batch", "setting"}
        BY <1>0, <1>3, <1>4, <2>3, <3>2
      <4> QED BY <1>2, <4>1 DEF Connected
    <3> QED BY <1>3, <3>1, <3>2
  <2>4. ASSUME NEW c \in conns', c.phase # "closing" PROVE \E i \in DOMAIN tabs' : tabs'[i].id = c.tab
    <3>1. CASE c \in conns
      BY <1>0, <1>1, <2>4, <3>1 DEF ConnsOK
    <3>2. CASE c \notin conns
      <4>1. PICK i \in 1..n : c.tab = f + i - 1
        BY <1>2, <3>2
      <4>2. Len(tabs) + i \in DOMAIN tabs'
        BY <1>0, <1>1
      <4> QED BY <1>1, <4>1, <4>2
    <3> QED BY <3>1, <3>2
  <2> QED BY <1>2, <2>1, <2>2, <2>3, <2>4 DEF ConnsOK
<1>8. StatusTrue'
  <2>1. ASSUME NEW i \in DOMAIN tabs', NEW c \in conns', c.tab = tabs'[i].id
        PROVE  /\ tabs'[i].status = "success" => c.phase = "open"
               /\ tabs'[i].status = "error" => c.phase = "closed"
    <3>1. CASE i \in DOMAIN tabs /\ tabs'[i] = tabs[i]
      <4>1. c \in conns
        BY <1>0, <1>5, <2>1, <3>1 DEF TabsOK
      <4> QED BY <2>1, <3>1, <4>1 DEF WorkInv, StatusTrue
    <3>2. CASE tabs'[i].status \in {"none", "loading"}
      BY <3>2
    <3> QED BY <1>3, <3>1, <3>2
  <2>2. ASSUME NEW c \in conns', c.pings PROVE c.phase = "open" /\ Has(c.tab)'
    <3>1. c \in conns /\ c.phase = "open"
      BY <1>2, <2>2 DEF WorkInv, StatusTrue
    <3>2. \E i \in DOMAIN tabs' : tabs'[i].id = c.tab
      BY <1>7, <3>1 DEF ConnsOK
    <3> QED BY <3>1, <3>2 DEF Has, Ids
  <2> QED BY <2>1, <2>2 DEF StatusTrue
<1> QED BY <1>4, <1>5, <1>6, <1>7, <1>8

\* A tab closes: those that stay keep their connections, its own are being closed.
LEMMA CloseTabKeeps ==
    ASSUME WorkInv, NEW i \in DOMAIN tabs, CloseTab(i)
    PROVE  WorkInv'
<1> DEFINE id == tabs[i].id
<1>0. /\ Len(tabs) \in Nat /\ DOMAIN tabs = 1..Len(tabs) /\ i \in 1..Len(tabs)
      /\ tabs \in Seq(Tab) /\ opened' = opened /\ asking' = asking
      /\ tabs' = RemoveAt(tabs, i) /\ conns' = ClosedBy(id) /\ opened \in Nat
  BY LenProperties DEF WorkInv, TabsOK, CloseTab
<1>1. /\ tabs' \in Seq(Tab) /\ Len(tabs') = Len(tabs) - 1
      /\ \A k \in 1..(Len(tabs) - 1) : tabs'[k] = IF k < i THEN tabs[k] ELSE tabs[k + 1]
  BY <1>0, Removed
<1>2. DOMAIN tabs' = 1..(Len(tabs) - 1)
  BY <1>1, LenProperties
<1> DEFINE g == [k \in DOMAIN tabs' |-> IF k < i THEN k ELSE k + 1]
<1>3. /\ g \in [DOMAIN tabs' -> DOMAIN tabs]
      /\ \A k \in DOMAIN tabs' : tabs'[k] = tabs[g[k]] /\ g[k] # i
      /\ \A k, m \in DOMAIN tabs' : g[k] = g[m] => k = m
  BY <1>0, <1>1, <1>2
<1>4. ASSUME NEW m \in DOMAIN tabs, m # i PROVE \E k \in DOMAIN tabs' : tabs'[k] = tabs[m]
  <2>1. CASE m < i
    <3>1. m \in 1..(Len(tabs) - 1)
      BY <1>0, <2>1
    <3> QED BY <1>1, <1>2, <2>1, <3>1
  <2>2. CASE m > i
    <3>1. m - 1 \in 1..(Len(tabs) - 1) /\ ~(m - 1 < i) /\ (m - 1) + 1 = m
      BY <1>0, <2>2
    <3> QED BY <1>1, <1>2, <3>1
  <2> QED BY <1>0, <1>4, <2>1, <2>2
<1> HIDE DEF g
<1>5. TabsOK'
  BY <1>0, <1>1, <1>3, TabsStay DEF WorkInv
<1>6. ASSUME NEW e \in conns'
      PROVE  \/ e \in conns /\ e.tab # id
             \/ /\ e \in Conn /\ e.tab = id /\ e.phase = "closing" /\ ~e.pings
                /\ \E c \in conns : c.tab = id /\ e = [c EXCEPT !.phase = "closing", !.pings = FALSE]
  <2>1. CASE e \in conns /\ e.tab # id
    BY <2>1
  <2>2. ASSUME NEW c \in conns, c.tab = id, e = [c EXCEPT !.phase = "closing", !.pings = FALSE]
        PROVE  e \in Conn /\ e.tab = id /\ e.phase = "closing" /\ ~e.pings
    BY <2>2 DEF WorkInv, ConnsOK, Conn
  <2>3. \/ e \in conns /\ e.tab # id
        \/ \E c \in conns : c.tab = id /\ e = [c EXCEPT !.phase = "closing", !.pings = FALSE]
    BY <1>0 DEF ClosedBy
  <2> QED BY <2>1, <2>2, <2>3
<1>7. ConnsOK'
  <2>1. conns' \subseteq Conn
    BY <1>6 DEF WorkInv, ConnsOK
  <2>2. \A e \in conns' : e.tab \in 1..opened'
    BY <1>0, <1>6 DEF WorkInv, ConnsOK, TabsOK
  <2>3. ASSUME NEW e \in conns', NEW f \in conns', e.tab = f.tab, e.panel = f.panel PROVE e = f
    <3>1. CASE e.tab # id
      BY <1>6, <2>3, <3>1 DEF WorkInv, ConnsOK
    <3>2. CASE e.tab = id
      <4>1. PICK c \in conns : c.tab = id /\ e = [c EXCEPT !.phase = "closing", !.pings = FALSE]
        BY <1>6, <3>2
      <4>2. PICK d \in conns : d.tab = id /\ f = [d EXCEPT !.phase = "closing", !.pings = FALSE]
        BY <1>6, <2>3, <3>2
      <4>3. c.panel = e.panel /\ d.panel = f.panel
        BY <4>1, <4>2 DEF WorkInv, ConnsOK, Conn
      <4>4. c.tab = d.tab /\ c.panel = d.panel
        BY <2>3, <4>1, <4>2, <4>3, Zenon
      <4>5. c = d
        BY <4>4 DEF WorkInv, ConnsOK
      <4> QED BY <4>1, <4>2, <4>5, Zenon
    <3> QED BY <3>1, <3>2
  <2>4. ASSUME NEW k \in DOMAIN tabs', NEW e \in conns', e.tab = tabs'[k].id, tabs'[k].status # "none"
        PROVE  e.panel = 1
    <3>1. e.tab # id
      BY <1>3, <2>4 DEF WorkInv, TabsOK
    <3>2. e \in conns
      BY <1>6, <3>1
    <3>3. g[k] \in DOMAIN tabs /\ tabs'[k] = tabs[g[k]]
      BY <1>3
    <3> QED BY <2>4, <3>2, <3>3 DEF WorkInv, ConnsOK
  <2>5. ASSUME NEW e \in conns', e.phase # "closing" PROVE \E k \in DOMAIN tabs' : tabs'[k].id = e.tab
    <3>1. e \in conns /\ e.tab # id
      BY <1>6, <2>5
    <3>2. PICK m \in DOMAIN tabs : tabs[m].id = e.tab
      BY <2>5, <3>1 DEF WorkInv, ConnsOK
    <3> QED BY <1>4, <3>1, <3>2
  <2> QED BY <2>1, <2>2, <2>3, <2>4, <2>5 DEF ConnsOK
<1>8. AsksOK'
  <2>1. \A a \in asking : \A k \in DOMAIN tabs' : ~Waits(a, tabs'[k].id)
    BY <1>3 DEF WorkInv, AsksOK
  <2>2. \A a \in asking : \A e \in conns' : ~Waits(a, e.tab)
    BY <1>0, <1>6 DEF WorkInv, AsksOK
  <2> QED BY <1>0, <2>1, <2>2 DEF WorkInv, AsksOK, Waits
<1>9. StatusTrue'
  <2>1. ASSUME NEW k \in DOMAIN tabs', NEW e \in conns', e.tab = tabs'[k].id
        PROVE  /\ tabs'[k].status = "success" => e.phase = "open"
               /\ tabs'[k].status = "error" => e.phase = "closed"
    <3>1. e.tab # id
      BY <1>3, <2>1 DEF WorkInv, TabsOK
    <3>2. e \in conns
      BY <1>6, <3>1
    <3>3. g[k] \in DOMAIN tabs /\ tabs'[k] = tabs[g[k]]
      BY <1>3
    <3> QED BY <2>1, <3>2, <3>3 DEF WorkInv, StatusTrue
  <2>2. ASSUME NEW e \in conns', e.pings PROVE e.phase = "open" /\ Has(e.tab)'
    <3>1. e.phase = "open"
      BY <1>6, <2>2 DEF WorkInv, StatusTrue
    <3>2. \E k \in DOMAIN tabs' : tabs'[k].id = e.tab
      BY <1>7, <3>1 DEF ConnsOK
    <3> QED BY <3>1, <3>2 DEF Has, Ids
  <2> QED BY <2>1, <2>2 DEF StatusTrue
<1> QED BY <1>5, <1>7, <1>8, <1>9 DEF WorkInv

\* Tabs that are permuted, or whose box alone changes, and connections of which the
\* same is known.
LEMMA SameTabsKeep ==
    ASSUME WorkInv, tabs' \in Seq(Tab), UNCHANGED <<opened, asking>>,
           NEW g \in [DOMAIN tabs' -> DOMAIN tabs],
           \A k \in DOMAIN tabs' : /\ tabs'[k].id = tabs[g[k]].id
                                   /\ tabs'[k].status = tabs[g[k]].status,
           \A k, m \in DOMAIN tabs' : g[k] = g[m] => k = m,
           \A m \in DOMAIN tabs : \E k \in DOMAIN tabs' : g[k] = m,
           conns' \subseteq Conn,
           NEW h \in [conns' -> conns],
           \A c \in conns' : /\ c.tab = h[c].tab /\ c.panel = h[c].panel
                             /\ c.phase = h[c].phase /\ c.pings = h[c].pings,
           \A c, d \in conns' : h[c] = h[d] => c = d
    PROVE  WorkInv'
<1>1. TabsOK'
  BY TabsStay DEF WorkInv, TabsOK
<1>2. ConnsOK'
  <2>1. /\ \A c \in conns' : c.tab \in 1..opened'
        /\ \A c, d \in conns' : c.tab = d.tab /\ c.panel = d.panel => c = d
    <3>1. ConnsOK /\ opened \in Nat /\ opened' \in Nat /\ opened <= opened'
      BY DEF WorkInv, TabsOK
    <3> QED BY <3>1, ConnsStay
  <2>2. \A k \in DOMAIN tabs' : \A c \in conns' :
            c.tab = tabs'[k].id /\ tabs'[k].status # "none" => c.panel = 1
    BY DEF WorkInv, ConnsOK
  <2>3. \A c \in conns' : c.phase # "closing" => \E k \in DOMAIN tabs' : tabs'[k].id = c.tab
    BY DEF WorkInv, ConnsOK
  <2> QED BY <2>1, <2>2, <2>3 DEF ConnsOK
<1>3. AsksOK'
  BY DEF WorkInv, AsksOK, Waits
<1>4. StatusTrue'
  <2>1. \A k \in DOMAIN tabs' : \A c \in conns' : c.tab = tabs'[k].id =>
            /\ tabs'[k].status = "success" => c.phase = "open"
            /\ tabs'[k].status = "error" => c.phase = "closed"
    BY DEF WorkInv, StatusTrue
  <2>2. ASSUME NEW c \in conns', c.pings PROVE c.phase = "open" /\ Has(c.tab)'
    <3>1. c.phase = "open"
      BY <2>2 DEF WorkInv, StatusTrue
    <3>2. \E i \in DOMAIN tabs' : tabs'[i].id = c.tab
      BY <1>2, <3>1 DEF ConnsOK
    <3> QED BY <3>1, <3>2 DEF Has, Ids
  <2> QED BY <2>1, <2>2 DEF StatusTrue
<1> QED BY <1>1, <1>2, <1>3, <1>4 DEF WorkInv

\* The places and the connections as they are: what SameTabsKeep asks for.
LEMMA ConnsSame ==
    ASSUME WorkInv, conns' = conns
    PROVE  \E h \in [conns' -> conns] :
               /\ \A c \in conns' : /\ c.tab = h[c].tab /\ c.panel = h[c].panel
                                    /\ c.phase = h[c].phase /\ c.pings = h[c].pings
               /\ \A c, d \in conns' : h[c] = h[d] => c = d
<1> DEFINE h == [c \in conns' |-> c]
<1>1. h \in [conns' -> conns] /\ \A c \in conns' : h[c] = c
  OBVIOUS
<1> HIDE DEF h
<1> QED BY <1>1

LEMMA UnchangedKeeps ==
    ASSUME WorkInv, UNCHANGED <<tabs, opened, asking, conns>> PROVE WorkInv'
  BY DEF WorkInv, TabsOK, ConnsOK, AsksOK, Waits, StatusTrue, Has, Ids

LEMMA DragKeeps ==
    ASSUME WorkInv, NEW i \in DOMAIN tabs, NEW j \in DOMAIN tabs, Drag(i, j)
    PROVE  WorkInv'
<1>1. tabs \in Seq(Tab) /\ DOMAIN tabs = 1..Len(tabs)
  BY LenProperties DEF WorkInv, TabsOK
<1>2. /\ tabs' = InsertAt(RemoveAt(tabs, i), j, tabs[i])
      /\ UNCHANGED <<opened, asking, conns>>
  BY DEF Drag
<1>3. tabs' \in Seq(Tab) /\ Rearranged(tabs', tabs)
  <2>1. i \in 1..Len(tabs) /\ j \in 1..Len(tabs)
    BY <1>1
  <2>2. /\ InsertAt(RemoveAt(tabs, i), j, tabs[i]) \in Seq(Tab)
        /\ Rearranged(InsertAt(RemoveAt(tabs, i), j, tabs[i]), tabs)
    BY <1>1, <2>1, Moved
  <2> QED BY <1>2, <2>2
<1>4. DOMAIN tabs' = 1..Len(tabs)
  BY <1>3, LenProperties DEF Rearranged
<1>5. PICK g \in [1..Len(tabs) -> 1..Len(tabs)] :
            /\ \A k \in 1..Len(tabs) : tabs'[k] = tabs[g[k]]
            /\ \A k, m \in 1..Len(tabs) : g[k] = g[m] => k = m
            /\ \A m \in 1..Len(tabs) : \E k \in 1..Len(tabs) : g[k] = m
  BY <1>3 DEF Rearranged
<1>6. PICK h \in [conns' -> conns] :
            /\ \A c \in conns' : /\ c.tab = h[c].tab /\ c.panel = h[c].panel
                                 /\ c.phase = h[c].phase /\ c.pings = h[c].pings
            /\ \A c, d \in conns' : h[c] = h[d] => c = d
  BY <1>2, ConnsSame
<1>7. conns' \subseteq Conn
  BY <1>2 DEF WorkInv, ConnsOK
<1>8. /\ g \in [DOMAIN tabs' -> DOMAIN tabs]
      /\ \A k \in DOMAIN tabs' : tabs'[k].id = tabs[g[k]].id /\ tabs'[k].status = tabs[g[k]].status
      /\ \A k, m \in DOMAIN tabs' : g[k] = g[m] => k = m
      /\ \A m \in DOMAIN tabs : \E k \in DOMAIN tabs' : g[k] = m
  BY <1>1, <1>4, <1>5
<1>9. tabs' \in Seq(Tab) /\ UNCHANGED <<opened, asking>>
  BY <1>2, <1>3
<1> QED BY <1>6, <1>7, <1>8, <1>9, SameTabsKeep

\* The box of the batch tab is filled or emptied; what its panels were given is
\* noted.
LEMMA SaysKeeps ==
    ASSUME WorkInv, NEW keep \in BOOLEAN, Says(keep), UNCHANGED <<opened, asking>>,
           conns' \subseteq Conn,
           NEW h \in [conns' -> conns],
           \A c \in conns' : /\ c.tab = h[c].tab /\ c.panel = h[c].panel
                             /\ c.phase = h[c].phase /\ c.pings = h[c].pings,
           \A c, d \in conns' : h[c] = h[d] => c = d
    PROVE  WorkInv'
<1>1. tabs \in Seq(Tab) /\ DOMAIN tabs = 1..Len(tabs) /\ Len(tabs) \in Nat
  BY LenProperties DEF WorkInv, TabsOK
<1>2. ASSUME NEW i \in DOMAIN tabs
      PROVE  tabs[i] \in Tab /\ [tabs[i] EXCEPT !.says = keep] \in Tab
  <2>1. tabs[i] \in Tab
    BY <1>1, ElementOfSeq
  <2> QED BY <2>1 DEF Tab
<1>3. \A i \in 1..Len(tabs) :
         (IF tabs[i].id = active THEN [tabs[i] EXCEPT !.says = keep] ELSE tabs[i]) \in Tab
  BY <1>1, <1>2
<1>4. tabs' \in Seq(Tab) /\ DOMAIN tabs' = DOMAIN tabs
  BY <1>1, <1>3, IsASeq DEF Says
<1>5. \A i \in DOMAIN tabs : tabs'[i].id = tabs[i].id /\ tabs'[i].status = tabs[i].status
  BY <1>2 DEF Says, Tab
<1> DEFINE g == [k \in DOMAIN tabs' |-> k]
<1>6. g \in [DOMAIN tabs' -> DOMAIN tabs] /\ \A k \in DOMAIN tabs' : g[k] = k
  BY <1>4
<1> HIDE DEF g
<1> QED BY <1>4, <1>5, <1>6, SameTabsKeep

LEMMA EnterKeeps ==
    ASSUME WorkInv, EnterCommand PROVE WorkInv'
<1>1. PICK kept \in BOOLEAN :
         /\ Says(kept)
         /\ conns' = {IF c.tab # active THEN c
                      ELSE [c EXCEPT !.got = kept /\ (@ \/ c \in Given(active))] : c \in conns}
  BY DEF EnterCommand
<1> DEFINE Sent2(c) == IF c.tab # active THEN c
                       ELSE [c EXCEPT !.got = kept /\ (@ \/ c \in Given(active))]
<1>2. ASSUME NEW c \in conns
      PROVE  /\ Sent2(c) \in Conn /\ Sent2(c).tab = c.tab /\ Sent2(c).panel = c.panel
             /\ Sent2(c).phase = c.phase /\ Sent2(c).pings = c.pings
  BY DEF WorkInv, ConnsOK, Conn
<1>3. conns' = {Sent2(c) : c \in conns}
  BY <1>1
<1> HIDE DEF Sent2
<1>4. conns' \subseteq Conn
  BY <1>2, <1>3
<1> DEFINE h == [e \in conns' |-> CHOOSE c \in conns : e = Sent2(c)]
<1>5. h \in [conns' -> conns] /\ \A e \in conns' : e = Sent2(h[e])
  BY <1>3
<1> HIDE DEF h
<1>6. \A e \in conns' : /\ e.tab = h[e].tab /\ e.panel = h[e].panel
                        /\ e.phase = h[e].phase /\ e.pings = h[e].pings
  BY <1>2, <1>5
<1>7. \A e, f \in conns' : h[e] = h[f] => e = f
  BY <1>5
<1>8. UNCHANGED <<opened, asking>>
  BY DEF EnterCommand
<1> QED BY <1>1, <1>4, <1>5, <1>6, <1>7, <1>8, SaysKeeps

LEMMA ComposeKeeps ==
    ASSUME WorkInv, Compose PROVE WorkInv'
<1>1. Says(TRUE) /\ UNCHANGED <<opened, asking, conns>>
  BY DEF Compose
<1>2. PICK h \in [conns' -> conns] :
            /\ \A c \in conns' : /\ c.tab = h[c].tab /\ c.panel = h[c].panel
                                 /\ c.phase = h[c].phase /\ c.pings = h[c].pings
            /\ \A c, d \in conns' : h[c] = h[d] => c = d
  BY <1>1, ConnsSame
<1>3. conns' \subseteq Conn
  BY <1>1 DEF WorkInv, ConnsOK
<1> QED BY <1>1, <1>2, <1>3, SaysKeeps

LEMMA AskTabsKeeps ==
    ASSUME WorkInv, NEW n \in 1..2, NEW kind \in {"terminal", "desktop"}, AskTabs(n, kind)
    PROVE  WorkInv'
<1>1. /\ opened \in Nat /\ opened' = opened + n /\ UNCHANGED <<tabs, conns>>
      /\ asking' = asking \cup {[first |-> opened + 1, n |-> n, kind |-> kind]}
  BY DEF AskTabs, WorkInv, TabsOK
<1>2. TabsOK' /\ ConnsOK'
  BY <1>1 DEF WorkInv, TabsOK, ConnsOK
<1>3. AsksOK'
  <2> DEFINE new == [first |-> opened + 1, n |-> n, kind |-> kind]
  <2>1. /\ new \in [first : Nat \ {0}, n : 1..2, kind : {"terminal", "desktop"}]
        /\ new.first = opened + 1 /\ new.n = n
    BY <1>1
  <2>2. asking' = asking \cup {new}
    BY <1>1
  <2> HIDE DEF new
  <2>3. asking' \subseteq [first : Nat \ {0}, n : 1..2, kind : {"terminal", "desktop"}]
    BY <2>1, <2>2 DEF WorkInv, AsksOK
  <2>4. \A a \in asking' : a.first + a.n <= opened' + 1
    BY <1>1, <2>1, <2>2 DEF WorkInv, AsksOK
  <2>5. \A a, b \in asking' : a = b \/ a.first + a.n <= b.first \/ b.first + b.n <= a.first
    BY <1>1, <2>1, <2>2 DEF WorkInv, AsksOK
  <2>6. ASSUME NEW a \in asking', NEW i \in DOMAIN tabs' PROVE ~Waits(a, tabs'[i].id)
    <3>1. tabs'[i].id \in 1..opened /\ i \in DOMAIN tabs /\ tabs'[i] = tabs[i]
      BY <1>1 DEF WorkInv, TabsOK
    <3>2. CASE a \in asking
      BY <3>1, <3>2 DEF WorkInv, AsksOK
    <3>3. CASE a = new
      BY <1>1, <2>1, <3>1, <3>3 DEF Waits
    <3> QED BY <2>2, <3>2, <3>3
  <2>7. \A a \in asking' : \A c \in conns' : ~Waits(a, c.tab)
    BY <1>1, <2>1, <2>2 DEF WorkInv, AsksOK, ConnsOK, Waits
  <2> QED BY <2>3, <2>4, <2>5, <2>6, <2>7 DEF AsksOK
<1>4. StatusTrue'
  BY <1>1 DEF WorkInv, StatusTrue, Has, Ids
<1> QED BY <1>2, <1>3, <1>4 DEF WorkInv

LEMMA TabsOpenKeeps ==
    ASSUME WorkInv, NEW a \in asking, NEW may \in BOOLEAN, TabsOpen(a, may)
    PROVE  WorkInv'
<1>1. /\ a.n \in 1..2 /\ a.first \in Nat \ {0} /\ a.kind \in Kinds
      /\ NewTabs([i \in 1..a.n |-> a.first + i - 1], a.kind, may)
      /\ asking' = asking \ {a} /\ opened' = opened /\ opened \in Nat
      /\ a.first + a.n <= opened + 1
  BY DEF TabsOpen, WorkInv, AsksOK, TabsOK, Kinds
<1>2. /\ \A i \in DOMAIN tabs : tabs[i].id < a.first \/ a.first + a.n <= tabs[i].id
      /\ \A c \in conns : c.tab < a.first \/ a.first + a.n <= c.tab
  <2>1. ASSUME NEW i \in DOMAIN tabs
        PROVE  tabs[i].id < a.first \/ a.first + a.n <= tabs[i].id
    <3>1. ~Waits(a, tabs[i].id)
      BY DEF WorkInv, AsksOK
    <3>2. tabs[i].id \in Nat
      BY <1>1 DEF WorkInv, TabsOK
    <3> QED BY <1>1, <3>1, <3>2 DEF Waits
  <2>2. ASSUME NEW c \in conns PROVE c.tab < a.first \/ a.first + a.n <= c.tab
    <3>1. ~Waits(a, c.tab)
      BY DEF WorkInv, AsksOK
    <3>2. c.tab \in Nat
      BY <1>1 DEF WorkInv, ConnsOK
    <3> QED BY <1>1, <3>1, <3>2 DEF Waits
  <2> QED BY <2>1, <2>2
<1>3. /\ TabsOK' /\ ConnsOK' /\ StatusTrue'
      /\ \A i \in DOMAIN tabs' : \/ i \in DOMAIN tabs /\ tabs'[i] = tabs[i]
                                 \/ (a.first <= tabs'[i].id /\ tabs'[i].id < a.first + a.n)
      /\ \A c \in conns' : c \in conns \/ (a.first <= c.tab /\ c.tab < a.first + a.n)
  <2>1. opened' \in Nat /\ opened <= opened' /\ a.first + a.n <= opened' + 1
    BY <1>1
  <2> QED BY <1>1, <1>2, <2>1, NewTabsKeep
<1>4. AsksOK'
  <2>1. asking' \subseteq [first : Nat \ {0}, n : 1..2, kind : {"terminal", "desktop"}]
        /\ \A b \in asking' : b \in asking /\ b # a
    BY <1>1 DEF WorkInv, AsksOK
  <2>2. \A b \in asking' : b.first + b.n <= opened' + 1
    BY <1>1, <2>1 DEF WorkInv, AsksOK
  <2>3. \A b, d \in asking' : b = d \/ b.first + b.n <= d.first \/ d.first + d.n <= b.first
    BY <2>1 DEF WorkInv, AsksOK
  <2>4. ASSUME NEW b \in asking', NEW i \in DOMAIN tabs' PROVE ~Waits(b, tabs'[i].id)
    <3>1. CASE i \in DOMAIN tabs /\ tabs'[i] = tabs[i]
      BY <2>1, <3>1 DEF WorkInv, AsksOK
    <3>2. CASE a.first <= tabs'[i].id /\ tabs'[i].id < a.first + a.n
      <4>1. tabs'[i].id \in Nat /\ b.first \in Nat /\ b.n \in Nat
        BY <1>3, <2>1 DEF TabsOK
      <4>2. a.first + a.n <= b.first \/ b.first + b.n <= a.first
        BY <2>1 DEF WorkInv, AsksOK
      <4> QED BY <1>1, <3>2, <4>1, <4>2 DEF Waits
    <3> QED BY <1>3, <3>1, <3>2
  <2>5. ASSUME NEW b \in asking', NEW c \in conns' PROVE ~Waits(b, c.tab)
    <3>1. CASE c \in conns
      BY <2>1, <3>1 DEF WorkInv, AsksOK
    <3>2. CASE a.first <= c.tab /\ c.tab < a.first + a.n
      <4>1. c.tab \in Nat /\ b.first \in Nat /\ b.n \in Nat
        BY <1>1, <1>3, <2>1 DEF ConnsOK
      <4>2. a.first + a.n <= b.first \/ b.first + b.n <= a.first
        BY <2>1 DEF WorkInv, AsksOK
      <4> QED BY <1>1, <3>2, <4>1, <4>2 DEF Waits
    <3> QED BY <1>3, <3>1, <3>2
  <2> QED BY <2>1, <2>2, <2>3, <2>4, <2>5 DEF AsksOK
<1> QED BY <1>3, <1>4 DEF WorkInv

\* The next id is that of no tab, connection or request.
LEMMA OneTabKeeps ==
    ASSUME WorkInv, NEW kind \in Kinds, NEW may \in BOOLEAN,
           NewTabs(<<opened + 1>>, kind, may), opened' = opened + 1, asking' = asking
    PROVE  WorkInv'
<1>1. opened \in Nat /\ <<opened + 1>> = [i \in 1..1 |-> (opened + 1) + i - 1]
  BY DEF WorkInv, TabsOK
<1>2. /\ \A i \in DOMAIN tabs : tabs[i].id < opened + 1
      /\ \A c \in conns : c.tab < opened + 1
  BY <1>1 DEF WorkInv, TabsOK, ConnsOK
<1>3. /\ TabsOK' /\ ConnsOK' /\ StatusTrue'
      /\ \A i \in DOMAIN tabs' : \/ i \in DOMAIN tabs /\ tabs'[i] = tabs[i]
                                 \/ (opened + 1 <= tabs'[i].id /\ tabs'[i].id < (opened + 1) + 1)
      /\ \A c \in conns' : c \in conns \/ (opened + 1 <= c.tab /\ c.tab < (opened + 1) + 1)
  <2>1. NewTabs([i \in 1..1 |-> (opened + 1) + i - 1], kind, may)
    BY <1>1
  <2>2. 1 \in 1..2 /\ opened + 1 \in Nat \ {0} /\ opened' \in Nat /\ opened <= opened'
        /\ (opened + 1) + 1 <= opened' + 1
    BY <1>1
  <2> QED BY <1>2, <2>1, <2>2, NewTabsKeep
<1>4. AsksOK'
  <2>1. \A a \in asking : a.first + a.n <= opened + 1 /\ a.first \in Nat /\ a.n \in Nat
    BY DEF WorkInv, AsksOK
  <2>2. \A a \in asking : \A i \in DOMAIN tabs' : ~Waits(a, tabs'[i].id)
    BY <1>1, <1>3, <2>1 DEF WorkInv, AsksOK, TabsOK, Waits
  <2>3. \A a \in asking : \A c \in conns' : ~Waits(a, c.tab)
    BY <1>1, <1>3, <2>1 DEF WorkInv, AsksOK, ConnsOK, Waits
  <2> QED BY <1>1, <2>1, <2>2, <2>3 DEF WorkInv, AsksOK
<1> QED BY <1>3, <1>4 DEF WorkInv

LEMMA OpenSettingKeeps ==
    ASSUME WorkInv, OpenSetting PROVE WorkInv'
<1>1. asking' = asking
  BY DEF OpenSetting
<1>2. CASE \E i \in DOMAIN tabs : tabs[i].kind = "setting"
  BY <1>1, <1>2, UnchangedKeeps DEF OpenSetting
<1>3. CASE ~\E i \in DOMAIN tabs : tabs[i].kind = "setting"
  <2>1. NewTabs(<<opened + 1>>, "setting", FALSE) /\ opened' = opened + 1
    BY <1>3 DEF OpenSetting
  <2>2. "setting" \in Kinds /\ FALSE \in BOOLEAN
    BY DEF Kinds
  <2> QED BY <1>1, <2>1, <2>2, OneTabKeeps
<1> QED BY <1>2, <1>3

\* What a panel hears of its socket.
LEMMA ConnectionStep ==
    ASSUME WorkInv, NEW c \in conns, Connects(c) \/ Closes(c) \/ Gone(c)
    PROVE  WorkInv'
<1>1. c \in Conn
  BY DEF WorkInv, ConnsOK
<1>2. CASE Connects(c)
  <2> DEFINE d == [c EXCEPT !.phase = "open", !.pings = c.kind # "desktop"]
  <2>1. /\ d \in Conn /\ d.tab = c.tab /\ d.panel = c.panel /\ d.phase = "open"
        /\ c.phase = "connecting"
    BY <1>1, <1>2 DEF Conn, Connects
  <2>2. Change(c, d) /\ tabs' = Tell(c.tab, "success") /\ UNCHANGED <<opened, asking>>
    BY <1>2 DEF Connects
  <2> HIDE DEF d
  <2> QED BY <2>1, <2>2, TellKeeps
<1>3. CASE Closes(c)
  <2> DEFINE d == [c EXCEPT !.phase = "closed", !.pings = FALSE, !.live = FALSE]
  <2>1. /\ d \in Conn /\ d.tab = c.tab /\ d.panel = c.panel /\ d.phase = "closed"
        /\ ~d.pings /\ c.phase \in {"connecting", "open"}
    BY <1>1, <1>3 DEF Conn, Closes
  <2>2. Change(c, d) /\ tabs' = Tell(c.tab, "error") /\ UNCHANGED <<opened, asking>>
    BY <1>3 DEF Closes
  <2> HIDE DEF d
  <2> QED BY <2>1, <2>2, TellKeeps
<1>4. CASE Gone(c)
  <2>1. conns' = conns \ {c} /\ UNCHANGED <<tabs, opened, asking>>
    BY <1>4 DEF Gone
  <2>2. TabsOK'
    BY <2>1 DEF WorkInv, TabsOK
  <2>3. ConnsOK'
    BY <2>1 DEF WorkInv, ConnsOK
  <2>4. AsksOK'
    BY <2>1 DEF WorkInv, AsksOK, Waits
  <2>5. StatusTrue'
    BY <2>1 DEF WorkInv, StatusTrue, Has, Ids
  <2> QED BY <2>2, <2>3, <2>4, <2>5 DEF WorkInv
<1> QED BY <1>2, <1>3, <1>4

LEMMA OneNewTab ==
    ASSUME WorkInv, OpenFresh \/ \E i \in DOMAIN tabs : CopyTab(i)
    PROVE  WorkInv'
<1>1. ASSUME NEW kind \in Kinds, NEW may \in BOOLEAN, OpenNow(kind, may) PROVE WorkInv'
  <2>1. NewTabs(<<opened + 1>>, kind, may) /\ opened' = opened + 1 /\ asking' = asking
    BY <1>1 DEF OpenNow
  <2> QED BY <2>1, OneTabKeeps
<1>2. CASE OpenFresh
  BY <1>1, <1>2 DEF OpenFresh, Kinds
<1>3. ASSUME NEW i \in DOMAIN tabs, CopyTab(i) PROVE WorkInv'
  <2>1. tabs[i] \in Tab
    BY ElementOfSeq DEF WorkInv, TabsOK
  <2>2. tabs[i].may \in BOOLEAN /\ "terminal" \in Kinds /\ OpenNow("terminal", tabs[i].may)
    BY <1>3, <2>1 DEF CopyTab, Tab, Kinds
  <2> QED BY <1>1, <2>2
<1> QED BY <1>2, <1>3

LEMMA WorkStep ==
    ASSUME WorkInv, [Next]_vars PROVE WorkInv'
<1>1. ASSUME NEW a \in asking, NEW may \in BOOLEAN, TabsOpen(a, may) PROVE WorkInv'
  BY <1>1, TabsOpenKeeps
<1>2. ASSUME NEW of \in share.asked, LinkMade(of) \/ LinkRefused(of) PROVE WorkInv'
  BY <1>2, UnchangedKeeps DEF LinkMade, LinkRefused
<1>3. CASE Network
  BY <1>1, <1>2, <1>3, ConnectionStep DEF Network
<1>4. ASSUME NEW n \in 1..2, NEW kind \in {"terminal", "desktop"}, AskTabs(n, kind)
      PROVE  WorkInv'
  BY <1>4, AskTabsKeeps
<1>5. ASSUME NEW id, Activate(id) PROVE WorkInv'
  BY <1>5, UnchangedKeeps DEF Activate
<1>6. ASSUME NEW i \in DOMAIN tabs, NEW j \in DOMAIN tabs, Drag(i, j) PROVE WorkInv'
  BY <1>6, DragKeeps
<1>7. ASSUME NEW i \in DOMAIN tabs, CloseTab(i) PROVE WorkInv'
  BY <1>7, CloseTabKeeps
<1>8. CASE OpenFiles \/ OpenShare \/ AskLink \/ CloseShare
  BY <1>8, UnchangedKeeps DEF OpenFiles, OpenShare, AskLink, CloseShare
<1>9. CASE Operator
  BY <1>4, <1>5, <1>6, <1>7, <1>8, <1>9, OneNewTab, OpenSettingKeeps, ComposeKeeps, EnterKeeps
  DEF Operator
<1>10. CASE Files
  BY <1>10, UnchangedKeeps DEF Files, work
<1>11. CASE UNCHANGED vars
  BY <1>11, UnchangedKeeps DEF vars, work
<1> QED BY <1>3, <1>9, <1>10, <1>11 DEF Next

\* What a tab says of its connection is so, and the timers that run are those of open
\* connections of tabs that are there, for any number of tabs, connections and steps
\* of the user.
THEOREM StatusTrueHolds == Spec => []StatusTrue
<1>1. Init => WorkInv
  BY DEF Init, WorkInv, TabsOK, ConnsOK, AsksOK, StatusTrue
<1>2. WorkInv => StatusTrue
  BY DEF WorkInv
<1> QED BY <1>1, <1>2, WorkStep, PTL DEF Spec

-----------------------------------------------------------------------------
(* Signing in and out.                                                     *)

\* A fetch whose permissions, or routes, are still to come.
Pending == {"no", "asked", "got"}

\* The fetches there are: the permissions are asked for when the user is known.
Fetches == {i \in Info : i.user = "asked" => i.perms = "no"}

\* A page just loaded knows nobody.  Unless navigations overlapped, guards wait only on
\* behalf of the last navigation begun, for one fetch or for the login methods, the
\* page shown has its routes, and a user who is known or being fetched while no
\* navigation waits for a fetch has been in the app, with its routes, before.
RoutesInv ==
    /\ overlapped \in BOOLEAN
    /\ probing \in Nat /\ fetches \in Nat /\ infos \subseteq Fetches
    /\ going \in {"start", "logout"} => ~roles /\ infos = {} /\ probing = 0
    /\ ~overlapped =>
          /\ probing > 0 => probing = 1 /\ going = "methods"
          /\ \A i \in infos : i.perms \in Pending => going = "info"
          /\ \A i, j \in infos : i.perms \in Pending /\ j.perms \in Pending => i = j
          /\ page = "app" => routes
          /\ (going # "info" /\ (roles \/ infos # {})) => routes

\* A navigation, when the guards of none wait for anything, or one goes on.
LEMMA GoKeeps ==
    ASSUME RoutesInv, NEW to \in {"login", "logout", "app"}, NEW has,
           NEW fetching \in SUBSET Fetches, NEW probes \in Nat,
           Go(to, has, fetching, probes), UNCHANGED roles,
           overlapped' \in BOOLEAN,
           ~overlapped' => /\ ~overlapped /\ probes = 0
                           /\ \A i \in fetching : i.perms \notin Pending
                           /\ routes' \/ (going # "info" /\ fetching = infos /\ routes' = routes)
    PROVE  RoutesInv'
<1>1. going' \in {"none", "info", "methods"}
  BY DEF Go, Guard
<1>2. page' = "app" => page = "app" \/ roles
  BY DEF Go, Guard
<1>3. /\ probing' \in Nat
      /\ probes = 0 /\ probing' > 0 => probing' = 1 /\ going' = "methods"
  BY DEF Go
<1>4. CASE going' = "info"
  <2> DEFINE new == [no |-> fetches + 1, user |-> "asked", perms |-> "no", person |-> "no"]
  <2>1. fetches \in Nat
    BY DEF RoutesInv
  <2>2. new \in Fetches
    BY <2>1 DEF Fetches, Info
  <2>3. infos' = fetching \cup {new} /\ fetches' = fetches + 1
    BY <1>4 DEF Go
  <2>4. fetches' \in Nat /\ infos' \subseteq Fetches
    BY <2>1, <2>2, <2>3
  <2>5. ASSUME ~overlapped', NEW i \in infos', i.perms \in Pending PROVE i = new
    BY <2>3, <2>5
  <2> HIDE DEF new
  <2> QED BY <1>1, <1>2, <1>3, <1>4, <2>4, <2>5 DEF RoutesInv
<1>5. CASE going' # "info"
  <2>1. infos' = fetching /\ fetches' = fetches
    BY <1>5 DEF Go
  <2> QED BY <1>1, <1>2, <1>3, <1>5, <2>1 DEF RoutesInv
<1> QED
  BY <1>4, <1>5

\* A navigation that takes the place of none overlaps with none.
LEMMA OverKeeps ==
    ASSUME RoutesInv, NEW to \in {"login", "logout", "app"}, NEW has,
           Go(to, has, infos, probing), Over, UNCHANGED <<roles, routes>>
    PROVE  RoutesInv'
<1>1. /\ overlapped' \in BOOLEAN /\ probing \in Nat /\ infos \subseteq Fetches
      /\ ~overlapped' => ~overlapped /\ going = "none"
  BY DEF Over, RoutesInv
<1>2. ASSUME ~overlapped'
      PROVE  /\ probing = 0
             /\ \A i \in infos : i.perms \notin Pending
             /\ going # "info"
  BY <1>1, <1>2 DEF RoutesInv
<1> QED BY <1>1, <1>2, GoKeeps

\* An answer to a fetch that does not navigate.
LEMMA FetchKeeps ==
    ASSUME RoutesInv, UNCHANGED <<page, going, routes, overlapped, probing, fetches>>,
           NEW i \in infos, NEW j \in Fetches, infos' \subseteq (infos \ {i}) \cup {j},
           j.perms \in Pending => i.perms \in Pending
    PROVE  RoutesInv'
<1>1. infos' \subseteq Fetches /\ going \notin {"start", "logout"}
  BY DEF RoutesInv
<1>2. \A k \in infos' : k = j \/ (k \in infos /\ k # i)
  OBVIOUS
<1> QED BY <1>1, <1>2 DEF RoutesInv

\* A page loaded anew.
LEMMA RoutesLoaded ==
    ASSUME page' \in {"blank", "away"}, roles' = FALSE, infos' = {}, overlapped' = FALSE,
           probing' = 0, fetches' \in Nat
    PROVE  RoutesInv'
<1>1. /\ infos' \subseteq Fetches /\ \A i \in infos' : FALSE
      /\ probing' \in Nat /\ ~(probing' > 0)
  OBVIOUS
<1>2. overlapped' \in BOOLEAN /\ page' # "app"
  OBVIOUS
<1> QED BY <1>1, <1>2 DEF RoutesInv

LEMMA RoutesStep == RoutesInv /\ [SignInNext]_signVars => RoutesInv'
<1> SUFFICES ASSUME RoutesInv, [SignInNext]_signVars PROVE RoutesInv'
  OBVIOUS
<1>0. overlapped \in BOOLEAN /\ probing \in Nat /\ fetches \in Nat /\ infos \subseteq Fetches
  BY DEF RoutesInv
<1>k. ASSUME UNCHANGED <<page, going, routes, roles, infos, overlapped, probing, fetches>>
      PROVE  RoutesInv'
  BY <1>k DEF RoutesInv
<1>1. CASE Start
  <2>1. /\ infos = {} /\ ~roles /\ probing = 0
        /\ UNCHANGED <<roles, routes, overlapped>>
    BY <1>1 DEF Start, RoutesInv
  <2>2. PICK to \in {"login", "logout", "app"} : Go(to, stored, {}, 0)
    BY <1>1 DEF Start
  <2>3. going # "info"
    BY <1>1 DEF Start
  <2> QED BY <1>0, <2>1, <2>2, <2>3, GoKeeps
<1>2. ASSUME NEW to \in {"login", "logout", "app"}, Visit(to) PROVE RoutesInv'
  BY <1>2, OverKeeps DEF Visit
<1>3. CASE LoginDone
  <2>1. UNCHANGED <<roles, routes>>
    BY <1>3 DEF LoginDone
  <2>2. CASE Go("app", stored', infos, probing) /\ Over
    BY <2>1, <2>2, OverKeeps
  <2>3. CASE Refused("app", infos, probing) /\ UNCHANGED <<going, overlapped>>
    BY <2>1, <2>3, <1>k DEF Refused
  <2> QED BY <1>3, <2>2, <2>3 DEF LoginDone
<1>4. CASE StrayAnswered
  <2>1. CASE Go("login", stored, infos, probing) /\ Over /\ UNCHANGED <<roles, routes>>
    BY <2>1, OverKeeps
  <2>2. CASE UNCHANGED <<page, going, infos, overlapped, roles, routes, probing, fetches>>
    BY <2>2, <1>k
  <2> QED BY <1>4, <2>1, <2>2 DEF StrayAnswered
<1>5. CASE NoticeAnswered
  <2>1. CASE Go("login", stored, infos, probing) /\ Over /\ UNCHANGED <<roles, routes>>
    BY <2>1, OverKeeps
  <2>2. CASE UNCHANGED <<page, going, infos, overlapped, roles, routes, probing, fetches>>
    BY <2>2, <1>k
  <2>3. CASE SignOn
    BY <1>0, <2>3, RoutesLoaded DEF SignOn
  <2> QED BY <1>5, <2>1, <2>2, <2>3 DEF NoticeAnswered
<1>6. CASE Reload \/ Back \/ ChooseSignOn \/ \E ok \in BOOLEAN : LogoutEnds(ok)
  <2>1. /\ page' \in {"blank", "away"} /\ roles' = FALSE /\ infos' = {} /\ overlapped' = FALSE
        /\ probing' = 0
    BY <1>6 DEF Reload, Back, ChooseSignOn, SignOn, LogoutEnds, Load
  <2>2. fetches' = 0 \/ fetches' = fetches
    BY <1>6 DEF Reload, Back, ChooseSignOn, SignOn, LogoutEnds, Load
  <2>3. fetches' \in Nat
    BY <1>0, <2>2
  <2> QED BY <2>1, <2>3, RoutesLoaded
<1>7. ASSUME NEW i \in infos, RoutesAdded(i) PROVE RoutesInv'
  <2>1. /\ routes' = TRUE /\ UNCHANGED <<roles, overlapped>> /\ i.perms = "got"
    BY <1>7 DEF RoutesAdded
  <2> DEFINE j == [i EXCEPT !.perms = "done"]
  <2>2. j \in Fetches /\ j.perms = "done"
    BY <1>0, <2>1 DEF Fetches, Info
  <2>3. Done(i) \subseteq (infos \ {i}) \cup {j}
    BY DEF Done
  <2> HIDE DEF j
  <2>4. CASE Go("app", stored, Done(i), probing)
    <3>1. ASSUME ~overlapped'
          PROVE  ~overlapped /\ probing = 0 /\ \A k \in Done(i) : k.perms \notin Pending
      <4>1. ~overlapped /\ i.perms \in Pending
        BY <2>1, <3>1 DEF Pending
      <4>2. going = "info" /\ \A k \in infos : k.perms \in Pending => k = i
        BY <4>1 DEF RoutesInv
      <4>3. j.perms \notin Pending
        BY <2>2 DEF Pending
      <4> QED BY <1>0, <2>3, <4>1, <4>2, <4>3 DEF RoutesInv
    <3> QED BY <1>0, <2>1, <2>2, <2>3, <2>4, <3>1, GoKeeps
  <2>5. CASE Refused("app", Done(i), probing) /\ UNCHANGED going
    <3>1. UNCHANGED <<page, going, overlapped, probing, fetches, roles>> /\ infos' = Done(i)
      BY <2>1, <2>5 DEF Refused
    <3>2. j.perms \notin Pending
      BY <2>2 DEF Pending
    <3>3. infos' \subseteq Fetches /\ going \notin {"start", "logout"}
      BY <2>2, <2>3, <3>1 DEF RoutesInv
    <3>4. \A k \in infos' : k = j \/ k \in infos
      BY <2>3, <3>1
    <3> QED BY <2>1, <3>1, <3>2, <3>3, <3>4 DEF RoutesInv
  <2> QED BY <1>7, <2>4, <2>5 DEF RoutesAdded
<1>8. ASSUME NEW i \in infos, Fetch(i) \/ Permit(i) \/ Person(i) PROVE RoutesInv'
  <2>1. UNCHANGED <<page, going, routes, overlapped, probing, fetches>>
    BY <1>8 DEF Fetch, Permit, Person, Answered, FetchFails, PermsCome, PermsFail, PersonComes,
       PersonFailsLate
  <2>2. i \in Fetches
    BY <1>0
  <2>3. PICK j \in Fetches : /\ infos' \subseteq (infos \ {i}) \cup {j}
                             /\ j.perms \in Pending => i.perms \in Pending
    <3>1. CASE Answered(i)
      <4> DEFINE j == [i EXCEPT !.user = "got", !.perms = "asked", !.person = "asked"]
      <4>1. j \in Fetches /\ i.perms \in Pending
        BY <2>2, <3>1 DEF Fetches, Info, Pending, Answered
      <4>2. Becomes2(i, j)
        BY <3>1 DEF Answered
      <4> HIDE DEF j
      <4> QED BY <4>1, <4>2 DEF Becomes2
    <3>2. CASE FetchFails(i)
      BY <2>2, <3>2 DEF FetchFails
    <3>3. CASE PersonFailsLate(i) \/ PersonComes(i)
      <4>1. [i EXCEPT !.person = "done"] \in Fetches /\ [i EXCEPT !.person = "done"].perms = i.perms
        BY <2>2 DEF Fetches, Info
      <4> QED BY <3>3, <4>1 DEF PersonFailsLate, PersonComes, Becomes2
    <3>4. CASE PermsCome(i)
      <4>1. /\ [i EXCEPT !.perms = "got"] \in Fetches
            /\ i.perms \in Pending
        BY <2>2, <3>4 DEF Fetches, Info, Pending, PermsCome
      <4> QED BY <3>4, <4>1 DEF PermsCome, Becomes2
    <3>5. CASE PermsFail(i)
      <4> DEFINE j == [i EXCEPT !.perms = IF @ = "asked" THEN "failed" ELSE "done"]
      <4>1. j \in Fetches /\ i.perms \in Pending
        BY <2>2, <3>5 DEF Fetches, Info, Pending, PermsFail
      <4>2. Becomes2(i, j)
        BY <3>5 DEF PermsFail
      <4> HIDE DEF j
      <4> QED BY <4>1, <4>2 DEF Becomes2
    <3> QED BY <1>8, <3>1, <3>2, <3>3, <3>4, <3>5 DEF Fetch, Permit, Person
  <2> QED BY <2>1, <2>3, FetchKeeps
<1>9. CASE MethodsCome
  <2>1. UNCHANGED <<routes, roles, overlapped>> /\ probing > 0 /\ probing - 1 \in Nat
    BY <1>0, <1>9 DEF MethodsCome
  <2>2. ASSUME ~overlapped
        PROVE  /\ going = "methods" /\ probing = 1 /\ \A i \in infos : i.perms \notin Pending
               /\ roles \/ infos # {} => routes
    BY <1>0, <2>1, <2>2 DEF RoutesInv
  <2>3. CASE Go(SignInPage, stored, infos, probing - 1)
    <3>1. SignInPage \in {"login", "logout"}
      BY DEF SignInPage
    <3>2. /\ page' = SignInPage /\ going' = "none" /\ infos' = infos /\ fetches' = fetches
          /\ probing' = probing - 1
      BY <2>3, <3>1 DEF Go, Guard
    <3> QED BY <2>1, <2>2, <3>1, <3>2 DEF RoutesInv
  <2>4. CASE /\ Refused(SignInPage, infos, probing - 1)
             /\ \/ going' = going /\ (going = "methods" => probing > 1)
                \/ going = "methods" /\ going' = "none"
    BY <2>1, <2>2, <2>4 DEF RoutesInv, Refused
  <2> QED BY <1>9, <2>3, <2>4 DEF MethodsCome
<1>10. CASE MethodsFail
  <2>1. /\ UNCHANGED <<page, going, routes, roles, infos, overlapped, fetches>>
        /\ probing > 0 /\ probing' = probing - 1 /\ probing' \in Nat
    BY <1>0, <1>10 DEF MethodsFail
  <2> QED BY <2>1 DEF RoutesInv
<1>11. CASE \/ Submit \/ LoginRefused \/ NoticeFails \/ SignOut \/ LogoutDue
            \/ Expire \/ UNCHANGED signVars
  <2>1. UNCHANGED <<page, going, routes, roles, infos, overlapped, probing, fetches>>
    BY <1>11 DEF Submit, LoginRefused, NoticeFails, SignOut, LogoutDue, Logout, Expire,
       signVars, loaded
  <2> QED BY <2>1, <1>k
<1> QED
  BY <1>1, <1>2, <1>3, <1>4, <1>5, <1>6, <1>7, <1>8, <1>9, <1>10, <1>11
  DEF SignInNext, Answers, UserSigns

\* A page behind the guard has its routes, as long as no navigation begins while
\* another waits, whatever is answered, fails, is lost or fires late.
THEOREM RoutesFirstHolds == SignInSpec => []RoutesFirst
<1>1. SignInInit => RoutesInv
  <2>1. 0 \in Nat /\ ~(0 > 0) /\ {} \subseteq Fetches
    OBVIOUS
  <2> QED BY <2>1 DEF SignInInit, RoutesInv
<1>2. RoutesInv => RoutesFirst
  BY DEF RoutesInv, RoutesFirst
<1> QED BY <1>1, <1>2, RoutesStep, PTL DEF SignInSpec
=============================================================================
