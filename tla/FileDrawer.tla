----------------------------- MODULE FileDrawer -----------------------------
(***************************************************************************)
(* The drawer of a terminal or desktop in which the files of the target    *)
(* are browsed, downloaded and uploaded                                    *)
(* (connect/fileManagement/fileManagementDrawer.vue, uploadFileModal.vue). *)
(*                                                                         *)
(* The drawer keeps the directory in two places: pathList, which downloads *)
(* and uploads go by, and the table.  A step into a directory sets         *)
(* pathList with the answer that fills the table, a step back sets it when *)
(* it asks, and a reload after an upload does not set it.                  *)
(***************************************************************************)
EXTENDS Naturals, SequencesExt

CONSTANTS
    Tree,       \* the directories of the target, as sequences of names
    Nowhere,    \* no directory: what an empty table shows
    MaxLoads,   \* bound on the requests for a directory
    MaxUploads  \* bound on the uploads

Names == UNION {{d[i] : i \in DOMAIN d} : d \in Tree}

ASSUME TreeIsRooted == <<>> \in Tree /\ \A d \in Tree : d # <<>> => Front(d) \in Tree
ASSUME NowhereIsNone == Nowhere \notin Tree
ASSUME BoundsAreNatural == MaxLoads \in Nat /\ MaxUploads \in Nat

VARIABLES
    visible,    \* the drawer is open
    path,       \* pathList
    shown,      \* the directory whose files the table shows
    selected,   \* the directory whose rows are selected
    loads,      \* requests for a directory not yet answered
    loading,    \* the spinner over path and table
    asked,      \* requests so far
    wanted,     \* the directory the user asked for last
    uploads,    \* what was handed to the browser for upload
    stale,      \* updateFileList waits for its second to pass
    fetched,    \* the last download: the directory named, and that of its rows
    disturbed   \* two requests were under way at once, or a step back failed, since the
                \* drawer was closed with none under way

drawer == <<visible, path, shown, selected, wanted>>
listing == <<loads, loading, asked, disturbed>>
transfers == <<uploads, stale, fetched>>
fileVars == <<drawer, listing, transfers>>

\* A request: whether pathList is set to its directory by the answer, and whether
\* it was set when a step back asked.
LoadRequest == [no : Nat, dir : Seq(Names), sets : BOOLEAN, back : BOOLEAN]
Upload == [no : Nat, dir : Seq(Names), status : {"uploading", "transmitting", "success", "error"}]

DrawerInit ==
    /\ visible = FALSE /\ path = <<>> /\ wanted = <<>>
    /\ shown = Nowhere /\ selected = Nowhere
    /\ loads = {} /\ loading = FALSE /\ asked = 0
    /\ uploads = {} /\ stale = FALSE
    /\ fetched = [dir |-> <<>>, of |-> <<>>]
    /\ disturbed = FALSE

\* getFileList(dir), or getFileList() when sets is FALSE.
GetFileList(dir, sets, back) ==
    /\ asked < MaxLoads /\ asked' = asked + 1
    /\ selected' = Nowhere
    /\ loading' = TRUE
    /\ loads' = loads \cup {[no |-> asked + 1, dir |-> dir, sets |-> sets, back |-> back]}
    /\ disturbed' = (disturbed \/ loads # {})

OpenDrawer ==
    /\ ~visible
    /\ visible' = TRUE /\ wanted' = <<>>
    /\ GetFileList(<<>>, TRUE, FALSE)
    /\ UNCHANGED <<path, shown, transfers>>

\* A slip: pathList is not set by the answer.
ListedUnset(l) ==
    /\ l.dir \in Tree
    /\ loads' = loads \ {l}
    /\ shown' = l.dir
    /\ loading' = FALSE
    /\ UNCHANGED <<visible, path, selected, wanted, asked, disturbed, transfers>>

\* The answer fills the table, of a drawer that was closed meanwhile too.
Listed(l) ==
    /\ l.dir \in Tree
    /\ loads' = loads \ {l}
    /\ shown' = l.dir
    /\ path' = IF l.sets THEN l.dir ELSE path
    /\ loading' = FALSE
    /\ UNCHANGED <<visible, selected, wanted, asked, disturbed, transfers>>

\* A request that fails leaves the table, and pathList as a step back had set it.
NotListed(l) ==
    /\ loads' = loads \ {l}
    /\ loading' = FALSE
    /\ wanted' = IF l.back THEN wanted ELSE path
    /\ disturbed' = (disturbed \/ l.back)
    /\ UNCHANGED <<visible, path, shown, selected, asked, transfers>>

\* The spinner's veil takes no clicks; the header with download and upload is
\* outside of it, and the keyboard reaches the input.
Free == visible /\ ~loading

\* clickPath: a row of the table.
StepInto(name) ==
    /\ Free /\ shown # Nowhere /\ Append(shown, name) \in Tree
    /\ wanted' = Append(path, name)
    /\ GetFileList(Append(path, name), TRUE, FALSE)
    /\ UNCHANGED <<visible, path, shown, transfers>>

StepBack ==
    /\ Free /\ path # <<>>
    /\ path' = Front(path)
    /\ wanted' = Front(path)
    /\ GetFileList(Front(path), FALSE, TRUE)
    /\ UNCHANGED <<visible, shown, transfers>>

\* Enter in the input (handleInputPressEnter); / gives one empty name, the root too.
EnterPath(dir) ==
    /\ visible
    /\ wanted' = dir
    /\ GetFileList(dir, TRUE, FALSE)
    /\ UNCHANGED <<visible, path, shown, transfers>>

\* The refresh button, and the switch for hidden files.
Relist ==
    /\ Free
    /\ GetFileList(path, FALSE, FALSE)
    /\ UNCHANGED <<visible, path, shown, wanted, transfers>>

SelectFiles ==
    /\ Free /\ shown # Nowhere
    /\ selected' = shown
    /\ UNCHANGED <<visible, path, shown, wanted, listing, transfers>>

\* batchDownloadFiles: the selected names, in the directory of pathList.
Download ==
    /\ visible /\ selected # Nowhere
    /\ fetched' = [dir |-> path, of |-> selected]
    /\ selected' = Nowhere
    /\ UNCHANGED <<visible, path, shown, wanted, listing, uploads, stale>>

CloseDrawer ==
    /\ visible
    /\ visible' = FALSE
    /\ path' = <<>> /\ shown' = Nowhere /\ selected' = Nowhere
    /\ loading' = FALSE
    /\ disturbed' = (loads # {})
    /\ UNCHANGED <<wanted, loads, asked, transfers>>

\* The component is destroyed with its tab: answers still to come concern nobody.
DrawerGone ==
    /\ visible' = FALSE /\ path' = <<>> /\ wanted' = <<>>
    /\ shown' = Nowhere /\ selected' = Nowhere
    /\ loads' = {} /\ loading' = FALSE /\ disturbed' = FALSE
    /\ uploads' = {} /\ stale' = FALSE
    /\ fetched' = [dir |-> <<>>, of |-> <<>>]
    /\ UNCHANGED asked

-----------------------------------------------------------------------------
(* Uploads.                                                                *)

\* handleCustomRequest: to the directory of pathList.  An upload that the network
\* breaks off, or that nobody answers, says uploading for good.
StartUpload ==
    /\ visible /\ Cardinality(uploads) < MaxUploads
    /\ uploads' = uploads \cup
            {[no |-> Cardinality(uploads) + 1, dir |-> path, status |-> "uploading"]}
    /\ UNCHANGED <<drawer, listing, stale, fetched>>

Becomes(u, status) == uploads' = (uploads \ {u}) \cup {[u EXCEPT !.status = status]}

UnderWay(u) == u.status \in {"uploading", "transmitting"}

\* The browser has sent the last byte; the server goes on to the target.
Transmit(u) ==
    /\ u.status = "uploading"
    /\ Becomes(u, "transmitting")
    /\ UNCHANGED <<drawer, listing, stale, fetched>>

UploadDone(u) ==
    /\ UnderWay(u)
    /\ Becomes(u, "success")
    /\ stale' = (stale \/ u.dir = path)
    /\ UNCHANGED <<drawer, listing, fetched>>

UploadRefused(u) ==
    /\ UnderWay(u)
    /\ Becomes(u, "error")
    /\ UNCHANGED <<drawer, listing, stale, fetched>>

\* updateFileList, at most once a second: the directory of pathList again.
RelistAfterUpload ==
    /\ stale
    /\ stale' = FALSE
    /\ GetFileList(path, FALSE, FALSE)
    /\ UNCHANGED <<visible, path, shown, wanted, uploads, fetched>>

-----------------------------------------------------------------------------

FileAnswers ==
    \/ \E l \in loads : Listed(l) \/ NotListed(l)
    \/ \E u \in uploads : Transmit(u) \/ UploadDone(u) \/ UploadRefused(u)
    \/ RelistAfterUpload

Browse ==
    \/ \E n \in Names : StepInto(n)
    \/ StepBack \/ Relist \/ SelectFiles \/ Download \/ CloseDrawer \/ StartUpload
    \/ \E d \in Tree : EnterPath(d)

DrawerTypeOK ==
    /\ {visible, loading, stale, disturbed} \subseteq BOOLEAN
    /\ {path, wanted} \subseteq Seq(Names)
    /\ {shown, selected} \subseteq Tree \cup {Nowhere}
    /\ loads \subseteq LoadRequest /\ asked \in Nat
    /\ uploads \subseteq Upload
    /\ fetched \in [dir : Seq(Names), of : Tree]

\* A drawer at rest shows the directory that downloads and uploads go by, unless
\* two requests were under way at once or a step back failed: table and pathList
\* are set by different steps, at the request or at the answer (getFileList,
\* clickPathBack).
DirectoryShown ==
    (visible /\ loads = {} /\ ~disturbed /\ shown # Nowhere) =>
        shown = path /\ path = wanted

\* A download names files of the directory it names.  The code does not give it:
\* two answers that overlap, or a step back that fails, part path and table.
DownloadsOwn == fetched.dir = fetched.of
=============================================================================
