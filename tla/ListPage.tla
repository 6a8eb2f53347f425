------------------------------ MODULE ListPage ------------------------------
(***************************************************************************)
(* A list page of the web interface (src/oneterm-ui): a search box, a      *)
(* table filled from the server, a pager, operations on one row and on the *)
(* selected rows, and the dialog that creates or edits a record.           *)
(*                                                                         *)
(* Some thirty pages are written on this plan, each by hand, and they      *)
(* differ where it matters: when the page number changes, which page a     *)
(* reload asks for, whether a failed load clears the spinner, what a batch *)
(* reads while it runs, how a dialog is locked.  A page is therefore a     *)
(* record of those choices (UIPages.tla has one per page, translated from  *)
(* that page's template and script), and this module is what all of them   *)
(* do.  Everything asynchronous is explicit: a load, a call on a row, a    *)
(* step of a batch and a save are answered by actions of their own, in any *)
(* order, successfully or not.                                             *)
(***************************************************************************)
EXTENDS Naturals, FiniteSets

CONSTANTS
    Pages,      \* the pages: a set of records of type Profile
    Records,    \* identifiers of records, ordered as the server lists them
    Stored,     \* the records that exist at the start
    Queries,    \* what the search box and the filters can say
    NoFilter,   \* the empty search box
    Hits,       \* Hits[q]: the records that answer query q
    PageSize,   \* rows of a page
    MaxOps      \* bound on what the user does

\* What makes a page load its list again.
Reasons == {"filter", "search", "refresh", "delete", "toggle", "batch", "save"}

(***************************************************************************)
(* pageSet  when the pager's number is assigned: with the request, with    *)
(*          the answer, or both times;                                     *)
(* pager    offers the numbers of pages, or steps to the one before and    *)
(*          the one after (components/Pager), or there is none;            *)
(* reload   for each reason the page it asks for: the first one, the one   *)
(*          the pager shows, or "none" when that reason loads nothing;     *)
(* spins    the loading flag covers the whole page, the table, nothing;    *)
(* sends    a load sends what the search box says, or what was searched    *)
(*          for last, into which a search merges what the box says;        *)
(* clears   the flag is cleared by every answer, or by a successful one;   *)
(* flagsDelete  deleting a row sets the flag and clears it at the end;     *)
(* flags    every load sets the flag, or the first one of the page only;   *)
(* ops      the operations the template offers;                            *)
(* batch    for each batch what its loop goes by: the live selection, or a *)
(*          copy of it ("broken": it throws before its first call, "none": *)
(*          the page has no such batch);                                   *)
(* drops    the loads that drop the selection.                             *)
(***************************************************************************)
Profile ==
    [pageSet : {"request", "answer", "both"},
     pager : {"numbers", "steps", "none"},
     reload : [Reasons -> {"first", "kept", "none"}],
     spins : {"page", "table", "nothing"},
     flags : {"every", "first"},
     clears : {"always", "success"},
     sends : {"box", "merged"},
     flagsDelete : BOOLEAN,
     ops : SUBSET {"refresh", "reset", "select", "export", "delete", "toggle", "create", "edit"},
     batch : [{"delete", "toggle"} -> {"live", "copy", "broken", "none"}],
     drops : SUBSET (Reasons \cup {"turn"})]

ASSUME PagesAreProfiles == Pages \subseteq Profile
\* A page with a Reset button has a search, whose reload Reset shares.
ASSUME ResetSearches ==
    \A v \in Pages : "reset" \in v.ops => v.reload.search # "none"
\* A page that merges what the box says into the last search loads by a search
\* only, never at once.
ASSUME MergingSearches ==
    \A v \in Pages : v.sends = "merged" =>
        v.reload.search # "none" /\ v.reload.filter = "none"
ASSUME RecordsAreOrdered ==
    Records \subseteq Nat /\ IsFiniteSet(Records) /\ Stored \subseteq Records
ASSUME NoFilterIsQuery == NoFilter \in Queries
ASSUME HitsAreRecords == Hits \in [Queries -> SUBSET Records]
ASSUME SizesAreNatural == PageSize \in Nat \ {0} /\ MaxOps \in Nat

New == 0
ASSUME NewIsNoRecord == New \notin Records

VARIABLES
    view,       \* the page that is open, chosen once
    server,     \* the records that exist
    query,      \* what the search box says
    params,     \* what was searched for last
    page,       \* the pager's current page
    table,      \* the answer the table shows
    loads,      \* list requests not yet answered
    calls,      \* delete and switch calls on one row not yet answered
    loading,    \* the loading flag
    selected,   \* selectedRowKeys
    batch,      \* the batch that runs, if any
    dialog,     \* a dialog lies over the page
    saves,      \* its saves not yet answered
    ops,        \* user operations so far
    issued,     \* list requests so far
    overtaken   \* some answer to a load came before an older one's

pageVars == <<query, params, page, table, loads, loading, issued, overtaken>>
rowVars == <<calls, selected, batch>>
dialogVars == <<dialog, saves>>
vars == <<view, server, ops, pageVars, rowVars, dialogVars>>

Load ==
    [no : Nat, query : Queries, page : Nat, reason : Reasons \cup {"turn"},
     served : BOOLEAN, rows : SUBSET Records, total : Nat]

\* Types, and what the controls can mean: a batch runs on a page that has one,
\* a call is for an operation the page offers, the selection is of known records.
TypeOK ==
    /\ view \in Pages
    /\ server \subseteq Records
    /\ query \in Queries /\ params \in Queries
    /\ page \in Nat
    /\ table \in Load
    /\ loads \subseteq Load
    /\ \A l \in loads : l.no <= issued
    /\ calls \subseteq [kind : {"delete", "toggle"}, id : Records]
    /\ loading \in BOOLEAN
    /\ selected \subseteq Records
    /\ batch \in [kind : {"delete", "toggle"}, running : BOOLEAN, asks : BOOLEAN,
                  at : Nat, item : Records \cup {New}, copy : SUBSET Records,
                  agreed : SUBSET Records]
    /\ batch.running => batch.item \in Records
    /\ dialog \in BOOLEAN
    /\ saves \subseteq [new : BOOLEAN, no : Nat]
    /\ ops \in Nat /\ issued \in Nat
    /\ overtaken \in BOOLEAN

-----------------------------------------------------------------------------
(* What the server answers.                                                *)

\* The place of r among the records of S, counted from 1.
Rank(r, S) == Cardinality({x \in S : x <= r})

\* Page p of the records that answer q.
RowsOf(q, p, srv) ==
    LET S == srv \cap Hits[q]
    IN  {r \in S : (p - 1) * PageSize < Rank(r, S) /\ Rank(r, S) <= p * PageSize}

\* The member of S at index i, counted from 0; New past the end.
At(S, i) ==
    IF i < Cardinality(S) THEN CHOOSE r \in S : Rank(r, S) = i + 1 ELSE New

-----------------------------------------------------------------------------
(* Loading the list (updateTableData, searchData, loadData, ...).          *)

PageFor(reason) == IF view.reload[reason] = "first" THEN 1 ELSE page

\* The request is made: with it, or only with its answer, goes the number.
Ask(reason, q, p) ==
    /\ issued' = issued + 1
    /\ loads' = loads \cup {[no |-> issued + 1, query |-> q, page |-> p,
                             reason |-> reason, served |-> FALSE,
                             rows |-> {}, total |-> 0]}
    /\ page' = IF view.pageSet = "answer" THEN page ELSE p

\* Outside a batch, which drops the selection itself.
Request(reason, q, p) ==
    /\ Ask(reason, q, p)
    /\ selected' = IF reason \in view.drops THEN {} ELSE selected

\* What every other load asks for.
Sent == IF view.sends = "box" THEN query ELSE params

Flagged(flag) == view.flags = "every" \/ flag

\* A handler that ends by loading the list again, or does not.
Reload(reason, q, flag) ==
    IF view.reload[reason] = "none"
    THEN /\ loading' = flag
         /\ UNCHANGED <<issued, loads, page, selected>>
    ELSE /\ Request(reason, q, PageFor(reason))
         /\ loading' = Flagged(flag)

NoBatch == [kind |-> "delete", running |-> FALSE, asks |-> FALSE, at |-> 0,
            item |-> New, copy |-> {}, agreed |-> {}]

Init ==
    /\ view \in Pages
    /\ server = Stored
    /\ query \in IF view.sends = "box" THEN Queries ELSE {NoFilter}
    /\ params = NoFilter
    /\ page = 1
    /\ table = [no |-> 0, query |-> query, page |-> 1, reason |-> "refresh",
                served |-> TRUE, rows |-> {}, total |-> 0]
    /\ loads = {[no |-> 1, query |-> query, page |-> 1, reason |-> "refresh",
                 served |-> FALSE, rows |-> {}, total |-> 0]}
    /\ issued = 1
    /\ loading = TRUE
    /\ calls = {} /\ selected = {} /\ saves = {}
    /\ batch = NoBatch
    /\ dialog = FALSE
    /\ ops = 0
    /\ overtaken = FALSE

\* The server computes the answer of a request.
Serve(l) ==
    /\ ~l.served
    /\ LET S == server \cap Hits[l.query]
       IN  loads' = (loads \ {l}) \cup
                    {[l EXCEPT !.served = TRUE,
                               !.rows = RowsOf(l.query, l.page, server),
                               !.total = Cardinality(S)]}
    /\ UNCHANGED <<view, server, ops, query, params, page, table, loading, issued,
                   overtaken, rowVars, dialogVars>>

\* A slip: the page number of the answer is dropped.
LoadAnsweredUnpaged(l) ==
    /\ l.served
    /\ loads' = loads \ {l}
    /\ table' = l
    /\ loading' = FALSE
    /\ overtaken' = (overtaken \/ \E k \in loads : k.no < l.no)
    /\ UNCHANGED <<view, server, ops, query, params, page, issued, rowVars, dialogVars>>

\* The answer arrives: nothing asks whether it is the one to the last request.
LoadAnswered(l) ==
    /\ l.served
    /\ loads' = loads \ {l}
    /\ table' = l
    /\ page' = IF view.pageSet = "request" THEN page ELSE l.page
    /\ loading' = FALSE
    /\ overtaken' = (overtaken \/ \E k \in loads : k.no < l.no)
    /\ UNCHANGED <<view, server, ops, query, params, issued, rowVars, dialogVars>>

\* A slip: the flag is cleared in then instead of finally.
LoadFailedVeiled(l) ==
    /\ loads' = loads \ {l}
    /\ overtaken' = TRUE
    /\ UNCHANGED <<view, server, ops, query, params, page, table, loading, issued,
                   rowVars, dialogVars>>

\* The request fails: the table stays as it is.
LoadFailed(l) ==
    /\ loads' = loads \ {l}
    /\ loading' = IF view.clears = "always" THEN FALSE ELSE loading
    /\ overtaken' = TRUE
    /\ UNCHANGED <<view, server, ops, query, params, page, table, issued, rowVars,
                   dialogVars>>

-----------------------------------------------------------------------------
(* What the user does.                                                     *)

\* The user's steps count, except those on the checkboxes and Cancel.  The
\* confirmation of a batch and the dialog lie over the page.
Counted == ops < MaxOps /\ ops' = ops + 1
Reachable == ~batch.asks /\ ~dialog
\* The spinner's veil takes no clicks; the keyboard still reaches the search.
PageFree == Reachable /\ ~(view.spins = "page" /\ loading)
TableFree == Reachable /\ ~(view.spins \in {"page", "table"} /\ loading)

\* The search text changes; Enter will load.
Type(q) ==
    /\ Reachable /\ view.reload.search # "none" /\ q # query
    /\ query' = q
    /\ Counted
    /\ UNCHANGED <<view, server, params, page, table, loads, loading, issued,
                   overtaken, rowVars, dialogVars>>

\* A filter, a node of the tree or a text that is watched: it loads at once.
Filter(q) ==
    /\ PageFree /\ view.reload.filter # "none" /\ q # query
    /\ query' = q
    /\ Reload("filter", q, loading)
    /\ Counted
    /\ UNCHANGED <<view, server, params, table, overtaken, calls, batch, dialogVars>>

\* The box is merged over the last search: what it no longer says is still sent.
Merged == IF query = NoFilter THEN params ELSE query

Search ==
    /\ Reachable /\ view.reload.search # "none"
    /\ LET q == IF view.sends = "box" THEN query ELSE Merged
       IN  /\ Reload("search", q, loading)
           /\ params' = IF view.sends = "box" THEN params ELSE q
    /\ Counted
    /\ UNCHANGED <<view, server, query, table, overtaken, calls, batch, dialogVars>>

\* Reset empties the box and forgets the last search.
Reset ==
    /\ Reachable /\ "reset" \in view.ops
    /\ query' = NoFilter /\ params' = NoFilter
    /\ Reload("search", NoFilter, loading)
    /\ Counted
    /\ UNCHANGED <<view, server, table, overtaken, calls, batch, dialogVars>>

Refresh ==
    /\ PageFree /\ "refresh" \in view.ops
    /\ Reload("refresh", Sent, loading)
    /\ Counted
    /\ UNCHANGED <<view, server, query, params, table, overtaken, calls, batch, dialogVars>>

\* The pages the pager offers: those of the answer the table shows, or the next
\* one while the table is full, none of these while a load runs.
Offered(p) ==
    \/ /\ view.pager = "numbers"
       /\ p # page /\ (p - 1) * PageSize < table.total
    \/ /\ view.pager = "steps" /\ ~loading
       /\ \/ p + 1 = page
          \/ p = page + 1 /\ Cardinality(table.rows) >= PageSize

Turn(p) ==
    /\ PageFree /\ Offered(p)
    /\ Request("turn", Sent, p)
    /\ loading' = Flagged(loading)
    /\ Counted
    /\ UNCHANGED <<view, server, query, params, table, overtaken, calls, batch, dialogVars>>

\* A row's checkbox; rows selected on other pages stay selected.
Select(r) ==
    /\ TableFree /\ "select" \in view.ops /\ r \in table.rows
    /\ selected' = IF r \in selected THEN selected \ {r} ELSE selected \cup {r}
    /\ UNCHANGED <<view, server, ops, pageVars, calls, batch, dialogVars>>

\* Export writes a file from the selected rows and drops the selection.
Export ==
    /\ PageFree /\ "export" \in view.ops /\ selected # {}
    /\ selected' = {}
    /\ Counted
    /\ UNCHANGED <<view, server, pageVars, calls, batch, dialogVars>>

\* Delete, after its own confirmation, and the switches in a row.
CallRow(kind, r) ==
    /\ TableFree /\ kind \in view.ops /\ r \in table.rows
    /\ [kind |-> kind, id |-> r] \notin calls
    /\ calls' = calls \cup {[kind |-> kind, id |-> r]}
    /\ loading' = IF kind = "delete" /\ view.flagsDelete THEN TRUE ELSE loading
    /\ Counted
    /\ UNCHANGED <<view, server, query, params, page, table, loads, issued, overtaken,
                   selected, batch, dialogVars>>

DeleteRow(r) == CallRow("delete", r)
Toggle(r) == CallRow("toggle", r)

\* The flag as the call's finally leaves it: it does not wait for the reload.
AfterDelete(asked) == IF view.flagsDelete THEN FALSE ELSE asked

CallDone(c) ==
    /\ calls' = calls \ {c}
    /\ server' = IF c.kind = "delete" THEN server \ {c.id} ELSE server
    /\ IF view.reload[c.kind] = "none"
       THEN UNCHANGED <<issued, loads, page, selected>>
       ELSE Request(c.kind, Sent, PageFor(c.kind))
    /\ LET asked == IF view.reload[c.kind] = "none" THEN loading ELSE Flagged(loading)
       IN  loading' = IF c.kind = "delete" THEN AfterDelete(asked) ELSE asked
    /\ UNCHANGED <<view, query, params, table, overtaken, ops, batch, dialogVars>>

CallFailed(c) ==
    /\ calls' = calls \ {c}
    /\ loading' = IF c.kind = "delete" THEN AfterDelete(loading) ELSE loading
    /\ UNCHANGED <<view, server, query, params, page, table, loads, issued, overtaken, ops,
                   selected, batch, dialogVars>>

-----------------------------------------------------------------------------
(* A batch over the selected rows, one call after another.                 *)

\* A slip: the copy is made and not used.
RemainingLive == selected

\* What the loop reads at each turn.
Remaining ==
    IF view.batch[batch.kind] = "live" THEN selected ELSE batch.copy

\* OK of the confirmation: the rows agreed to are those selected now.
BatchConfirm(kind) ==
    /\ PageFree /\ view.batch[kind] # "none" /\ selected # {} /\ ~batch.running
    /\ LET starts == view.batch[kind] # "broken"
       IN  /\ batch' = [kind |-> kind, running |-> starts, asks |-> TRUE, at |-> 0,
                         item |-> IF starts THEN At(selected, 0) ELSE New,
                         copy |-> selected, agreed |-> selected]
           /\ loading' = (loading \/ starts)
    /\ Counted
    /\ UNCHANGED <<view, server, query, params, page, table, loads, issued, overtaken,
                   calls, selected, dialogVars>>

\* The confirmation's Cancel closes it; the loop does not notice.
BatchCancel ==
    /\ batch.asks
    /\ batch' = [batch EXCEPT !.asks = FALSE]
    /\ UNCHANGED <<view, server, ops, pageVars, calls, selected, dialogVars>>

\* The answer for one row, and the next call or the end.
BatchStep(ok) ==
    /\ batch.running
    /\ server' = IF ok /\ batch.kind = "delete" THEN server \ {batch.item} ELSE server
    /\ LET next == At(Remaining, batch.at + 1)
       IN  IF next # New
           THEN /\ batch' = [batch EXCEPT !.at = @ + 1, !.item = next]
                /\ UNCHANGED <<pageVars, selected>>
           ELSE /\ batch' = NoBatch
                /\ selected' = {}
                /\ Ask("batch", Sent, PageFor("batch"))
                /\ loading' = TRUE
                /\ UNCHANGED <<query, params, table, overtaken>>
    /\ UNCHANGED <<view, ops, calls, dialogVars>>

-----------------------------------------------------------------------------
(* The dialog that creates a record or edits one (EditForm.tla has what     *)
(* happens inside it).                                                     *)

OpenDialog ==
    /\ ~dialog /\ Reachable
    /\ \/ PageFree /\ "create" \in view.ops
       \/ TableFree /\ "edit" \in view.ops /\ table.rows # {}
    /\ dialog' = TRUE
    /\ Counted
    /\ UNCHANGED <<view, server, pageVars, rowVars, saves>>

\* Cancel, which a save under way does not prevent.
CloseDialog ==
    /\ dialog
    /\ dialog' = FALSE
    /\ UNCHANGED <<view, server, ops, pageVars, rowVars, saves>>

Submit(new) ==
    /\ dialog /\ IF new THEN "create" \in view.ops ELSE "edit" \in view.ops
    /\ saves' = saves \cup {[new |-> new, no |-> ops]}
    /\ Counted
    /\ UNCHANGED <<view, server, pageVars, rowVars, dialog>>

\* Success: the dialog closes, whichever opening it shows, and the list reloads.
SaveDone(s) ==
    /\ saves' = saves \ {s}
    /\ IF s.new /\ server # Records
       THEN \E r \in Records \ server : server' = server \cup {r}
       ELSE UNCHANGED server
    /\ dialog' = FALSE
    /\ Reload("save", Sent, loading)
    /\ UNCHANGED <<view, query, params, table, overtaken, calls, batch, ops>>

SaveFailed(s) ==
    /\ saves' = saves \ {s}
    /\ UNCHANGED <<view, server, pageVars, rowVars, ops, dialog>>

-----------------------------------------------------------------------------

Answers ==
    \/ \E l \in loads : Serve(l) \/ LoadAnswered(l) \/ LoadFailed(l)
    \/ \E c \in calls : CallDone(c) \/ CallFailed(c)
    \/ \E ok \in BOOLEAN : BatchStep(ok)
    \/ \E s \in saves : SaveDone(s) \/ SaveFailed(s)

User ==
    \/ \E q \in Queries : Type(q) \/ Filter(q)
    \/ Search \/ Reset \/ Refresh \/ Export \/ \E p \in 1..(Cardinality(Records) + 1) : Turn(p)
    \/ \E r \in table.rows : Select(r) \/ DeleteRow(r) \/ Toggle(r)
    \/ (\E kind \in {"delete", "toggle"} : BatchConfirm(kind)) \/ BatchCancel
    \/ OpenDialog \/ CloseDialog \/ (\E new \in BOOLEAN : Submit(new))

Next == Answers \/ User

\* The server or the network answers every call in the end (axios settles its
\* promise); nothing is assumed of the user.
Fairness == WF_vars(Answers)
Spec == Init /\ [][Next]_vars /\ Fairness

-----------------------------------------------------------------------------
(* Properties.                                                             *)

\* Nothing is under way that could still change the page.
Quiet == loads = {} /\ calls = {} /\ saves = {} /\ ~batch.running

\* A page whose loads clear the flag whatever the answer never spins for ever:
\* with nothing under way the veil is gone, whichever of a load, a delete and a
\* batch set the flag and in whatever order they ended (updateTableData's and
\* deleteGateway's finally, the end of batchDelete).
SpinnerEnds == (view.clears = "always" /\ Quiet) => ~loading

\* When all loads are answered, in order, the table shows the last one asked
\* for and the pager the page that was asked for, although page and table are
\* set by different steps (pageOrSizeChange, updateTableData).
LatestShown ==
    (loads = {} /\ ~overtaken) =>
        /\ table.no = issued
        /\ table.page = page
        /\ view.reload.search = "none" => table.query = query
        /\ view.sends = "merged" => table.query = params

\* What every search should give: it asks for what the box says.  The tables of
\* the history do not: a filter that is emptied is still sent (handleSearch).
SearchSendsBox ==
    [][\A l \in loads' \ loads : l.reason = "search" /\ ~l.served => l.query = query']_vars

\* A batch that goes by a copy of the selection calls only for rows the user
\* had agreed to, although the confirmation can be cancelled and the selection
\* changed while it runs (batchChangeEnabled).
BatchAgreed ==
    (batch.running /\ view.batch[batch.kind] = "copy") => batch.item \in batch.agreed

\* A batch that was confirmed ends, whatever its calls answer and whatever the
\* user does to the selection meanwhile (batchDelete, batchChangeEnabled).
BatchEnds == batch.agreed # {} ~> batch.agreed = {}
=============================================================================
