------------------------------ MODULE UIPages ------------------------------
(***************************************************************************)
(* The list pages of src/oneterm-ui, one after another.  Three definitions *)
(* say how a page makes the choices of ListPage: its Controls are read     *)
(* from the template, its Loads from the methods that fill the table, its  *)
(* Rows from those that call for one row or for the selected ones.         *)
(***************************************************************************)
EXTENDS ListPage, TLC

\* For each reason, which page it asks for: the first, the present one, or the
\* page has no such reload.
Reloads(first, kept) ==
    [x \in Reasons |-> IF x \in first THEN "first"
                       ELSE IF x \in kept THEN "kept" ELSE "none"]

Page(controls, methods, rows) == controls @@ methods @@ rows

\* A page without operations on rows.
ReadOnly == [flagsDelete |-> FALSE, batch |-> [delete |-> "none", toggle |-> "none"]]

\* A delete that sets the flag, a batch that goes by the live selection.
DeletesLive == [flagsDelete |-> TRUE, batch |-> [delete |-> "live", toggle |-> "none"]]

\* The same with a batch of switches, which copies the selection first.
DeletesAndToggles == [flagsDelete |-> TRUE, batch |-> [delete |-> "live", toggle |-> "copy"]]

\* A call whose answer reloads and that touches no flag.
BareCalls == [flagsDelete |-> FALSE, batch |-> [delete |-> "none", toggle |-> "none"]]

-----------------------------------------------------------------------------
(* Assets: accounts, gateways, the list of assets.                         *)

AccountControls ==
    [pager |-> "numbers", spins |-> "page",
     ops |-> {"refresh", "select", "delete", "create", "edit"}]
AccountLoads ==
    [pageSet |-> "answer", flags |-> "every", clears |-> "always",
     sends |-> "box", drops |-> {},
     reload |-> Reloads({"search", "refresh", "delete", "batch", "save"}, {})]
AccountRows == DeletesLive

GatewayControls ==
    [pager |-> "numbers", spins |-> "page",
     ops |-> {"refresh", "select", "delete", "create", "edit"}]
GatewayLoads ==
    [pageSet |-> "answer", flags |-> "every", clears |-> "always",
     sends |-> "box", drops |-> {},
     reload |-> Reloads({"search", "refresh", "delete", "batch", "save"}, {})]
GatewayRows == DeletesLive

\* A node of the tree filters the assets; Refresh drops the node, which is a
\* Filter like any other, and both drop the selection.
AssetControls ==
    [pager |-> "numbers", spins |-> "table",
     ops |-> {"select", "delete", "create", "edit"}]
AssetLoads ==
    [pageSet |-> "answer", flags |-> "every", clears |-> "always",
     sends |-> "box", drops |-> {"filter"},
     reload |-> Reloads({"filter", "search", "delete"}, {"save"})]
AssetRows == [flagsDelete |-> TRUE, batch |-> [delete |-> "none", toggle |-> "none"]]

-----------------------------------------------------------------------------
(* Access: commands, their templates, times, authorizations.               *)

CommandControls ==
    [pager |-> "numbers", spins |-> "page",
     ops |-> {"refresh", "select", "delete", "toggle", "create", "edit"}]
CommandLoads ==
    [pageSet |-> "request", flags |-> "every", clears |-> "always",
     sends |-> "box", drops |-> {},
     reload |-> Reloads({}, Reasons)]
CommandRows == DeletesAndToggles

TemplateControls ==
    [pager |-> "numbers", spins |-> "page",
     ops |-> {"refresh", "select", "delete", "create", "edit"}]
TemplateLoads ==
    [pageSet |-> "request", flags |-> "every", clears |-> "always",
     sends |-> "box", drops |-> {},
     reload |-> Reloads({}, Reasons \ {"toggle"})]
TemplateRows == DeletesLive

TimeControls ==
    [pager |-> "numbers", spins |-> "page",
     ops |-> {"refresh", "select", "delete", "toggle", "create", "edit"}]
TimeLoads ==
    [pageSet |-> "request", flags |-> "every", clears |-> "always",
     sends |-> "box", drops |-> {},
     reload |-> Reloads({}, Reasons)]
TimeRows == DeletesAndToggles

AuthControls ==
    [pager |-> "numbers", spins |-> "page",
     ops |-> {"refresh", "select", "delete", "toggle", "create", "edit"}]
AuthLoads ==
    [pageSet |-> "request", flags |-> "every", clears |-> "always",
     sends |-> "box", drops |-> {},
     reload |-> Reloads({}, Reasons \ {"filter"})]
AuthRows == DeletesAndToggles

-----------------------------------------------------------------------------
(* System settings: public keys, quick commands, where recordings go.      *)

\* The batch deletion throws before its first call: "this" is not the page there.
PublicKeyControls ==
    [pager |-> "numbers", spins |-> "page",
     ops |-> {"refresh", "select", "delete", "create", "edit"}]
PublicKeyLoads ==
    [pageSet |-> "request", flags |-> "every", clears |-> "always",
     sends |-> "box", drops |-> {},
     reload |-> Reloads({}, {"search", "refresh", "delete", "batch", "save"})]
PublicKeyRows == [flagsDelete |-> TRUE, batch |-> [delete |-> "broken", toggle |-> "none"]]

QuickCommandControls ==
    [pager |-> "numbers", spins |-> "page",
     ops |-> {"refresh", "select", "delete", "create", "edit"}]
QuickCommandLoads ==
    [pageSet |-> "request", flags |-> "every", clears |-> "always",
     sends |-> "box", drops |-> {},
     reload |-> Reloads({"save"}, {"search", "refresh", "delete", "batch"})]
QuickCommandRows == DeletesLive

\* The drawer of the terminal that offers them: its flag is shown nowhere.
CommandDrawerControls == [pager |-> "numbers", spins |-> "nothing", ops |-> {}]
CommandDrawerLoads ==
    [pageSet |-> "request", flags |-> "every", clears |-> "always",
     sends |-> "box", drops |-> {},
     reload |-> Reloads({}, {"search"})]

RecordingControls ==
    [pager |-> "numbers", spins |-> "page",
     ops |-> {"refresh", "select", "delete", "toggle", "create", "edit"}]
RecordingLoads ==
    [pageSet |-> "request", flags |-> "every", clears |-> "always",
     sends |-> "box", drops |-> {},
     reload |-> Reloads({"save"}, {"search", "refresh", "delete", "toggle", "batch"})]
RecordingRows == DeletesLive

-----------------------------------------------------------------------------
(* Sessions and logs.                                                      *)

\* Disconnecting a session takes it off the list of those online.
SessionControls ==
    [pager |-> "numbers", spins |-> "table", ops |-> {"refresh", "select", "delete"}]
SessionLoads ==
    [pageSet |-> "answer", flags |-> "every", clears |-> "always",
     sends |-> "box", drops |-> {},
     reload |-> Reloads({"search", "refresh", "delete"}, {})]
SessionRows == [flagsDelete |-> TRUE, batch |-> [delete |-> "none", toggle |-> "none"]]

SessionDetailControls == [pager |-> "numbers", spins |-> "nothing", ops |-> {}]
SessionDetailLoads ==
    [pageSet |-> "answer", flags |-> "every", clears |-> "always",
     sends |-> "box", drops |-> {},
     reload |-> Reloads({"search"}, {})]

RecentSessionControls == [pager |-> "numbers", spins |-> "table", ops |-> {}]
RecentSessionLoads ==
    [pageSet |-> "answer", flags |-> "every", clears |-> "always",
     sends |-> "box", drops |-> {},
     reload |-> Reloads({}, {})]

\* The range of time is a filter of each log.
OperationLogControls ==
    [pager |-> "numbers", spins |-> "page", ops |-> {"refresh", "select", "export"}]
OperationLogLoads ==
    [pageSet |-> "both", flags |-> "every", clears |-> "always",
     sends |-> "box", drops |-> {},
     reload |-> Reloads({"filter", "search", "refresh"}, {})]

FileLogControls ==
    [pager |-> "numbers", spins |-> "page", ops |-> {"refresh", "select", "export"}]
FileLogLoads ==
    [pageSet |-> "request", flags |-> "every", clears |-> "always",
     sends |-> "box", drops |-> {},
     reload |-> Reloads({"filter"}, {"search", "refresh"})]

LoginLogControls ==
    [pager |-> "steps", spins |-> "page", ops |-> {"refresh", "select", "export"}]
LoginLogLoads ==
    [pageSet |-> "request", flags |-> "every", clears |-> "always",
     sends |-> "box", drops |-> {},
     reload |-> Reloads({"filter", "refresh"}, {"search"})]

\* The assets of the workstation: a node of the tree filters them.
WorkAssetControls == [pager |-> "numbers", spins |-> "table", ops |-> {"refresh"}]
WorkAssetLoads ==
    [pageSet |-> "request", flags |-> "every", clears |-> "always",
     sends |-> "box", drops |-> {},
     reload |-> Reloads({"filter"}, {"search", "refresh"})]

-----------------------------------------------------------------------------
(* Access control: the flag is cleared by an answer, not by a failure,      *)
(* except on the page of roles.                                            *)

\* A tab, or the search text when it is emptied, filters; the tab drops the
\* selection.
ResourceControls ==
    [pager |-> "numbers", spins |-> "table",
     ops |-> {"select", "delete", "create", "edit"}]
ResourceLoads ==
    [pageSet |-> "both", flags |-> "every", clears |-> "success", sends |-> "box", drops |-> {"filter"},
     reload |-> Reloads({"filter", "search", "delete", "save"}, {})]
ResourceRows == BareCalls

ResourceTypeControls ==
    [pager |-> "numbers", spins |-> "table", ops |-> {"delete", "create", "edit"}]
ResourceTypeLoads ==
    [pageSet |-> "both", flags |-> "every", clears |-> "success", sends |-> "box", drops |-> {},
     reload |-> Reloads({"filter", "search"}, {"delete", "save"})]
ResourceTypeRows == BareCalls

RoleControls ==
    [pager |-> "numbers", spins |-> "table", ops |-> {"delete", "create", "edit"}]
RoleLoads ==
    [pageSet |-> "request", flags |-> "every", clears |-> "always",
     sends |-> "box", drops |-> {},
     reload |-> Reloads({"filter", "search"}, {"delete", "save"})]
RoleRows == BareCalls

\* Users, triggers and applications come whole and are searched in the browser.
UserControls ==
    [pager |-> "none", spins |-> "table", ops |-> {"delete", "create", "edit"}]
UserLoads ==
    [pageSet |-> "request", flags |-> "first", clears |-> "success", sends |-> "box", drops |-> {},
     reload |-> Reloads({"delete", "save"}, {})]
UserRows == BareCalls

TriggerControls ==
    [pager |-> "none", spins |-> "nothing", ops |-> {"delete", "create", "edit"}]
TriggerLoads ==
    [pageSet |-> "request", flags |-> "first", clears |-> "success", sends |-> "box", drops |-> {},
     reload |-> Reloads({"delete", "save"}, {})]
TriggerRows == BareCalls

AppControls ==
    [pager |-> "none", spins |-> "nothing", ops |-> {"delete", "create", "edit"}]
AppLoads ==
    [pageSet |-> "request", flags |-> "first", clears |-> "success", sends |-> "box", drops |-> {},
     reload |-> Reloads({"delete", "save"}, {})]
AppRows == BareCalls

-----------------------------------------------------------------------------
(* Settings: the employees of the company.  Every load drops the selection. *)

EmployeeControls ==
    [pager |-> "numbers", spins |-> "table", ops |-> {"select", "create", "edit"}]
EmployeeLoads ==
    [pageSet |-> "answer", flags |-> "every", clears |-> "success",
     sends |-> "box", drops |-> Reasons \cup {"turn"},
     reload |-> Reloads({"filter", "search", "save"}, {})]

-----------------------------------------------------------------------------
(* The history of permissions, roles, resources, their types and triggers,  *)
(* of one application and of all of them: ten tables over one search form.  *)

\* A pager of steps; the search form searches and resets, a switch in it reloads.
Steps == [pager |-> "steps", spins |-> "table", ops |-> {"refresh", "reset"}]

\* getTable: the flag is cleared in finally.
Steady == [pageSet |-> "request", flags |-> "every", clears |-> "always", drops |-> {}]

\* handleSearch merges the form over what was searched for before.
Merges == [sends |-> "merged", reload |-> Reloads({"search", "refresh"}, {})]

PermissionHistoryControls == Steps
PermissionHistoryLoads == Steady
PermissionHistoryHandlers == Merges

RoleHistoryControls == Steps
RoleHistoryLoads == Steady
RoleHistoryHandlers == Merges

ResourceHistoryControls == Steps
ResourceHistoryLoads == Steady
ResourceHistoryHandlers == Merges

ResourceTypeHistoryControls == Steps
ResourceTypeHistoryLoads == Steady
ResourceTypeHistoryHandlers == Merges

TriggerHistoryControls == Steps
TriggerHistoryLoads == Steady
TriggerHistoryHandlers == Merges

PermissionChangesControls == Steps
PermissionChangesLoads == Steady
PermissionChangesHandlers == Merges

RoleChangesControls == Steps
RoleChangesLoads == Steady
RoleChangesHandlers == Merges

ResourceChangesControls == Steps
ResourceChangesLoads == Steady
ResourceChangesHandlers == Merges

ResourceTypeChangesControls == Steps
ResourceTypeChangesLoads == Steady
ResourceTypeChangesHandlers == Merges

TriggerChangesControls == Steps
TriggerChangesLoads == Steady
TriggerChangesHandlers == Merges

-----------------------------------------------------------------------------

\* The ten tables of the history, whose searches merge.
MergingPages ==
    {Page(PermissionHistoryControls, PermissionHistoryLoads @@ PermissionHistoryHandlers, ReadOnly),
     Page(RoleHistoryControls, RoleHistoryLoads @@ RoleHistoryHandlers, ReadOnly),
     Page(ResourceHistoryControls, ResourceHistoryLoads @@ ResourceHistoryHandlers, ReadOnly),
     Page(ResourceTypeHistoryControls, ResourceTypeHistoryLoads @@ ResourceTypeHistoryHandlers, ReadOnly),
     Page(TriggerHistoryControls, TriggerHistoryLoads @@ TriggerHistoryHandlers, ReadOnly),
     Page(PermissionChangesControls, PermissionChangesLoads @@ PermissionChangesHandlers, ReadOnly),
     Page(RoleChangesControls, RoleChangesLoads @@ RoleChangesHandlers, ReadOnly),
     Page(ResourceChangesControls, ResourceChangesLoads @@ ResourceChangesHandlers, ReadOnly),
     Page(ResourceTypeChangesControls, ResourceTypeChangesLoads @@ ResourceTypeChangesHandlers, ReadOnly),
     Page(TriggerChangesControls, TriggerChangesLoads @@ TriggerChangesHandlers, ReadOnly)}

AllPages ==
    {Page(AccountControls, AccountLoads, AccountRows),
     Page(GatewayControls, GatewayLoads, GatewayRows),
     Page(AssetControls, AssetLoads, AssetRows),
     Page(CommandControls, CommandLoads, CommandRows),
     Page(TemplateControls, TemplateLoads, TemplateRows),
     Page(TimeControls, TimeLoads, TimeRows),
     Page(AuthControls, AuthLoads, AuthRows),
     Page(QuickCommandControls, QuickCommandLoads, QuickCommandRows),
     Page(CommandDrawerControls, CommandDrawerLoads, ReadOnly),
     Page(RecordingControls, RecordingLoads, RecordingRows),
     Page(SessionControls, SessionLoads, SessionRows),
     Page(SessionDetailControls, SessionDetailLoads, ReadOnly),
     Page(RecentSessionControls, RecentSessionLoads, ReadOnly),
     Page(OperationLogControls, OperationLogLoads, ReadOnly),
     Page(FileLogControls, FileLogLoads, ReadOnly),
     Page(LoginLogControls, LoginLogLoads, ReadOnly),
     Page(WorkAssetControls, WorkAssetLoads, ReadOnly),
     Page(ResourceControls, ResourceLoads, ResourceRows),
     Page(ResourceTypeControls, ResourceTypeLoads, ResourceTypeRows),
     Page(RoleControls, RoleLoads, RoleRows),
     Page(UserControls, UserLoads, UserRows),
     Page(TriggerControls, TriggerLoads, TriggerRows),
     Page(AppControls, AppLoads, AppRows),
     Page(EmployeeControls, EmployeeLoads, ReadOnly)} \cup MergingPages

\* The page of public keys, whose batch is broken.
BrokenPages == {Page(PublicKeyControls, PublicKeyLoads, PublicKeyRows)}
=============================================================================
