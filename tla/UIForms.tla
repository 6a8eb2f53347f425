------------------------------ MODULE UIForms ------------------------------
(***************************************************************************)
(* The forms and drawers of src/oneterm-ui, one after another.  Three      *)
(* definitions say how a form makes the choices of EditForm: its Buttons   *)
(* are read from the template, its Opening from the methods that open,     *)
(* fill and close it, its Saving from those that submit.                   *)
(***************************************************************************)
EXTENDS EditForm, TLC

Form(buttons, opens, saving) == buttons @@ opens @@ saving

\* OK shows its spinner, or is always free; a test shares the spinner.
Locked == [locks |-> TRUE, tests |-> FALSE]
Free == [locks |-> FALSE, tests |-> FALSE]

\* What the page opens the form for.
Both == {"create", "edit", "save"}

\* Fields and record are set when the form opens.
FromRow(blanks, for) ==
    [fills |-> "row", asks |-> "always", opens |-> "at once", blanks |-> blanks,
     shares |-> FALSE, visited |-> FALSE, ops |-> for]
\* The user fills the fields.
FromEntry(blanks, for) == [FromRow(blanks, for) EXCEPT !.fills = "entry"]
\* A call brings what belongs to the record.
FromAnswer(fills, blanks, for) == [FromRow(blanks, for) EXCEPT !.fills = fills]

\* A page of settings, mounted anew by every visit, which asks for its record.
Visited(fills, for) == [FromAnswer(fills, {"close"}, for) EXCEPT !.visited = TRUE]

\* One call, whose success closes the form.
Closes(unlocks) ==
    [calls |-> "one", unlocks |-> unlocks, onSave |-> "closes", adopts |-> FALSE]
\* Nothing is saved.
SavesNothing == [Closes({}) EXCEPT !.onSave = "stays"]

-----------------------------------------------------------------------------
(* Assets: accounts, gateways, folders, assets, links.                     *)

\* The edit button of the account page fetches the credentials first, once.
AccountButtons == Locked
AccountOpening ==
    [FromAnswer("all", {"close"}, Both) EXCEPT !.opens = "answered", !.asks = "perhaps"]
AccountSaving == Closes({"success", "failure"})

GatewayButtons == Locked
GatewayOpening == FromRow({"close"}, Both)
GatewaySaving == Closes({"success", "failure"})

NodeButtons == Locked
NodeOpening == FromRow({"open"}, Both)
NodeSaving == Closes({"success", "failure"})

AssetButtons == Locked
AssetOpening == FromRow({"open"}, Both)
AssetSaving == Closes({"success", "failure"})

\* Several assets at once: the loop reads the fields anew for each of them, and
\* leaves the lock when one call throws.
BatchUpdateButtons == Locked
BatchUpdateOpening == FromEntry({"open", "close"}, {"edit", "save"})
BatchUpdateSaving == [Closes({"success"}) EXCEPT !.calls = "sequence"]

TempLinkButtons == Free
TempLinkOpening == FromEntry({"close"}, {"edit", "save"})
TempLinkSaving == [Closes({}) EXCEPT !.onSave = "stays"]

\* Who may use assets, accounts or a folder: the table of an only one comes with an
\* answer, and what is granted goes to those asked for last.
AuthorizeButtons == Free
AuthorizeOpening ==
    [FromAnswer("content", {"close"}, {"edit", "save"})
        EXCEPT !.opens = "answered", !.asks = "perhaps"]
AuthorizeSaving == Closes({})

-----------------------------------------------------------------------------
(* Access: commands, their templates, times, authorizations.               *)

CommandButtons == Locked
CommandOpening == FromRow({"close"}, Both)
CommandSaving == Closes({"success", "failure"})

TemplateButtons == Locked
TemplateOpening == FromRow({"close"}, Both)
TemplateSaving == Closes({"success", "failure"})

TimeButtons == Locked
TimeOpening == FromRow({"close"}, Both)
TimeSaving == Closes({"success", "failure"})

\* The flag is set and cleared but the button is not bound to it.  When the defaults of
\* the permissions come, the form's own are those of the module: what is ticked then is
\* there at the next opening too.
AuthButtons == Free
AuthOpening == [FromRow({"close"}, Both) EXCEPT !.shares = TRUE]
AuthSaving == Closes({"success", "failure"})

-----------------------------------------------------------------------------
(* System settings.                                                        *)

PublicKeyButtons == Locked
PublicKeyOpening == FromRow({"open", "close"}, Both)
PublicKeySaving == Closes({"success", "failure"})

\* Only a success and a close release the button.
QuickCommandButtons == Locked
QuickCommandOpening == FromRow({"open", "close"}, Both)
QuickCommandSaving == Closes({"success", "close"})

\* The drawer stays open and goes on with the storage it has created.
StorageButtons == [locks |-> TRUE, tests |-> TRUE]
StorageOpening == FromRow({"close"}, Both)
StorageSaving ==
    [calls |-> "one", unlocks |-> {"success", "failure", "close"},
     onSave |-> "stays", adopts |-> TRUE]

\* How terminals look: one record per operator, written whether it exists or not.
DisplayButtons == Free
DisplayOpening == Visited("content", {"edit", "save"})
DisplaySaving == [Closes({}) EXCEPT !.onSave = "stays"]

-----------------------------------------------------------------------------
(* Access control lists.                                                   *)

UserButtons == Free
UserOpening == FromRow({"close"}, Both)
UserSaving == Closes({})

ResourceTypeButtons == Free
ResourceTypeOpening == FromRow({"close"}, Both)
ResourceTypeSaving == Closes({})

ResourceButtons == Free
ResourceOpening == FromRow({"close"}, {"create", "save"})
ResourceSaving == Closes({})

\* A new role gets its parents by further calls, once it is there.
RoleButtons == Free
RoleOpening == FromRow({"close"}, Both)
RoleSaving == [Closes({}) EXCEPT !.calls = "follows"]

TriggerButtons == Free
TriggerOpening == FromRow({"open"}, Both)
TriggerSaving == Closes({})

\* The application's key is fetched while the form is open.
AppButtons == Free
AppOpening == FromAnswer("all", {"close"}, Both)
AppSaving == Closes({})

\* The members of a group of resources, changed and shown.
GroupButtons == Free
GroupOpening == FromAnswer("content", {}, {"edit", "save"})
GroupSaving == Closes({})

MembersButtons == Free
MembersOpening == FromAnswer("content", {}, {"edit"})

\* Who has which permission on a resource: one is revoked, or all are.
PermissionButtons == Free
PermissionOpening == FromAnswer("content", {}, {"edit", "save"})
PermissionSaving == [Closes({}) EXCEPT !.onSave = "reloads"]

\* Permissions granted to the chosen roles, a call for each.
GrantButtons == Locked
GrantOpening == FromEntry({"close"}, {"edit", "save"})
GrantSaving ==
    [Closes({"success", "failure"}) EXCEPT !.calls = "each", !.onSave = "stays"]

BatchGrantButtons == Free
BatchGrantOpening == FromEntry({"close"}, {"edit", "save"})
BatchGrantSaving == [Closes({}) EXCEPT !.calls = "each", !.onSave = "stays"]

\* The users of a role: added to it, or taken out of it.
RoleUsersButtons == Free
RoleUsersOpening == FromAnswer("content", {}, {"edit", "save"})
RoleUsersSaving == [Closes({}) EXCEPT !.onSave = "reloads"]

\* The resources of a role; nothing is asked while no resource type is chosen.
RoleResourcesButtons == Free
RoleResourcesOpening == [FromAnswer("content", {}, {"edit"}) EXCEPT !.asks = "perhaps"]

\* The permissions of a user; nothing is asked when the user has no role here.
CollectButtons == Free
CollectOpening == [FromAnswer("content", {}, {"edit"}) EXCEPT !.asks = "perhaps"]

-----------------------------------------------------------------------------
(* The company, its employees and departments.                             *)

\* Without the id that comes with the content a save creates, a second one too.
CompanyButtons == Free
CompanyOpening == Visited("all", Both)
CompanySaving == [Closes({}) EXCEPT !.onSave = "stays"]

EmployeeButtons == Free
EmployeeOpening == FromRow({"open", "close"}, Both)
EmployeeSaving == Closes({})

\* An edit waits for the list of possible parents.
DepartmentButtons == Free
DepartmentOpening ==
    [FromAnswer("content", {"open"}, Both) EXCEPT !.opens = "answered"]
DepartmentSaving == Closes({})

BatchEmployeeButtons == Free
BatchEmployeeOpening == FromEntry({"close"}, {"edit", "save"})
BatchEmployeeSaving == Closes({})

-----------------------------------------------------------------------------

AllForms ==
    {Form(AccountButtons, AccountOpening, AccountSaving),
     Form(GatewayButtons, GatewayOpening, GatewaySaving),
     Form(NodeButtons, NodeOpening, NodeSaving),
     Form(AssetButtons, AssetOpening, AssetSaving),
     Form(BatchUpdateButtons, BatchUpdateOpening, BatchUpdateSaving),
     Form(TempLinkButtons, TempLinkOpening, TempLinkSaving),
     Form(AuthorizeButtons, AuthorizeOpening, AuthorizeSaving),
     Form(DisplayButtons, DisplayOpening, DisplaySaving),
     Form(CompanyButtons, CompanyOpening, CompanySaving),
     Form(CommandButtons, CommandOpening, CommandSaving),
     Form(TemplateButtons, TemplateOpening, TemplateSaving),
     Form(TimeButtons, TimeOpening, TimeSaving),
     Form(AuthButtons, AuthOpening, AuthSaving),
     Form(PublicKeyButtons, PublicKeyOpening, PublicKeySaving),
     Form(QuickCommandButtons, QuickCommandOpening, QuickCommandSaving),
     Form(StorageButtons, StorageOpening, StorageSaving),
     Form(UserButtons, UserOpening, UserSaving),
     Form(ResourceTypeButtons, ResourceTypeOpening, ResourceTypeSaving),
     Form(ResourceButtons, ResourceOpening, ResourceSaving),
     Form(RoleButtons, RoleOpening, RoleSaving),
     Form(TriggerButtons, TriggerOpening, TriggerSaving),
     Form(AppButtons, AppOpening, AppSaving),
     Form(GroupButtons, GroupOpening, GroupSaving),
     Form(MembersButtons, MembersOpening, SavesNothing),
     Form(PermissionButtons, PermissionOpening, PermissionSaving),
     Form(GrantButtons, GrantOpening, GrantSaving),
     Form(BatchGrantButtons, BatchGrantOpening, BatchGrantSaving),
     Form(RoleUsersButtons, RoleUsersOpening, RoleUsersSaving),
     Form(RoleResourcesButtons, RoleResourcesOpening, SavesNothing),
     Form(CollectButtons, CollectOpening, SavesNothing),
     Form(EmployeeButtons, EmployeeOpening, EmployeeSaving),
     Form(DepartmentButtons, DepartmentOpening, DepartmentSaving),
     Form(BatchEmployeeButtons, BatchEmployeeOpening, BatchEmployeeSaving)}

\* The forms in which a save can meet another record's fields.
MixingForms ==
    {Form(AccountButtons, AccountOpening, AccountSaving),
     Form(StorageButtons, StorageOpening, StorageSaving),
     Form(AppButtons, AppOpening, AppSaving),
     Form(GroupButtons, GroupOpening, GroupSaving),
     Form(BatchUpdateButtons, BatchUpdateOpening, BatchUpdateSaving),
     Form(DepartmentButtons, DepartmentOpening, DepartmentSaving),
     Form(AuthorizeButtons, AuthorizeOpening, AuthorizeSaving),
     Form(AuthButtons, AuthOpening, AuthSaving),
     Form(RoleButtons, RoleOpening, RoleSaving),
     Form(CompanyButtons, CompanyOpening, CompanySaving)}
=============================================================================
