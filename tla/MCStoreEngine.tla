---------------------------- MODULE MCStoreEngine ----------------------------
(***************************************************************************)
(* Values for the constants of StoreEngine, small enough for TLC.          *)
(***************************************************************************)
EXTENDS StoreEngineProperties

MCText == {"", "user", "service", "project", "document", "project_role",
           "ada", "grace", "linus", "editor", "viewer", "canery", "quest",
           "plan", "budget", "delete", "create", "update", "publish"}
MCBlank == {""}
MCContext == {"ctx"}

\* The demonstration data, and the same with two roles of one user, of which
\* the second counts, and a member whose id is that of a role.
Extended ==
  [SeedDemoData EXCEPT
     !.members = @ \cup {<<"editor", "canery">>},
     !.assignments = <<[user |-> "grace", project |-> "canery", role |-> "viewer"],
                       [user |-> "grace", project |-> "quest", role |-> "viewer"]>> \o @]

MCTables == {SeedDemoData, Extended}

MCGroupLists ==
  LET role(id) == [type |-> RoleType, id |-> id]
  IN {<<>>, <<role("editor")>>, <<role("viewer")>>, <<role("viewer"), role("editor")>>}

MCEngines == {NewEngine}

OnPlan(user, action) == DocumentRequest(user, action, "plan", "canery", "ctx")
OnAny(user, action) == ProjectDocumentRequest(user, action, "canery", "ctx")

\* Allowed directly and through a role; denied for want of a permission, for
\* another project's document, to no member, to a service with a user's id.
AdaDeletes == OnPlan("ada", "delete")
GraceUpdates == OnPlan("grace", "update")
LinusPublishes == OnPlan("linus", "publish")
OfQuest == DocumentRequest("ada", "delete", "budget", "canery", "ctx")
InQuest == ProjectDocumentRequest("grace", "update", "quest", "ctx")
Service == [OnAny("ada", "delete") EXCEPT !.subject.type = "service"]
EditorUpdates == OnAny("editor", "update")
Invalid1 == OnAny("ada", "")

MCBatches ==
  {<<r>> : r \in {AdaDeletes, GraceUpdates, LinusPublishes, OfQuest, Invalid1}}
  \cup {<<AdaDeletes, GraceUpdates>>, <<EditorUpdates, GraceUpdates>>,
        <<InQuest, OnAny("grace", "update")>>, <<Service, AdaDeletes>>,
        <<GraceUpdates, Invalid1>>}

MCEntries == EntryPoint
NoErrors == {}
Deadline == {"deadline"}
=============================================================================
