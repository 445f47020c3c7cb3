-------------------------------- MODULE Store --------------------------------
(***************************************************************************)
(* The example adapter (examples/advanced/store/store.go): documents,       *)
(* members, roles and grants of projects as tables, and the reader          *)
(* interfaces answered from them.                                           *)
(***************************************************************************)
EXTENDS AuthorizationModel, SequencesExt

UserType == "user"
ProjectType == "project"
DocumentType == "document"
RoleType == "project_role"

Grant(kind, id, action, resource, project) ==
  [kind |-> kind, id |-> id, action |-> action, resource |-> resource, project |-> project]

\* The requests of DocumentAuthorizer.
DocumentRequest(user, action, document, project, context) ==
  [subject |-> [type |-> UserType, id |-> user], action |-> action,
   resource |-> [type |-> DocumentType, id |-> document],
   scope |-> [type |-> ProjectType, id |-> project], context |-> context]

ProjectDocumentRequest(user, action, project, context) ==
  DocumentRequest(user, action, EmptyText, project, context)

-----------------------------------------------------------------------------
(* The readers. *)

\* Faulty variant: any subject with the id of a member is one.
HasMembershipById(tables, subject, scope) ==
  <<subject.id, scope.id>> \in tables.members

HasMembership(tables, subject, scope) ==
  /\ subject.type = UserType /\ scope.type = ProjectType
  /\ <<subject.id, scope.id>> \in tables.members

\* Positions of rows, first to last.
InOrder(positions) ==
  CHOOSE s \in [1..Cardinality(positions) -> positions] :
    \A j, k \in DOMAIN s : j < k => s[j] < s[k]

\* The roles of a user in a project, in the order of the assignments.
GroupsForSubject(tables, subject, scope) ==
  LET own == InOrder({n \in DOMAIN tables.assignments :
               /\ tables.assignments[n].user = subject.id
               /\ tables.assignments[n].project = scope.id})
  IN IF subject.type # UserType \/ scope.type # ProjectType THEN <<>>
     ELSE [k \in DOMAIN own |->
             [type |-> RoleType, id |-> tables.assignments[own[k]].role]]

\* The grant that a check looks for.  The type of the principal is not in it.
GrantFor(principal, request) ==
  Grant(principal.kind, principal.id, request.action, request.resource.type,
        request.scope.id)

HasPermission(tables, principal, request) ==
  /\ request.scope.type = ProjectType
  /\ \E n \in DOMAIN tables.grants : tables.grants[n] = GrantFor(principal, request)

\* Faulty variant: a key of the index lacks the kind of its principal.
KeyWithoutKind(grant) == [grant EXCEPT !.kind = "none"]

GrantKey(grant) == grant

\* All checks of a call, answered from an index over the grants.
HasPermissions(tables, checks) ==
  LET granted == {GrantKey(tables.grants[n]) : n \in DOMAIN tables.grants}
  IN [check \in checks |->
        /\ check[2].scope.type = ProjectType
        /\ GrantKey(GrantFor(check[1], check[2])) \in granted]

ResourceInScope(tables, resource, scope) ==
  /\ resource.type = DocumentType /\ scope.type = ProjectType
  /\ <<resource.id, scope.id>> \in tables.documents

-----------------------------------------------------------------------------
(* The demonstration data of the example. *)

SeedDemoData ==
  [documents |-> {<<"plan", "canery">>, <<"budget", "quest">>},
   members |-> {<<"ada", "canery">>, <<"grace", "canery">>, <<"linus", "canery">>},
   assignments |-> <<[user |-> "grace", project |-> "canery", role |-> "editor"]>>,
   grants |-> <<Grant("subject", "ada", "delete", DocumentType, "canery"),
                Grant("subject", "ada", "create", DocumentType, "canery"),
                Grant("group", "editor", "update", DocumentType, "canery")>>]

=============================================================================
