-------------------------- MODULE AuthorizationModel --------------------------
(***************************************************************************)
(* The value types of the authorization kernel: references, requests,      *)
(* principals, decisions, trace steps and errors, together with request    *)
(* validation and the one question the engine asks of a scope.             *)
(*                                                                         *)
(* Strings are members of the set Text.  Only two of their features are    *)
(* visible to the kernel: whether a string is blank once trimmed           *)
(* (BlankText) and whether it is the empty string (EmptyText).  They       *)
(* differ: a resource id of spaces is blank but not empty.                 *)
(***************************************************************************)
EXTENDS Integers, Sequences, FiniteSetsExt

CONSTANTS
  Text,       \* strings used for types, ids and actions
  BlankText,  \* those that strings.TrimSpace reduces to ""
  EmptyText,  \* ""
  Context     \* AuthorizationContext values, compared by identity

ASSUME TextAssumption == BlankText \subseteq Text /\ EmptyText \in BlankText

Ref == [type : Text, id : Text]

Request ==
  [subject : Ref, action : Text, resource : Ref, scope : Ref, context : Context]

-----------------------------------------------------------------------------
(* Principals and decisions. *)

SubjectPrincipal(subject) ==
  [kind |-> "subject", type |-> subject.type, id |-> subject.id]

GroupPrincipal(group) ==
  [kind |-> "group", type |-> group.type, id |-> group.id]

NoPrincipal == [kind |-> "none", type |-> EmptyText, id |-> EmptyText]

PrincipalRef == [kind : {"subject", "group", "none"}, type : Text, id : Text]

DecisionSource == {"direct", "group", "none", "unset"}

DecisionReason == {"direct_permission", "group_permission", "resource_scope",
                   "membership", "no_permission", "unset"}

Decision == [allowed : BOOLEAN, reason : DecisionReason,
             source : DecisionSource, principal : PrincipalRef]

\* The zero Decision that accompanies every error.
NoDecision == [allowed |-> FALSE, reason |-> "unset",
               source |-> "unset", principal |-> NoPrincipal]

Allow(reason, source, principal) ==
  [allowed |-> TRUE, reason |-> reason, source |-> source, principal |-> principal]

Denial(reason) ==
  [NoDecision EXCEPT !.reason = reason, !.source = "none"]

-----------------------------------------------------------------------------
(* Trace steps. *)

TraceStep(name, result, principal, source) ==
  [name |-> name, result |-> result, principal |-> principal, source |-> source]

-----------------------------------------------------------------------------
(* Errors.  A reader, or a context, reports a plain error value; the kernel  *)
(* reports those values wrapped with the stage that failed, or bare.         *)

Nil == "nil"
BatchResultMismatch == "mismatch"

Error(class, at, cause) == [class |-> class, at |-> at, cause |-> cause]

NoError == Error("none", "none", Nil)
ValidationError(path) == Error("validation", path, Nil)
MissingError(what) == Error("missing", what, Nil)
ContextError(e) == Error("context", "none", e)
EvaluationError(stage, e) == Error("evaluation", stage, e)

-----------------------------------------------------------------------------
(* validateRequest: the first blank field, in a fixed order, is reported. *)

RequiredFields(request) ==
  << <<"subject.type", request.subject.type>>,
     <<"subject.id", request.subject.id>>,
     <<"action", request.action>>,
     <<"resource.type", request.resource.type>>,
     <<"scope.type", request.scope.type>>,
     <<"scope.id", request.scope.id>> >>

BlankFields(request) ==
  {n \in 1..6 : RequiredFields(request)[n][2] \in BlankText}

IsValid(request) == BlankFields(request) = {}

ValidateRequest(request) ==
  IF IsValid(request)
    THEN NoError
    ELSE ValidationError(RequiredFields(request)[Min(BlankFields(request))][1])

\* A request that names a resource instance must have it placed in the scope.
RequiresResourceScopeCheck(resource) == resource.id # EmptyText

-----------------------------------------------------------------------------
(* Batch results, and what decisionsOrError makes of them: all decisions, or *)
(* none and the first failure.                                               *)

BatchResult(request, decision, err) ==
  [request |-> request, decision |-> decision, err |-> err]

BatchReply(decisions, index, err) ==
  [decisions |-> decisions, index |-> index, err |-> err]

\* Faulty variant: the loop goes on, and keeps the last failure and the rest.
DecisionsAndError(results) ==
  LET failing == {i \in DOMAIN results : results[i].err # NoError}
  IN BatchReply([i \in DOMAIN results |-> results[i].decision],
                IF failing = {} THEN 0 ELSE Max(failing),
                IF failing = {} THEN NoError ELSE results[Max(failing)].err)

DecisionsOrError(results) ==
  LET failing == {i \in DOMAIN results : results[i].err # NoError}
      first == Min(failing)
  IN IF failing = {}
       THEN BatchReply([i \in DOMAIN results |-> results[i].decision], 0, NoError)
       ELSE BatchReply(<<>>, first, results[first].err)

-----------------------------------------------------------------------------
(* Lookups: the questions put to readers, as the engine tells them apart.  *)

Lookup(reader, about) == [reader |-> reader, about |-> about]

ResourceLookup(request) ==
  Lookup("ResourceInScope", <<request.resource, request.scope>>)

MembershipLookup(request) ==
  Lookup("HasMembership", <<request.subject, request.scope>>)

GroupsLookup(request) ==
  Lookup("GroupsForSubject", <<request.subject, request.scope>>)

PermissionLookup(principal, request) ==
  Lookup("HasPermission", <<principal, request>>)

DirectLookup(request) ==
  PermissionLookup(SubjectPrincipal(request.subject), request)

Lookups ==
  [reader : {"ResourceInScope", "HasMembership", "GroupsForSubject"},
   about : Ref \X Ref]
  \cup [reader : {"HasPermission"}, about : PrincipalRef \X Request]

\* An ordinary "no".
SaysNo(result) == result.err = Nil /\ ~result.ok

\* An ordinary "yes".
SaysYes(result) == result.err = Nil /\ result.ok

\* What the answers in A say, whichever stage of the run they came from.
SaidYes(A, lookup) == \E a \in A : a.lookup = lookup /\ SaysYes(a.result)

SaidNo(A, lookup) == \E a \in A : a.lookup = lookup /\ SaysNo(a.result)

InScope(A, request) ==
  RequiresResourceScopeCheck(request.resource) => SaidYes(A, ResourceLookup(request))

IsMember(A, request) == SaidYes(A, MembershipLookup(request))

=============================================================================
