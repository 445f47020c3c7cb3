---------------------------- MODULE Authorization ----------------------------
(***************************************************************************)
(* What the engine promises about a batch, with no stages, order of work,  *)
(* memo or calls in flight: facts become known by asking readers, each     *)
(* question at most once and only when a request still undecided has use    *)
(* for it, and every request is settled, once, by what its own facts say.   *)
(***************************************************************************)
EXTENDS AuthorizationModel

VARIABLES
  engine,    \* the backends of the engine
  outcomes,  \* per request: the request, whether it is settled, and how
  known,     \* the answers of readers so far
  ended      \* the error of the context, Nil while it is live

vars == <<engine, outcomes, known, ended>>

GroupCheck(request, group) == PermissionLookup(GroupPrincipal(group), request)

\* The group lists a reader gave for a request.
Lists(A, request) ==
  {a.result.groups :
     a \in {b \in A : b.lookup = GroupsLookup(request) /\ b.result.err = Nil}}

\* The subject of a valid request is a member, and the resource is in place.
Admitted(A, request) ==
  IsValid(request) /\ InScope(A, request) /\ IsMember(A, request)

AllowedBy(A, request, decision) ==
  /\ Admitted(A, request)
  /\ \/ /\ SaidYes(A, DirectLookup(request))
        /\ decision = Allow("direct_permission", "direct",
                            SubjectPrincipal(request.subject))
     \/ /\ SaidNo(A, DirectLookup(request))
        /\ \E groups \in Lists(A, request) : \E k \in DOMAIN groups :
             /\ \A j \in 1..(k - 1) : SaidNo(A, GroupCheck(request, groups[j]))
             /\ SaidYes(A, GroupCheck(request, groups[k]))
             /\ decision = Allow("group_permission", "group",
                                 GroupPrincipal(groups[k]))

DeniedBy(A, request, decision) ==
  \/ /\ decision = Denial("resource_scope")
     /\ SaidNo(A, ResourceLookup(request))
  \/ /\ decision = Denial("membership")
     /\ InScope(A, request)
     /\ SaidNo(A, MembershipLookup(request))
  \/ /\ decision = Denial("no_permission")
     /\ Admitted(A, request)
     /\ SaidNo(A, DirectLookup(request))
     /\ \E groups \in Lists(A, request) :
          \A k \in DOMAIN groups : SaidNo(A, GroupCheck(request, groups[k]))

\* The questions whose answers a request depends on.
Concerns(A, request) ==
  {ResourceLookup(request), MembershipLookup(request), DirectLookup(request),
   GroupsLookup(request)}
  \cup UNION {{GroupCheck(request, groups[k]) : k \in DOMAIN groups} :
                groups \in Lists(A, request)}

\* Those it is of use to ask, given what is known.
Useful(A, request) ==
  {l \in Concerns(A, request) :
     /\ IsValid(request)
     /\ l = ResourceLookup(request) => RequiresResourceScopeCheck(request.resource)
     /\ l # ResourceLookup(request) => InScope(A, request)
     /\ l.reader \in {"HasPermission", "GroupsForSubject"} => IsMember(A, request)
     /\ l = GroupsLookup(request) => SaidNo(A, DirectLookup(request))}

MissingBackends ==
  {what \in {"membership_reader", "group_reader", "permission_reader",
             "scope_resolver"} :
     CASE what = "membership_reader" -> ~engine.memberships
       [] what = "group_reader" -> ~engine.groups
       [] what = "permission_reader" -> engine.permissions = "none"
       [] what = "scope_resolver" -> ~engine.resolver}

FailsFor(A, request, err) ==
  \/ ~IsValid(request) /\ err = ValidateRequest(request)
  \/ \E what \in MissingBackends : err = MissingError(what)
  \/ ended # Nil /\ err = ContextError(ended)
  \/ /\ err.class = "evaluation"
     /\ \E a \in A : /\ a.lookup \in Concerns(A, request)
                     /\ a.result.err # Nil /\ a.result.err = err.cause

-----------------------------------------------------------------------------
Init ==
  /\ known = {}
  /\ ended = Nil
  /\ \A i \in DOMAIN outcomes :
       /\ ~outcomes[i].done
       /\ outcomes[i].decision = NoDecision /\ outcomes[i].err = NoError

\* A reader answers one question or several.
Learn ==
  /\ known \subseteq known'
  /\ \A a, b \in known' : a.lookup = b.lookup => a = b
  /\ \A a \in known' \ known :
       \E i \in DOMAIN outcomes :
         ~outcomes[i].done /\ a.lookup \in Useful(known, outcomes[i].request)
  /\ UNCHANGED <<engine, outcomes, ended>>

\* One request or several are settled, each by what is known.
Settle ==
  /\ DOMAIN outcomes' = DOMAIN outcomes
  /\ \A i \in DOMAIN outcomes :
       LET request == outcomes[i].request
           new == outcomes'[i]
       IN new # outcomes[i] =>
            /\ ~outcomes[i].done
            /\ new.done
            /\ new.request = request
            /\ \/ /\ new.err = NoError
                  /\ \/ AllowedBy(known, request, new.decision)
                     \/ DeniedBy(known, request, new.decision)
               \/ new.decision = NoDecision /\ FailsFor(known, request, new.err)
  /\ UNCHANGED <<engine, known, ended>>

End ==
  /\ ended = Nil
  /\ ended' # Nil
  /\ UNCHANGED <<engine, outcomes, known>>

Next == Learn \/ Settle \/ End

\* Every request is settled in the end.
Settled == \A i \in DOMAIN outcomes : outcomes[i].done

Safety == Init /\ [][Next]_vars

Spec == Safety /\ <>Settled

=============================================================================
