------------------------- MODULE PipelineProperties -------------------------
(***************************************************************************)
(* What a run of the pipeline must guarantee, and two things the           *)
(* documentation says of it that the code does not keep.                   *)
(***************************************************************************)
EXTENDS Pipeline

StageName == {"request_validated", "resource_scope_verified",
              "membership_confirmed", "direct_permission_checked",
              "groups_resolved", "group_permissions_checked"}

StepResult == {"passed", "failed", "denied", "skipped", "matched",
               "not_matched", "resolved", "none", "error"}

TraceSteps == [name : StageName, result : StepResult,
               principal : PrincipalRef, source : DecisionSource]

FailurePlace ==
  {"none"} \cup StageName
  \cup {"subject.type", "subject.id", "action", "resource.type", "scope.type",
        "scope.id"}
  \cup {"membership_reader", "group_reader", "permission_reader", "scope_resolver"}

Err == [class : {"none", "validation", "missing", "context", "evaluation"},
        at : FailurePlace, cause : ReaderFailures \cup ContextErrors \cup {Nil}]

Item == [request : Request, trace : Seq(TraceSteps), decision : Decision,
         err : Err, done : BOOLEAN, groups : GroupLists \cup {<<>>}]

\* The type of every variable; what a stage still has to settle is undecided.
TypeOK ==
  /\ engine \in Engines
  /\ withTrace \in BOOLEAN
  /\ ctxErr \in ContextErrors \cup {Nil}
  /\ stage \in Started..Returned
  /\ items \in Seq(Item)
  /\ todo \subseteq Pending
  /\ DOMAIN seen \subseteq Lookups
  /\ \A l \in DOMAIN seen : seen[l] \in Result
  /\ call \subseteq Lookups
  /\ answers \subseteq [lookup : Lookups, result : Result]

SaidGroups(A, item) ==
  \E a \in A : /\ a.lookup = GroupsLookup(item.request)
               /\ a.result.err = Nil
               /\ a.result.groups = item.groups

\* A match of group k, after groups that do not match.
MatchesFirst(A, item, k) ==
  /\ SaidYes(A, GroupLookup(item, k))
  /\ \A j \in DOMAIN item.groups : j < k => SaidNo(A, GroupLookup(item, j))

Earned(A, item) ==
  LET request == item.request
      decision == item.decision
  IN /\ item.err = NoError
     /\ IsValid(request) /\ InScope(A, request) /\ IsMember(A, request)
     /\ \/ /\ decision = Allow("direct_permission", "direct",
                               SubjectPrincipal(request.subject))
           /\ SaidYes(A, DirectLookup(request))
        \/ /\ SaidNo(A, DirectLookup(request)) /\ SaidGroups(A, item)
           /\ \E k \in DOMAIN item.groups :
                /\ decision = Allow("group_permission", "group",
                                    GroupPrincipal(item.groups[k]))
                /\ MatchesFirst(A, item, k)

Evidenced(A, item) ==
  LET request == item.request
  IN \/ /\ item.decision = Denial("resource_scope")
        /\ SaidNo(A, ResourceLookup(request))
     \/ /\ item.decision = Denial("membership")
        /\ InScope(A, request) /\ SaidNo(A, MembershipLookup(request))
     \/ /\ item.decision = Denial("no_permission")
        /\ IsValid(request) /\ InScope(A, request) /\ IsMember(A, request)
        /\ SaidNo(A, DirectLookup(request)) /\ SaidGroups(A, item)
        /\ \A k \in DOMAIN item.groups : SaidNo(A, GroupLookup(item, k))

\* An allow rests on answers the readers really gave in this run: the request
\* is valid, the resource is in the scope, the subject is a member, and either
\* the subject holds the permission, or it does not and the reported group is
\* one its group reader listed, holds it, and comes after groups that do not.
\* No error, cancellation or memoised failure ever becomes an allow.
AllowIsEarned ==
  \A i \in DOMAIN items :
    items[i].decision.allowed => Earned(answers, items[i])

\* A denial rests on a "no" the readers really gave: for the resource, the
\* membership, or the direct permission and every listed group.  In particular
\* a run whose context is done never reports as denied what it did not ask.
DenialIsEvidenced ==
  \A i \in DOMAIN items :
    items[i].done /\ items[i].err = NoError /\ ~items[i].decision.allowed
      => Evidenced(answers, items[i])

\* The lookups an item's outcome may rest on.
OwnLookups(item) ==
  {ResourceLookup(item.request), MembershipLookup(item.request),
   DirectLookup(item.request), GroupsLookup(item.request)}
  \cup {GroupLookup(item, k) : k \in DOMAIN item.groups}

Owned(A, e, item) ==
  /\ item.err.class = "context" => e # Nil /\ item.err = ContextError(e)
  /\ item.err.class = "evaluation" =>
       \E a \in A : /\ a.lookup \in OwnLookups(item)
                    /\ a.result.err # Nil
                    /\ a.result.err = item.err.cause
  /\ item.err # NoError => item.done /\ item.decision = NoDecision

\* A request fails for a reason of its own: the context is done, or a reader
\* failed on a lookup this very request depends on, and that error is the
\* cause reported.  The failures of its neighbours in the batch are not its,
\* and no failure carries a decision.
FailureIsOwn ==
  \A i \in DOMAIN items : Owned(answers, ctxErr, items[i])

\* Nothing is asked of a reader twice in a run, whatever the batch repeats.
NoLookupIsRepeated ==
  /\ \A a \in answers : a.lookup \notin call
  /\ \A a, b \in answers : a.lookup = b.lookup => a = b

\* No reader is asked about the permissions or the groups of a request before
\* its resource is known to be in the scope and its subject to be a member.
OnlyMembersAreLookedUp ==
  \A l \in call :
    l.reader \in {"HasPermission", "GroupsForSubject"} =>
      \E i \in Pending :
        /\ l \in OwnLookups(items[i])
        /\ InScope(answers, items[i].request)
        /\ IsMember(answers, items[i].request)

\* Without a batch reader a group is checked only once every group before it
\* has said no to one of the requests that needs the answer.
GroupsAreCheckedInOrder ==
  stage = GroupPermissions /\ engine.permissions = "single" =>
    \A l \in call :
      \E i \in Pending : \E k \in DOMAIN items[i].groups :
        /\ l = GroupLookup(items[i], k)
        /\ \A j \in 1..(k - 1) : SaidNo(answers, GroupLookup(items[i], j))

\* Requests that are equal are settled alike by the end of every stage, even
\* when the context is cancelled while the stage is settling them.  (How their
\* failures are wrapped may differ.)
EqualRequestsAgree ==
  todo = {} =>
    \A i, j \in DOMAIN items :
      items[i].request = items[j].request =>
        /\ items[i].done = items[j].done
        /\ items[i].decision = items[j].decision
        /\ (items[i].err = NoError) = (items[j].err = NoError)

\* The last trace step that names a source names the decision's, and a trace
\* with an error step, a failed validation aside, belongs to a failed request.
TraceAgreesWithDecision ==
  withTrace =>
    \A i \in DOMAIN items :
      LET item == items[i]
          steps == item.trace
          Determining == {n \in DOMAIN steps : steps[n].source # "unset"}
      IN /\ item.done /\ item.err = NoError <=> Determining # {}
         /\ Determining # {} => steps[Max(Determining)].source = item.decision.source
         /\ (\E n \in DOMAIN steps : steps[n].result = "error") =>
              item.done /\ item.err # NoError

\* Once a request is decided or has failed, no later stage touches it.
OutcomesAreFinal ==
  [][\A i \in DOMAIN items : items[i].done => items'[i] = items[i]]_vars

\* Every run returns, with every request decided or failed, provided readers do.
RunReturns ==
  <>(stage = Returned /\ Pending = {})

-----------------------------------------------------------------------------
(* The abstract specification. *)

Promise ==
  INSTANCE Authorization WITH
    known <- answers,
    ended <- ctxErr,
    outcomes <- [i \in DOMAIN items |->
                   [request |-> items[i].request, done |-> items[i].done,
                    decision |-> items[i].decision, err |-> items[i].err]]

\* The staged, memoised, batched evaluation settles every request the way the
\* request's own facts say, asks a question at most once and only for the use
\* of a request still undecided, and settles every request in the end.
KeepsPromise == Promise!Spec

-----------------------------------------------------------------------------
(* Documented claims that the code does not keep. *)

\* engine.go:178-179 and docs/diagnostics.md:50-51: on error the trace ends
\* with the failing step.  (A context found done when a stage starts, and a
\* missing backend, fail the request without a step.)
TraceEndsWithFailingStep ==
  withTrace =>
    \A i \in DOMAIN items :
      items[i].err # NoError =>
        LET steps == items[i].trace
        IN steps # <<>> /\ steps[Len(steps)].result \in {"failed", "error"}

\* docs/batch.md:118-119: when the context is done, every request not yet
\* decided fails with its error.  (An answer in flight, or one the stage
\* already holds, still decides.)
UndecidedFailWhenDone ==
  [][ctxErr # Nil =>
       \A i \in Pending : items'[i].done => items'[i].err = ContextError(ctxErr)]_vars

=============================================================================
