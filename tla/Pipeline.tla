------------------------------ MODULE Pipeline ------------------------------
(***************************************************************************)
(* One run of the authorization engine over a batch of requests            *)
(* (evaluation_pipeline.go): seven stages in a fixed order, each of which   *)
(* settles every undecided request before the next one starts.  Lookups    *)
(* are memoised for the duration of a stage, so identical ones are asked    *)
(* once.                                                                    *)
(*                                                                         *)
(* A run is a single goroutine.  What interleaves with it is the world:     *)
(* a reader takes its time and answers anything (ReaderReturns), and the    *)
(* context may be cancelled or time out between any two steps (Cancel).     *)
(* Facts may change while a run is in progress, so nothing relates the      *)
(* answer of one lookup to that of another.                                 *)
(***************************************************************************)
EXTENDS AuthorizationModel

CONSTANTS
  Engines,        \* the engine configurations considered
  Batches,        \* the request slices a run may be given
  GroupLists,     \* the slices a GroupReader may return
  ReaderErrors,   \* error values readers return
  ContextErrors   \* what ctx.Err() may become: cancelled, deadline exceeded

\* Which backends are non-nil, and whether the PermissionReader also
\* implements BatchPermissionReader.
EngineConfig == [memberships : BOOLEAN, groups : BOOLEAN, resolver : BOOLEAN,
                 permissions : {"none", "single", "batch"}]

ASSUME PipelineAssumption ==
  /\ Engines \subseteq EngineConfig
  /\ Batches \subseteq Seq(Request)
  /\ GroupLists \subseteq Seq(Ref)
  /\ Nil \notin ReaderErrors \cup ContextErrors

VARIABLES
  engine,     \* the configuration of this run's Engine
  withTrace,  \* whether the run records a trace
  ctxErr,     \* ctx.Err(): Nil until the context is done
  stage,      \* the stage reached
  items,      \* the evaluationItems, one per request
  todo,       \* indexes of the stage's pending items not yet settled
  seen,       \* the stage's memo: lookup -> result
  call,       \* the lookups of the reader call in flight
  answers     \* history: every lookup a reader answered, with its result

vars == <<engine, withTrace, ctxErr, stage, items, todo, seen, call, answers>>

-----------------------------------------------------------------------------
(* Stages, in the order of run(). *)

Started == 0
Validated == 1
Configured == 2
ResourceScopes == 3
Memberships == 4
DirectPermissions == 5
Groups == 6
GroupPermissions == 7
Returned == 8

-----------------------------------------------------------------------------
(* What readers reply to lookups. *)

\* The check of the k-th group of an item, in the order of its group reader.
GroupLookup(item, k) ==
  PermissionLookup(GroupPrincipal(item.groups[k]), item.request)

ReaderFailures == ReaderErrors \cup {BatchResultMismatch}

\* A reader may return (true, err) or a non-empty slice beside an error.
Reply(reader) ==
  IF reader = "GroupsForSubject"
    THEN [ok : {FALSE}, err : ReaderErrors \cup {Nil}, groups : GroupLists]
    ELSE [ok : BOOLEAN, err : ReaderErrors \cup {Nil}, groups : {<<>>}]

Failed(e) == [ok |-> FALSE, err |-> e, groups |-> <<>>]

Result == [ok : BOOLEAN, err : ReaderFailures \cup ContextErrors \cup {Nil},
           groups : GroupLists \cup {<<>>}]

-----------------------------------------------------------------------------
(* evaluationItem and the ways a stage leaves its mark on one. *)

NewItem(request) ==
  [request |-> request, trace |-> <<>>, decision |-> NoDecision,
   err |-> NoError, done |-> FALSE, groups |-> <<>>]

Step(item, name, result, principal, source) ==
  IF withTrace
    THEN [item EXCEPT !.trace = Append(@, TraceStep(name, result, principal, source))]
    ELSE item

Fail(item, err) == [item EXCEPT !.err = err, !.done = TRUE]

Decide(item, decision) == [item EXCEPT !.decision = decision, !.done = TRUE]

\* Faulty variant: the denying step does not name its source.
DenyWithoutSource(item, name, reason) ==
  Decide(Step(item, name, "denied", NoPrincipal, "unset"), Denial(reason))

Deny(item, name, reason) ==
  Decide(Step(item, name, "denied", NoPrincipal, "none"), Denial(reason))

\* Faulty variant: any error that looks like a context's is taken for its own.
ReaderFailureByKind(item, name, principal, e) ==
  Fail(Step(item, name, "error", principal, "unset"),
       IF e \in ContextErrors THEN ContextError(e) ELSE EvaluationError(name, e))

\* The context is read again here, after the lookup that failed.
ReaderFailure(item, name, principal, e) ==
  Fail(Step(item, name, "error", principal, "unset"),
       IF e = ctxErr THEN ContextError(e) ELSE EvaluationError(name, e))

Pending == {i \in DOMAIN items : ~items[i].done}

\* Faulty variant: the items already decided fail too.
FailEverything(err) == [i \in DOMAIN items |-> Fail(items[i], err)]

FailPending(err) ==
  [i \in DOMAIN items |-> IF i \in Pending THEN Fail(items[i], err) ELSE items[i]]

-----------------------------------------------------------------------------
(* What a stage makes of one pending item, once its lookups are in seen. *)

ValidationOutcome(item) ==
  IF IsValid(item.request)
    THEN Step(item, "request_validated", "passed", NoPrincipal, "unset")
    ELSE Fail(Step(item, "request_validated", "failed", NoPrincipal, "unset"),
              ValidateRequest(item.request))

\* Faulty variant: the answer is looked at before the error.
AnsweredFirst(item, name, principal, lookup, no, yes) ==
  LET result == seen[lookup]
  IN CASE result.ok -> yes
       [] SaysNo(result) -> no
       [] OTHER -> ReaderFailure(item, name, principal, result.err)

\* A yes-or-no question: an error comes before the answer that came with it.
Answered(item, name, principal, lookup, no, yes) ==
  LET result == seen[lookup]
  IN CASE result.err # Nil -> ReaderFailure(item, name, principal, result.err)
       [] SaysNo(result) -> no
       [] SaysYes(result) -> yes

ResourceScopeOutcome(item) ==
  LET name == "resource_scope_verified"
      request == item.request
      Mark(result) == Step(item, name, result, NoPrincipal, "unset")
  IN IF ~RequiresResourceScopeCheck(request.resource) THEN Mark("skipped")
     ELSE IF ~engine.resolver THEN Fail(Mark("error"), MissingError("scope_resolver"))
     ELSE Answered(item, name, NoPrincipal, ResourceLookup(request),
                   Deny(item, name, "resource_scope"), Mark("passed"))

\* Faulty variant: a "no" is noted, and not acted on.
MembershipIgnored(item) ==
  LET result == seen[MembershipLookup(item.request)]
  IN IF result.err # Nil
       THEN ReaderFailure(item, "membership_confirmed", NoPrincipal, result.err)
       ELSE Step(item, "membership_confirmed", "passed", NoPrincipal, "unset")

MembershipOutcome(item) ==
  LET name == "membership_confirmed"
  IN Answered(item, name, NoPrincipal, MembershipLookup(item.request),
              Deny(item, name, "membership"),
              Step(item, name, "passed", NoPrincipal, "unset"))

DirectOutcome(item) ==
  LET name == "direct_permission_checked"
      principal == SubjectPrincipal(item.request.subject)
  IN Answered(item, name, principal, DirectLookup(item.request),
              Step(item, name, "not_matched", principal, "unset"),
              Decide(Step(item, name, "matched", principal, "direct"),
                     Allow("direct_permission", "direct", principal)))

\* Faulty variant: the context is consulted for every item.
GroupsUnlessDone(item) ==
  IF ctxErr # Nil
    THEN Fail(item, ContextError(ctxErr))
    ELSE [item EXCEPT !.groups = seen[GroupsLookup(item.request)].groups]

GroupsOutcome(item) ==
  LET name == "groups_resolved"
      result == seen[GroupsLookup(item.request)]
  IN IF result.err # Nil
       THEN ReaderFailure(item, name, NoPrincipal, result.err)
       ELSE Step([item EXCEPT !.groups = result.groups], name,
                 IF result.groups = <<>> THEN "none" ELSE "resolved",
                 NoPrincipal, "unset")

\* Faulty variant: a check that failed counts as no match.
NotMatched(item, k) ==
  GroupLookup(item, k) \in DOMAIN seen /\ ~seen[GroupLookup(item, k)].ok

\* Group k is known not to match.
RuledOut(item, k) ==
  /\ GroupLookup(item, k) \in DOMAIN seen
  /\ SaysNo(seen[GroupLookup(item, k)])

\* Faulty variant: the loop runs from the last group to the first.
ReachesBackwards(item, k) ==
  \A j \in DOMAIN item.groups : j > k => RuledOut(item, j)

\* The loop over an item's groups gets as far as group k.
Reaches(item, k) == \A j \in DOMAIN item.groups : j < k => RuledOut(item, j)

GroupPermissionOutcome(item) ==
  LET name == "group_permissions_checked"
      k == CHOOSE n \in DOMAIN item.groups : Reaches(item, n) /\ ~RuledOut(item, n)
      principal == GroupPrincipal(item.groups[k])
      result == seen[GroupLookup(item, k)]
  IN CASE \A n \in DOMAIN item.groups : RuledOut(item, n) ->
            Decide(Step(item, name, "not_matched", NoPrincipal, "none"),
                   Denial("no_permission"))
       [] OTHER ->
            IF result.err # Nil
              THEN ReaderFailure(item, name, principal, result.err)
              ELSE Decide(Step(item, name, "matched", principal, "group"),
                          Allow("group_permission", "group", principal))

-----------------------------------------------------------------------------
(* Which lookups a stage issues, and when. *)

\* Faulty variant: groups are checked ahead without a batch reader too.
AlwaysAskAhead == stage \in {DirectPermissions, GroupPermissions}

\* The permission stages that collect every check before settling any item.
AskAhead ==
  \/ stage = DirectPermissions
  \/ stage = GroupPermissions /\ engine.permissions = "batch"

First(i) == i \in todo /\ \A j \in todo : i <= j

\* What settling an item takes.  Without a batch reader a group is checked
\* only when every group before it said no.
Needs(item) ==
  CASE stage = ResourceScopes ->
         IF RequiresResourceScopeCheck(item.request.resource) /\ engine.resolver
           THEN {ResourceLookup(item.request)} ELSE {}
    [] stage = Memberships -> {MembershipLookup(item.request)}
    [] stage = DirectPermissions -> {DirectLookup(item.request)}
    [] stage = Groups -> {GroupsLookup(item.request)}
    [] stage = GroupPermissions ->
         {GroupLookup(item, k) : k \in
            {n \in DOMAIN item.groups : AskAhead \/ Reaches(item, n)}}
    [] OTHER -> {}

Missing(i) == Needs(items[i]) \ DOMAIN seen

\* The item whose lookups are issued next.
Asker(i) ==
  /\ i \in todo
  /\ Missing(i) # {}
  /\ AskAhead \/ First(i)
  /\ \A j \in todo : j < i => Missing(j) = {}

Unasked == UNION {Missing(i) : i \in todo}

\* More than one distinct check, and a reader that takes them all at once.
AsksInBulk ==
  /\ AskAhead
  /\ engine.permissions = "batch"
  /\ \E l, m \in Unasked : l # m

\* Faulty variant: a call replaces the memo.
Remember(results) == seen' = results

Memoise(results) ==
  seen' = [l \in DOMAIN seen \cup DOMAIN results |->
             IF l \in DOMAIN results THEN results[l] ELSE seen[l]]

-----------------------------------------------------------------------------
(* The run. *)

Init ==
  /\ engine \in Engines
  /\ withTrace \in BOOLEAN
  /\ ctxErr = Nil
  /\ stage = Started
  /\ \E batch \in Batches :
       /\ withTrace => Len(batch) = 1
       /\ items = [i \in DOMAIN batch |-> NewItem(batch[i])]
  /\ todo = {}
  /\ seen = <<>>
  /\ call = {}
  /\ answers = {}

Validate ==
  /\ stage = Started
  /\ items' = [i \in DOMAIN items |-> ValidationOutcome(items[i])]
  /\ stage' = Validated
  /\ UNCHANGED <<engine, withTrace, ctxErr, todo, seen, call, answers>>

CheckConfiguration ==
  /\ stage = Validated
  /\ items' =
       CASE ~engine.memberships -> FailPending(MissingError("membership_reader"))
         [] engine.memberships /\ ~engine.groups ->
              FailPending(MissingError("group_reader"))
         [] engine.memberships /\ engine.groups /\ engine.permissions = "none" ->
              FailPending(MissingError("permission_reader"))
         [] OTHER -> items
  /\ stage' = Configured
  /\ UNCHANGED <<engine, withTrace, ctxErr, todo, seen, call, answers>>

\* Each of the five stages that use a reader starts by looking at the context.
NextStage ==
  /\ stage \in Configured..Groups
  /\ todo = {}
  /\ stage' = stage + 1
  /\ seen' = <<>>

\* Faulty variant: a stage goes through the decided items again.
EnterWithAll ==
  /\ NextStage
  /\ ctxErr = Nil
  /\ todo' = DOMAIN items
  /\ UNCHANGED <<engine, withTrace, ctxErr, items, call, answers>>

EnterStage ==
  /\ NextStage
  /\ ctxErr = Nil
  /\ todo' = Pending
  /\ UNCHANGED <<engine, withTrace, ctxErr, items, call, answers>>

SkipStage ==
  /\ NextStage
  /\ ctxErr # Nil
  /\ items' = FailPending(ContextError(ctxErr))
  /\ UNCHANGED <<engine, withTrace, ctxErr, todo, call, answers>>

\* The lookups of the next reader call: one, or all the checks of the stage.
NextCalls ==
  IF AsksInBulk
    THEN {Unasked}
    ELSE {{l} : l \in UNION {Missing(i) : i \in {j \in todo : Asker(j)}}}

CallReader ==
  /\ call = {}
  /\ ctxErr = Nil
  /\ call' \in NextCalls
  /\ UNCHANGED <<engine, withTrace, ctxErr, stage, items, todo, seen, answers>>

\* Faulty variant: the refused lookup is not memoised.
RefuseAgain ==
  /\ call = {}
  /\ ctxErr # Nil
  /\ NextCalls # {}
  /\ UNCHANGED vars

\* The context is done: the lookup is not made, and its failure is memoised.
RefuseCall ==
  /\ call = {}
  /\ ctxErr # Nil
  /\ \E lookups \in NextCalls : Memoise([l \in lookups |-> Failed(ctxErr)])
  /\ UNCHANGED <<engine, withTrace, ctxErr, stage, items, todo, call, answers>>

\* The results of a call: one per lookup or, from HasPermissions, an error for
\* the whole call, ErrBatchResultMismatch when the count is wrong.
Replies ==
  {results \in [call -> UNION {Reply(l.reader) : l \in call}] :
     \A l \in call : results[l] \in Reply(l.reader)}
  \cup
  {[l \in call |-> Failed(e)] :
     e \in IF \E l, m \in call : l # m THEN ReaderFailures ELSE {}}

ReaderReturns ==
  /\ call # {}
  /\ \E results \in Replies :
       /\ Memoise(results)
       /\ answers' = answers \cup {[lookup |-> l, result |-> results[l]] : l \in call}
  /\ call' = {}
  /\ UNCHANGED <<engine, withTrace, ctxErr, stage, items, todo>>

\* Items are settled in order, when the lookups they take are in seen.
Settle(i, item) ==
  /\ First(i)
  /\ IF AskAhead THEN Unasked = {} ELSE Missing(i) = {}
  /\ items' = [items EXCEPT ![i] = item]
  /\ todo' = todo \ {i}
  /\ UNCHANGED <<engine, withTrace, ctxErr, stage, seen, call, answers>>

VerifyResourceScope(i) ==
  stage = ResourceScopes /\ Settle(i, ResourceScopeOutcome(items[i]))

ConfirmMembership(i) ==
  stage = Memberships /\ Settle(i, MembershipOutcome(items[i]))

CheckDirectPermission(i) ==
  stage = DirectPermissions /\ Settle(i, DirectOutcome(items[i]))

ResolveGroups(i) ==
  stage = Groups /\ Settle(i, GroupsOutcome(items[i]))

CheckGroupPermission(i) ==
  stage = GroupPermissions /\ Settle(i, GroupPermissionOutcome(items[i]))

Return ==
  /\ stage = GroupPermissions
  /\ todo = {}
  /\ stage' = Returned
  /\ UNCHANGED <<engine, withTrace, ctxErr, items, todo, seen, call, answers>>

Cancel ==
  /\ stage < Returned
  /\ ctxErr = Nil
  /\ ctxErr' \in ContextErrors
  /\ UNCHANGED <<engine, withTrace, stage, items, todo, seen, call, answers>>

\* The caller has its results; nothing more happens.
Done ==
  stage = Returned /\ UNCHANGED vars

RunStep ==
  \/ Validate
  \/ CheckConfiguration
  \/ EnterStage
  \/ SkipStage
  \/ CallReader
  \/ RefuseCall
  \/ \E i \in todo :
       \/ VerifyResourceScope(i)
       \/ ConfirmMembership(i)
       \/ CheckDirectPermission(i)
       \/ ResolveGroups(i)
       \/ CheckGroupPermission(i)
  \/ Return

Next == RunStep \/ ReaderReturns \/ Cancel \/ Done

\* The goroutine of the run keeps running and readers return; nobody is
\* obliged to cancel the context.
Fairness == WF_vars(RunStep) /\ WF_vars(ReaderReturns)

Spec == Init /\ [][Next]_vars /\ Fairness

=============================================================================
