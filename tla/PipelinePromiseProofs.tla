------------------------ MODULE PipelinePromiseProofs ------------------------
(***************************************************************************)
(* Proofs about the questions a run asks, and that it keeps its promise:   *)
(* every step of the pipeline is a step of Authorization, or changes        *)
(* nothing there.  A lookup belongs to one stage, the one that can need it, *)
(* and while a call is in flight some request is waiting for each lookup of *)
(* it, which is not in the memo: nothing is settled and no stage ends.      *)
(* Last, proofs about the outcomes of a batch.                             *)
(***************************************************************************)
EXTENDS PipelineProofs

\* The stage that asks for a lookup.
AskedAt(l) ==
  CASE l.reader = "ResourceInScope" -> ResourceScopes
    [] l.reader = "HasMembership" -> Memberships
    [] l.reader = "GroupsForSubject" -> Groups
    [] l.reader = "HasPermission" ->
         IF l.about[1].kind = "subject" THEN DirectPermissions ELSE GroupPermissions

AnswersAreKept ==
  /\ \A a \in answers :
       \/ AskedAt(a.lookup) < stage
       \/ AskedAt(a.lookup) = stage /\ a.lookup \in DOMAIN seen
  /\ \A a, b \in answers : a.lookup = b.lookup => a = b

CallsAreWaitedFor ==
  \A l \in call : \E i \in todo : l \in Missing(i) /\ (AskAhead \/ First(i))

CallInv == AnswersAreKept /\ CallsAreWaitedFor

-----------------------------------------------------------------------------
(* Lookups and the stages that ask for them. *)

\* Every lookup is asked at some stage.
LEMMA EveryLookupHasAStage ==
  ASSUME NEW l \in Lookups
  PROVE  AskedAt(l) \in ResourceScopes..GroupPermissions
BY DEF Lookups, AskedAt, ResourceScopes, Memberships, DirectPermissions, Groups,
   GroupPermissions

\* What an item needs at a stage is asked at that stage.
LEMMA NeedsAreTimely ==
  ASSUME NEW item, NEW l \in Needs(item)
  PROVE  AskedAt(l) = stage
BY DEF Needs, AskedAt, ResourceScopes, Memberships, DirectPermissions, Groups,
   GroupPermissions, ResourceLookup, MembershipLookup, GroupsLookup, DirectLookup,
   GroupLookup, PermissionLookup, SubjectPrincipal, GroupPrincipal, Lookup

\* What an item needs is its own.
LEMMA NeedsAreOwn ==
  ASSUME NEW item
  PROVE  Needs(item) \subseteq OwnLookups(item)
BY DEF Needs, OwnLookups

\* The lookups of the next call are missing, at an item whose turn it is.
LEMMA NextCallsAreMissing ==
  ASSUME NEW lookups \in NextCalls, NEW l \in lookups
  PROVE  \E i \in todo : l \in Missing(i) /\ (AskAhead \/ First(i))
<1>1. CASE AsksInBulk
  BY <1>1 DEF NextCalls, AsksInBulk, Unasked
<1>2. CASE ~AsksInBulk
  <2>1. PICK i \in {j \in todo : Asker(j)} : l \in Missing(i)
    BY <1>2 DEF NextCalls
  <2> QED BY <2>1 DEF Asker
<1> QED BY <1>1, <1>2

\* Nothing is settled while a call is in flight.
LEMMA NoSettlingDuringCalls ==
  ASSUME IInv, CallInv, NEW i \in todo, NEW item, Settle(i, item)
  PROVE  call = {}
<1> SUFFICES ASSUME NEW l \in call PROVE FALSE
  OBVIOUS
<1>1. PICK j \in todo : l \in Missing(j) /\ (AskAhead \/ First(j))
  BY DEF CallInv, CallsAreWaitedFor
<1>2. CASE AskAhead
  BY <1>1, <1>2 DEF Settle, Unasked
<1>3. CASE ~AskAhead
  <2>1. Missing(i) = {} /\ First(i) /\ First(j)
    BY <1>1, <1>3 DEF Settle
  <2>2. i \in Nat /\ j \in Nat
    <3>1. items \in Seq(Item) /\ todo \subseteq DOMAIN items
      BY DEF IInv, TypeOK, Pending
    <3> QED BY <3>1
  <2>3. i = j
    BY <2>1, <2>2 DEF First
  <2> QED BY <1>1, <2>1, <2>3
<1> QED BY <1>2, <1>3

-----------------------------------------------------------------------------
(* The invariant of calls is inductive. *)

\* Answers stay kept when the memo does not shrink, within a stage.
LEMMA MemoKeeps ==
  ASSUME AnswersAreKept, UNCHANGED <<stage, answers>>, DOMAIN seen \subseteq DOMAIN seen'
  PROVE  AnswersAreKept'
BY DEF AnswersAreKept, AskedAt

\* A stage that ends leaves all its answers behind.
LEMMA StageKeeps ==
  ASSUME IInv, CallInv, NextStage, UNCHANGED <<answers, call>>
  PROVE  CallInv'
<1>1. stage' = stage + 1 /\ stage \in 2..6 /\ call = {}
  BY NextStageFacts DEF NextStage, CallInv, CallsAreWaitedFor
<1>2. ASSUME NEW a \in answers PROVE AskedAt(a.lookup) < stage + 1
  <2>1. AskedAt(a.lookup) \in Int
    BY EveryLookupHasAStage DEF IInv, TypeOK, ResourceScopes, GroupPermissions
  <2>2. AskedAt(a.lookup) < stage \/ AskedAt(a.lookup) = stage
    BY DEF CallInv, AnswersAreKept
  <2> QED BY <1>1, <2>1, <2>2
<1>3. AnswersAreKept'
  BY <1>1, <1>2 DEF CallInv, AnswersAreKept
<1> QED BY <1>1, <1>3 DEF CallInv, AnswersAreKept, CallsAreWaitedFor

\* Settling an item leaves the calls as they are: there is none.
LEMMA SettleKeepsCalls ==
  ASSUME IInv, CallInv, NEW i \in todo, NEW item, Settle(i, item)
  PROVE  CallInv'
<1>1. call = {} /\ call' = call /\ UNCHANGED <<stage, seen, answers>>
  BY NoSettlingDuringCalls DEF Settle
<1> QED BY <1>1, MemoKeeps DEF CallInv, CallsAreWaitedFor

\* A call in flight waits for lookups that were never made.
LEMMA CallsAreNew ==
  ASSUME IInv, CallInv, NEW l \in call
  PROVE  /\ AskedAt(l) = stage /\ l \notin DOMAIN seen
         /\ \A a \in answers : a.lookup # l
<1>1. PICK i \in todo : l \in Missing(i)
  BY DEF CallInv, CallsAreWaitedFor
<1>2. AskedAt(l) = stage /\ l \notin DOMAIN seen
  BY <1>1, NeedsAreTimely DEF Missing
<1>3. stage \in Int
  BY DEF IInv, TypeOK, Started, Returned
<1> QED BY <1>2, <1>3 DEF CallInv, AnswersAreKept

\* A reply is kept, and the lookups of its call were new.
LEMMA RepliesAreKept == IInv /\ CallInv /\ ReaderReturns => CallInv'
<1> SUFFICES ASSUME IInv, CallInv, ReaderReturns PROVE CallInv'
  OBVIOUS
<1> DEFINE given(results) == {[lookup |-> l, result |-> results[l]] : l \in call}
<1>1. PICK results \in Replies :
        Memoise(results) /\ answers' = answers \cup given(results)
  BY DEF ReaderReturns
<1>2. call' = {} /\ UNCHANGED <<engine, stage, items, todo>>
  BY DEF ReaderReturns
<1>3. DOMAIN seen' = DOMAIN seen \cup call
  BY <1>1, RepliesAreResults DEF Memoise
<1>4. \A a \in given(results) :
        AskedAt(a.lookup) = stage /\ \A b \in answers : b.lookup # a.lookup
  BY CallsAreNew
<1>5. \A a \in given(results) : a.lookup \in call
  OBVIOUS
<1>6. \A a, b \in given(results) : a.lookup = b.lookup => a = b
  OBVIOUS
<1> HIDE DEF given
<1>7. AnswersAreKept'
  BY <1>1, <1>2, <1>3, <1>4, <1>5, <1>6 DEF CallInv, AnswersAreKept
<1> QED BY <1>2, <1>7 DEF CallInv, CallsAreWaitedFor

\* A run starts with no call and no answer.
LEMMA InitCallInv == Init => CallInv
BY DEF Init, CallInv, AnswersAreKept, CallsAreWaitedFor

\* Every step keeps the invariant of calls.
LEMMA NextCallInv == IInv /\ CallInv /\ [Next]_vars => CallInv'
<1> SUFFICES ASSUME IInv, CallInv, [Next]_vars PROVE CallInv'
  OBVIOUS
<1>1. CASE Validate \/ CheckConfiguration \/ Return
  <2>1. UNCHANGED <<todo, seen, call, answers>> /\ todo = {} /\ stage' = stage + 1
    BY <1>1 DEF Validate, CheckConfiguration, Return, IInv, Started, Validated,
       Configured, ResourceScopes, GroupPermissions, Returned
  <2>2. call = {}
    BY <2>1 DEF CallInv, CallsAreWaitedFor
  <2>3. ASSUME NEW a \in answers
        PROVE  \/ AskedAt(a.lookup) < stage'
               \/ AskedAt(a.lookup) = stage' /\ a.lookup \in DOMAIN seen
    <3>1. AskedAt(a.lookup) \in Int /\ stage \in Int
      BY EveryLookupHasAStage
      DEF IInv, TypeOK, ResourceScopes, GroupPermissions, Started, Returned
    <3>2. AskedAt(a.lookup) < stage \/ AskedAt(a.lookup) = stage
      BY DEF CallInv, AnswersAreKept
    <3> QED BY <2>1, <3>1, <3>2
  <2> QED BY <2>1, <2>2, <2>3 DEF CallInv, AnswersAreKept, CallsAreWaitedFor
<1>2. CASE EnterStage \/ SkipStage
  BY <1>2, StageKeeps DEF EnterStage, SkipStage
<1>3. CASE CallReader
  <2>1. /\ call' \in NextCalls
        /\ UNCHANGED <<engine, withTrace, ctxErr, stage, items, todo, seen, answers>>
    BY <1>3 DEF CallReader
  <2>2. \A l \in call' : \E i \in todo : l \in Missing(i) /\ (AskAhead \/ First(i))
    BY <2>1, NextCallsAreMissing
  <2>3. CallsAreWaitedFor'
    BY <2>1, <2>2 DEF CallsAreWaitedFor, Missing, Needs, AskAhead, First, Reaches, RuledOut
  <2> QED BY <2>1, <2>3, MemoKeeps DEF CallInv
<1>4. CASE RefuseCall
  <2>1. /\ call = {} /\ DOMAIN seen \subseteq DOMAIN seen'
        /\ UNCHANGED <<stage, call, answers>>
    BY <1>4 DEF RefuseCall, Memoise
  <2> QED BY <2>1, MemoKeeps DEF CallInv, CallsAreWaitedFor
<1>5. ASSUME NEW i \in todo, NEW item, Settle(i, item)
      PROVE  CallInv'
  BY <1>5, SettleKeepsCalls
<1>6. CASE ReaderReturns
  BY <1>6, RepliesAreKept
<1>7. CASE Cancel \/ UNCHANGED vars
  <2>1. UNCHANGED <<engine, stage, items, todo, seen, call, answers>>
    BY <1>7 DEF Cancel, vars
  <2>2. CallsAreWaitedFor'
    BY <2>1 DEF CallInv, CallsAreWaitedFor, Missing, Needs, AskAhead, First, Reaches, RuledOut
  <2> QED BY <2>1, <2>2, MemoKeeps DEF CallInv
<1> QED BY <1>1, <1>2, <1>3, <1>4, <1>5, <1>6, <1>7
    DEF Next, RunStep, Done, VerifyResourceScope, ConfirmMembership,
        CheckDirectPermission, ResolveGroups, CheckGroupPermission

\* Both invariants hold throughout every run.
LEMMA CallsInvariant == Spec => [](IInv /\ CallInv)
<1> QED BY InitIInv, NextIInv, InitCallInv, NextCallInv, PTL DEF Spec

-----------------------------------------------------------------------------
(* What is asked. *)

\* No question is asked of a reader twice in a run, for every batch.
THEOREM NothingAskedTwice == Spec => []NoLookupIsRepeated
<1>1. IInv /\ CallInv => NoLookupIsRepeated
  BY CallsAreNew DEF CallInv, AnswersAreKept, NoLookupIsRepeated
<1> QED BY <1>1, CallsInvariant, PTL

\* Permissions and groups are looked up for members with a resource in scope.
THEOREM MembersOnly == Spec => []OnlyMembersAreLookedUp
<1>1. ASSUME IInv, CallInv, NEW l \in call,
             l.reader \in {"HasPermission", "GroupsForSubject"}
      PROVE  \E i \in Pending : /\ l \in OwnLookups(items[i])
                                /\ InScope(answers, items[i].request)
                                /\ IsMember(answers, items[i].request)
  <2>1. PICK i \in todo : l \in Needs(items[i])
    BY <1>1 DEF CallInv, CallsAreWaitedFor, Missing
  <2>2. stage \in {5, 6, 7}
    <3>1. AskedAt(l) = stage
      BY <1>1, CallsAreNew
    <3> QED BY <1>1, <3>1 DEF AskedAt, DirectPermissions, Groups, GroupPermissions
  <2>3. i \in Pending /\ Sound(answers, ctxErr, items[i], stage - 1)
    <3>1. i \in Pending /\ i \in DOMAIN items
      BY <1>1 DEF IInv, TypeOK, Pending
    <3>2. Past(i) = stage - 1
      BY DEF Past
    <3> QED BY <1>1, <3>1, <3>2 DEF IInv
  <2>4. InScope(answers, items[i].request) /\ IsMember(answers, items[i].request)
    BY <2>2, <2>3 DEF Pending, Sound, Passed, ResourceScopes, Memberships
  <2> QED BY <2>1, <2>3, <2>4, NeedsAreOwn
<1>2. IInv /\ CallInv => OnlyMembersAreLookedUp
  BY <1>1 DEF OnlyMembersAreLookedUp
<1> QED BY <1>2, CallsInvariant, PTL

\* Without a batch reader groups are checked in the order of their list.
THEOREM GroupsInOrder == Spec => []GroupsAreCheckedInOrder
<1>1. ASSUME IInv, CallInv, NEW l \in call,
             stage = GroupPermissions, engine.permissions = "single"
      PROVE  \E i \in Pending : \E k \in DOMAIN items[i].groups :
               /\ l = GroupLookup(items[i], k)
               /\ \A j \in 1..(k - 1) : SaidNo(answers, GroupLookup(items[i], j))
  <2>1. PICK i \in todo : l \in Needs(items[i])
    BY <1>1 DEF CallInv, CallsAreWaitedFor, Missing
  <2>2. i \in Pending /\ items[i] \in Item /\ TypeOK /\ SeenIsKnown
    BY <1>1 DEF IInv, TypeOK, Pending
  <2>3. PICK k \in DOMAIN items[i].groups :
          l = GroupLookup(items[i], k) /\ Reaches(items[i], k)
    BY <1>1, <2>1 DEF Needs, AskAhead, ResourceScopes, Memberships,
       DirectPermissions, Groups, GroupPermissions
  <2>4. items[i].groups \in Seq(Ref)
    BY <2>2, GroupsAreRefs
  <2>5. ASSUME NEW j \in 1..(k - 1)
        PROVE  SaidNo(answers, GroupLookup(items[i], j))
    <3>1. RuledOut(items[i], j)
      BY <2>3, <2>4 DEF Reaches
    <3> QED BY <2>2, <3>1, SeenWasSaid DEF RuledOut
  <2> QED BY <2>2, <2>3, <2>5
<1>2. IInv /\ CallInv => GroupsAreCheckedInOrder
  BY <1>1 DEF GroupsAreCheckedInOrder
<1> QED BY <1>2, CallsInvariant, PTL

-----------------------------------------------------------------------------
(* What a settled item has to say for itself, beyond being sound. *)

\* The groups of an item are those its reader listed, or not there yet.
GroupsAreListed ==
  \A i \in DOMAIN items :
    items[i].groups = <<>> \/ SaidGroups(answers, items[i])

\* An item that a stage made of another failed for the context, for a reader,
\* or for want of a resolver, if it failed.
Explained(item, new) ==
  /\ new.groups = item.groups \/ SaidGroups(answers, new)
  /\ \/ new.err = item.err
     \/ new.err.class \in {"context", "evaluation"}
     \/ ~engine.resolver /\ new.err = MissingError("scope_resolver")

\* A recorded step explains itself.
LEMMA StepExplained ==
  ASSUME NEW item \in Item, NEW name \in StageName, NEW result \in StepResult,
         NEW principal \in PrincipalRef, NEW source \in DecisionSource
  PROVE  Explained(item, Step(item, name, result, principal, source))
BY StepType DEF Explained

\* So does a decision made with it.
LEMMA DecideExplained ==
  ASSUME NEW item \in Item, NEW name \in StageName, NEW result \in StepResult,
         NEW principal \in PrincipalRef, NEW source \in DecisionSource,
         NEW decision \in Decision
  PROVE  Explained(item, Decide(Step(item, name, result, principal, source), decision))
<1> DEFINE step == Step(item, name, result, principal, source)
<1>1. step \in Item /\ step.err = item.err /\ step.groups = item.groups
  BY StepType
<1> HIDE DEF step
<1>2. Explained(item, Decide(step, decision))
  BY <1>1, DecideType DEF Explained
<1> QED BY <1>2 DEF step

\* A failed lookup is the failure of the context or of a reader.
LEMMA ReaderFailureExplained ==
  ASSUME NEW item \in Item, NEW name \in StageName, NEW principal \in PrincipalRef,
         TypeOK, NEW l \in DOMAIN seen
  PROVE  Explained(item, ReaderFailure(item, name, principal, seen[l].err))
<1> DEFINE e == seen[l].err
           err == IF e = ctxErr THEN ContextError(e) ELSE EvaluationError(name, e)
           step == Step(item, name, "error", principal, "unset")
<1>1. e \in ReaderFailures \cup ContextErrors \cup {Nil}
  BY DEF TypeOK, Result
<1>2. err \in Err /\ err.class \in {"context", "evaluation"}
  BY <1>1 DEF Err, ContextError, EvaluationError, Error, FailurePlace
<1>3. step \in Item /\ step.groups = item.groups
  BY StepType DEF StepResult, DecisionSource
<1>4. ReaderFailure(item, name, principal, e) = Fail(step, err)
  BY DEF ReaderFailure
<1> HIDE DEF e, err, step
<1>5. Explained(item, Fail(step, err))
  BY <1>2, <1>3, FailType DEF Explained
<1> QED BY <1>4, <1>5 DEF e

\* A yes-or-no question explains itself when both answers do.
LEMMA AnsweredExplained ==
  ASSUME NEW item \in Item, NEW name \in StageName, NEW principal \in PrincipalRef,
         TypeOK, SeenIsKnown, NEW l \in DOMAIN seen, NEW no, NEW yes,
         Explained(item, no), Explained(item, yes)
  PROVE  Explained(item, Answered(item, name, principal, l, no, yes))
<1>1. seen[l].err # Nil \/ SaysYes(seen[l]) \/ SaysNo(seen[l])
  BY SeenWasSaid
<1>2. Answered(item, name, principal, l, no, yes)
        \in {ReaderFailure(item, name, principal, seen[l].err), no, yes}
  BY <1>1 DEF Answered, SaysYes, SaysNo
<1> QED BY <1>2, ReaderFailureExplained

\* The names, marks and principals of the steps of a stage have their types.
LEMMA StepNames ==
  /\ {"resource_scope_verified", "membership_confirmed", "direct_permission_checked",
      "groups_resolved", "group_permissions_checked"} \subseteq StageName
  /\ {"passed", "denied", "skipped", "matched", "not_matched", "resolved", "none",
      "error"} \subseteq StepResult
  /\ {"direct", "group", "none", "unset"} \subseteq DecisionSource
  /\ NoPrincipal \in PrincipalRef
BY NilTypes DEF StageName, StepResult, DecisionSource

\* A denial explains itself.
LEMMA DenyExplained ==
  ASSUME NEW item \in Item, NEW name \in StageName, NEW reason \in DecisionReason
  PROVE  Explained(item, Deny(item, name, reason))
BY StepNames, DenialType, DecideExplained DEF Deny

\* Every stage explains what it makes of an item.
LEMMA OutcomesExplained ==
  ASSUME NEW item \in Item, ~item.done, TypeOK, SeenIsKnown,
         Needs(item) \subseteq DOMAIN seen
  PROVE  /\ stage = ResourceScopes => Explained(item, ResourceScopeOutcome(item))
         /\ stage = Memberships => Explained(item, MembershipOutcome(item))
         /\ stage = DirectPermissions => Explained(item, DirectOutcome(item))
<1> USE DEF ResourceScopes, Memberships, DirectPermissions, Groups, GroupPermissions
<1>1. ASSUME stage = ResourceScopes PROVE Explained(item, ResourceScopeOutcome(item))
  <2> DEFINE name == "resource_scope_verified"
             l == ResourceLookup(item.request)
             Mark(result) == Step(item, name, result, NoPrincipal, "unset")
  <2>1. \A result \in {"skipped", "passed", "error"} :
          Explained(item, Mark(result)) /\ Mark(result) \in Item
    BY StepNames, StepExplained, StepType
  <2>2. CASE ~RequiresResourceScopeCheck(item.request.resource)
    BY <2>1, <2>2 DEF ResourceScopeOutcome
  <2>3. CASE RequiresResourceScopeCheck(item.request.resource) /\ ~engine.resolver
    <3>1. MissingError("scope_resolver") \in Err
      BY DEF MissingError, Error, Err, FailurePlace
    <3>2. ResourceScopeOutcome(item) = Fail(Mark("error"), MissingError("scope_resolver"))
      BY <2>3 DEF ResourceScopeOutcome
    <3>3. Mark("error").groups = item.groups
      BY StepNames, StepType
    <3>4. Mark("error") \in Item
      BY <2>1
    <3> HIDE DEF Mark
    <3>5. /\ Fail(Mark("error"), MissingError("scope_resolver")).groups = item.groups
          /\ Fail(Mark("error"), MissingError("scope_resolver")).err
               = MissingError("scope_resolver")
      BY <3>1, <3>3, <3>4, FailType
    <3> QED BY <2>3, <3>2, <3>5 DEF Explained
  <2>4. CASE RequiresResourceScopeCheck(item.request.resource) /\ engine.resolver
    <3>1. l \in DOMAIN seen
      BY <1>1, <2>4 DEF Needs
    <3>2. ResourceScopeOutcome(item) =
            Answered(item, name, NoPrincipal, l, Deny(item, name, "resource_scope"),
                     Mark("passed"))
      BY <2>4 DEF ResourceScopeOutcome
    <3>3. Explained(item, Deny(item, name, "resource_scope"))
      BY StepNames, DenyExplained DEF DecisionReason
    <3> HIDE DEF Mark
    <3> QED BY <2>1, <3>1, <3>2, <3>3, StepNames, AnsweredExplained
  <2> QED BY <2>2, <2>3, <2>4
<1>2. ASSUME stage = Memberships PROVE Explained(item, MembershipOutcome(item))
  <2> DEFINE name == "membership_confirmed"
  <2>1. MembershipLookup(item.request) \in DOMAIN seen
    BY <1>2 DEF Needs
  <2>2. Explained(item, Step(item, name, "passed", NoPrincipal, "unset"))
    BY StepNames, StepExplained
  <2>3. Explained(item, Deny(item, name, "membership"))
    BY StepNames, DenyExplained DEF DecisionReason
  <2> QED BY <2>1, <2>2, <2>3, StepNames, AnsweredExplained DEF MembershipOutcome
<1>3. ASSUME stage = DirectPermissions PROVE Explained(item, DirectOutcome(item))
  <2> DEFINE name == "direct_permission_checked"
             principal == SubjectPrincipal(item.request.subject)
  <2>1. DirectLookup(item.request) \in DOMAIN seen
    BY <1>3 DEF Needs
  <2>2. principal \in PrincipalRef
    <3>1. item.request.subject \in Ref
      BY DEF Item, Request
    <3> QED BY <3>1, SubjectPrincipalType
  <2>3. Allow("direct_permission", "direct", principal) \in Decision
    BY <2>2 DEF Allow, Decision, DecisionReason, DecisionSource
  <2> HIDE DEF principal
  <2>4. Explained(item, Step(item, name, "not_matched", principal, "unset"))
    BY <2>2, StepNames, StepExplained
  <2>5. Explained(item, Decide(Step(item, name, "matched", principal, "direct"),
                               Allow("direct_permission", "direct", principal)))
    BY <2>2, <2>3, StepNames, DecideExplained
  <2> QED BY <2>1, <2>2, <2>4, <2>5, StepNames, AnsweredExplained
          DEF DirectOutcome, principal
<1> QED BY <1>1, <1>2, <1>3

\* The group stage lists groups, or fails for its reader.
LEMMA GroupsExplained ==
  ASSUME NEW item \in Item, TypeOK, SeenIsKnown, stage = Groups,
         Needs(item) \subseteq DOMAIN seen
  PROVE  Explained(item, GroupsOutcome(item))
<1> DEFINE name == "groups_resolved"
           l == GroupsLookup(item.request)
<1>1. l \in DOMAIN seen
  BY DEF Needs, ResourceScopes, Memberships, DirectPermissions, Groups, GroupPermissions
<1>2. CASE seen[l].err # Nil
  BY <1>1, <1>2, StepNames, ReaderFailureExplained DEF GroupsOutcome
<1>3. CASE seen[l].err = Nil
  <2> DEFINE listed == [item EXCEPT !.groups = seen[l].groups]
             result == IF seen[l].groups = <<>> THEN "none" ELSE "resolved"
             new == Step(listed, name, result, NoPrincipal, "unset")
  <2>1. GroupsOutcome(item) = new
    BY <1>3 DEF GroupsOutcome
  <2>2. seen[l].groups \in GroupLists \cup {<<>>}
    BY <1>1 DEF TypeOK, Result
  <2>3. /\ listed \in Item /\ listed.request = item.request
        /\ listed.groups = seen[l].groups /\ listed.err = item.err
    BY <2>2 DEF Item
  <2>4. result \in StepResult
    BY StepNames
  <2> HIDE DEF listed, result
  <2>5. new.request = item.request /\ new.groups = seen[l].groups /\ new.err = item.err
    BY <2>3, <2>4, StepNames, StepType
  <2>6. [lookup |-> l, result |-> seen[l]] \in answers
    BY <1>1, <1>3, SeenWasSaid
  <2> HIDE DEF new
  <2>7. SaidGroups(answers, new)
    BY <1>3, <2>5, <2>6 DEF SaidGroups
  <2> QED BY <2>1, <2>5, <2>7 DEF Explained
<1> QED BY <1>2, <1>3

\* The last stage decides by groups, or fails for its reader.
LEMMA GroupPermissionExplained ==
  ASSUME NEW item \in Item, TypeOK, stage = GroupPermissions,
         Needs(item) \subseteq DOMAIN seen
  PROVE  Explained(item, GroupPermissionOutcome(item))
<1> DEFINE name == "group_permissions_checked"
           open == {n \in DOMAIN item.groups : ~RuledOut(item, n)}
<1>1. CASE open = {}
  <2>1. Denial("no_permission") \in Decision
    BY DenialType DEF DecisionReason
  <2> QED BY <1>1, <2>1, StepNames, DecideExplained DEF GroupPermissionOutcome
<1>2. CASE open # {}
  <2> DEFINE k == CHOOSE n \in DOMAIN item.groups :
                    Reaches(item, n) /\ ~RuledOut(item, n)
             principal == GroupPrincipal(item.groups[k])
             l == GroupLookup(item, k)
  <2>1. l \in DOMAIN seen /\ principal \in PrincipalRef
    BY <1>2, OpenGroup
  <2>2. Allow("group_permission", "group", principal) \in Decision
    BY <2>1 DEF Allow, Decision, DecisionReason, DecisionSource
  <2>3. GroupPermissionOutcome(item)
          \in {ReaderFailure(item, name, principal, seen[l].err),
               Decide(Step(item, name, "matched", principal, "group"),
                      Allow("group_permission", "group", principal))}
    BY <1>2 DEF GroupPermissionOutcome
  <2> HIDE DEF principal, l
  <2>4. Explained(item, ReaderFailure(item, name, principal, seen[l].err))
    BY <2>1, StepNames, ReaderFailureExplained
  <2>5. Explained(item, Decide(Step(item, name, "matched", principal, "group"),
                               Allow("group_permission", "group", principal)))
    BY <2>1, <2>2, StepNames, DecideExplained
  <2> QED BY <2>3, <2>4, <2>5
<1> QED BY <1>1, <1>2

-----------------------------------------------------------------------------
(* The steps of the pipeline are steps of its abstract specification. *)

\* Both specifications mean the same by the values of the data model.
LEMMA SameValues ==
  /\ Promise!NoError = NoError /\ Promise!NoDecision = NoDecision /\ Promise!Nil = Nil
  /\ \A reason : Promise!Denial(reason) = Denial(reason)
  /\ \A reason, source, principal :
       Promise!Allow(reason, source, principal) = Allow(reason, source, principal)
  /\ \A e : /\ Promise!ContextError(e) = ContextError(e)
            /\ Promise!MissingError(e) = MissingError(e)
BY DEF Promise!NoError, NoError, Promise!NoDecision, NoDecision, Promise!NoPrincipal,
   NoPrincipal, Promise!Nil, Nil, Promise!Denial, Denial, Promise!Allow, Allow,
   Promise!Error, Error, Promise!ContextError, ContextError, Promise!MissingError,
   MissingError

\* And by a valid request.
LEMMA SameValidity == \A r : Promise!IsValid(r) <=> IsValid(r)
BY DEF Promise!IsValid, IsValid, Promise!BlankFields, BlankFields, Promise!RequiredFields,
   RequiredFields

\* And by the failure of an invalid one.
LEMMA SameValidation == \A r : Promise!ValidateRequest(r) = ValidateRequest(r)
BY SameValues, SameValidity DEF Promise!ValidateRequest, ValidateRequest,
   Promise!BlankFields, BlankFields, Promise!RequiredFields, RequiredFields,
   Promise!ValidationError, ValidationError, Promise!Error, Error, Promise!Min, Min,
   Promise!Nil, Nil

\* And by a lookup.
LEMMA SameLookups ==
  /\ \A g : /\ Promise!GroupPrincipal(g) = GroupPrincipal(g)
            /\ Promise!SubjectPrincipal(g) = SubjectPrincipal(g)
  /\ \A r : /\ Promise!ResourceLookup(r) = ResourceLookup(r)
            /\ Promise!MembershipLookup(r) = MembershipLookup(r)
            /\ Promise!GroupsLookup(r) = GroupsLookup(r)
            /\ Promise!DirectLookup(r) = DirectLookup(r)
  /\ \A p, r : Promise!PermissionLookup(p, r) = PermissionLookup(p, r)
BY DEF Promise!GroupPrincipal, GroupPrincipal, Promise!SubjectPrincipal,
   SubjectPrincipal, Promise!ResourceLookup, ResourceLookup, Promise!MembershipLookup,
   MembershipLookup, Promise!GroupsLookup, GroupsLookup, Promise!DirectLookup,
   DirectLookup, Promise!PermissionLookup, PermissionLookup, Promise!Lookup, Lookup

\* And by a "yes" among the answers.
LEMMA SameYes == \A A, l : Promise!SaidYes(A, l) <=> SaidYes(A, l)
BY DEF Promise!SaidYes, SaidYes, Promise!SaysYes, SaysYes, Promise!Nil, Nil

\* And by a "no".
LEMMA SameNo == \A A, l : Promise!SaidNo(A, l) <=> SaidNo(A, l)
BY DEF Promise!SaidNo, SaidNo, Promise!SaysNo, SaysNo, Promise!Nil, Nil

\* And by a resource in its scope.
LEMMA SameScope == \A A, r : Promise!InScope(A, r) <=> InScope(A, r)
<1> QED BY SameYes DEF Promise!InScope, InScope, Promise!ResourceLookup, ResourceLookup,
       Promise!Lookup, Lookup, Promise!RequiresResourceScopeCheck,
       RequiresResourceScopeCheck

\* And by a member.
LEMMA SameMembers == \A A, r : Promise!IsMember(A, r) <=> IsMember(A, r)
BY SameYes DEF Promise!IsMember, IsMember, Promise!MembershipLookup, MembershipLookup,
   Promise!Lookup, Lookup

\* And by a request that is admitted.
LEMMA SameAdmission ==
  \A A, r : Promise!Admitted(A, r) <=> IsValid(r) /\ InScope(A, r) /\ IsMember(A, r)
<1>1. ASSUME NEW A, NEW r
      PROVE  Promise!Admitted(A, r) <=> IsValid(r) /\ InScope(A, r) /\ IsMember(A, r)
  <2>1. Promise!IsValid(r) <=> IsValid(r)
    BY SameValidity
  <2>2. Promise!InScope(A, r) <=> InScope(A, r)
    BY SameScope
  <2>3. Promise!IsMember(A, r) <=> IsMember(A, r)
    BY SameMembers
  <2> QED BY <2>1, <2>2, <2>3, Zenon DEF Promise!Admitted
<1> QED BY <1>1

\* What an item's outcome may rest on concerns its request.
LEMMA OwnIsConcern ==
  ASSUME NEW item, item.groups = <<>> \/ SaidGroups(answers, item)
  PROVE  OwnLookups(item) \subseteq Promise!Concerns(answers, item.request)
<1>1. SaidGroups(answers, item) => item.groups \in Promise!Lists(answers, item.request)
  BY SameValues, SameLookups DEF SaidGroups, Promise!Lists
<1>2. \A k : GroupLookup(item, k) = Promise!GroupCheck(item.request, item.groups[k])
  BY SameLookups DEF GroupLookup, Promise!GroupCheck
<1> QED BY <1>1, <1>2, SameLookups DEF OwnLookups, Promise!Concerns

\* A sound and explained item has the outcome the abstract specification allows.
LEMMA OutcomePromised ==
  ASSUME NEW item \in Item, NEW s \in Int, Sound(answers, ctxErr, item, s), item.done,
         item.groups = <<>> \/ SaidGroups(answers, item),
         item.err # NoError => Promise!FailsFor(answers, item.request, item.err)
                               \/ item.err.class \in {"context", "evaluation"}
  PROVE  \/ /\ item.err = NoError
            /\ \/ Promise!AllowedBy(answers, item.request, item.decision)
               \/ Promise!DeniedBy(answers, item.request, item.decision)
         \/ item.decision = NoDecision /\ Promise!FailsFor(answers, item.request, item.err)
<1> DEFINE r == item.request
<1>1. SaidGroups(answers, item) => item.groups \in Promise!Lists(answers, r)
  BY SameValues, SameLookups DEF SaidGroups, Promise!Lists
<1>2. \A k : GroupLookup(item, k) = Promise!GroupCheck(r, item.groups[k])
  BY SameLookups DEF GroupLookup, Promise!GroupCheck
<1>3. item.groups \in Seq(Ref) /\ DOMAIN item.groups \subseteq Nat
  BY GroupsAreRefs
<1>4. CASE item.err = NoError /\ item.decision.allowed
  <2>1. Earned(answers, item)
    BY <1>4 DEF Sound
  <2>2. Promise!Admitted(answers, r)
    BY <2>1, SameAdmission DEF Earned
  <2>3. CASE item.decision = Allow("direct_permission", "direct", SubjectPrincipal(r.subject))
             /\ SaidYes(answers, DirectLookup(r))
    BY <1>4, <2>2, <2>3, SameValues, SameLookups, SameYes DEF Promise!AllowedBy
  <2>4. ASSUME NEW k \in DOMAIN item.groups, MatchesFirst(answers, item, k),
               SaidNo(answers, DirectLookup(r)), SaidGroups(answers, item),
               item.decision = Allow("group_permission", "group",
                                     GroupPrincipal(item.groups[k]))
        PROVE  Promise!AllowedBy(answers, r, item.decision)
    <3>1. \A j \in 1..(k - 1) : j \in DOMAIN item.groups /\ j < k
      BY <1>3
    <3>2. /\ SaidYes(answers, Promise!GroupCheck(r, item.groups[k]))
          /\ \A j \in 1..(k - 1) : SaidNo(answers, Promise!GroupCheck(r, item.groups[j]))
      BY <1>2, <2>4, <3>1, SameYes, SameNo DEF MatchesFirst
    <3> QED BY <1>1, <2>2, <2>4, <3>2, SameValues, SameLookups, SameNo, SameYes DEF Promise!AllowedBy
  <2> QED BY <1>4, <2>1, <2>3, <2>4 DEF Earned
<1>5. CASE item.err = NoError /\ ~item.decision.allowed
  <2>1. Evidenced(answers, item)
    BY <1>5 DEF Sound
  <2>2. Promise!DeniedBy(answers, r, item.decision)
    <3>1. CASE item.decision = Denial("resource_scope") /\ SaidNo(answers, ResourceLookup(r))
      BY <3>1, SameValues, SameLookups, SameNo DEF Promise!DeniedBy
    <3>2. CASE /\ item.decision = Denial("membership") /\ InScope(answers, r)
               /\ SaidNo(answers, MembershipLookup(r))
      BY <3>2, SameValues, SameLookups, SameNo, SameScope DEF Promise!DeniedBy
    <3>3. CASE /\ item.decision = Denial("no_permission")
               /\ IsValid(r) /\ InScope(answers, r) /\ IsMember(answers, r)
               /\ SaidNo(answers, DirectLookup(r)) /\ SaidGroups(answers, item)
               /\ \A k \in DOMAIN item.groups : SaidNo(answers, GroupLookup(item, k))
      <4>1. \A k \in DOMAIN item.groups :
              SaidNo(answers, Promise!GroupCheck(r, item.groups[k]))
        BY <1>2, <3>3
      <4>2. item.groups \in Promise!Lists(answers, r) /\ Promise!Admitted(answers, r)
        BY <1>1, <3>3, SameAdmission
      <4> QED BY <3>3, <4>1, <4>2, SameValues, SameLookups, SameNo DEF Promise!DeniedBy
    <3> QED BY <2>1, <3>1, <3>2, <3>3 DEF Evidenced
  <2> QED BY <1>5, <2>2
<1>6. CASE item.err # NoError
  <2>1. item.decision = NoDecision /\ Owned(answers, ctxErr, item)
    BY <1>6 DEF Sound, Owned
  <2>2. CASE item.err.class = "context"
    BY <2>1, <2>2, SameValues DEF Owned, Promise!FailsFor
  <2>3. CASE item.err.class = "evaluation"
    <3>1. OwnLookups(item) \subseteq Promise!Concerns(answers, r)
      BY OwnIsConcern
    <3> QED BY <2>1, <2>3, <3>1, SameValues DEF Owned, Promise!FailsFor
  <2> QED BY <1>6, <2>1, <2>2, <2>3
<1> QED BY <1>4, <1>5, <1>6

\* What an item shows of itself at the abstract level.
Shown(item) ==
  [request |-> item.request, done |-> item.done, decision |-> item.decision,
   err |-> item.err]

\* Items that change as promised, or not at all, make a step of Settle.
LEMMA SettlePromised ==
  ASSUME UNCHANGED <<engine, answers, ctxErr>>, DOMAIN items' = DOMAIN items,
         \A i \in DOMAIN items :
           \/ Shown(items'[i]) = Shown(items[i])
           \/ /\ ~items[i].done /\ items'[i].done
              /\ items'[i].request = items[i].request
              /\ \/ /\ items'[i].err = NoError
                    /\ \/ Promise!AllowedBy(answers, items[i].request, items'[i].decision)
                       \/ Promise!DeniedBy(answers, items[i].request, items'[i].decision)
                 \/ /\ items'[i].decision = NoDecision
                    /\ Promise!FailsFor(answers, items[i].request, items'[i].err)
  PROVE  Promise!Settle
BY SameValues DEF Promise!Settle, Shown

\* Settling one item.
LEMMA SettleOnePromised ==
  ASSUME IInv, GroupsAreListed, NEW i \in todo, NEW item \in Item, Settle(i, item),
         item.request = items[i].request, Sound(answers, ctxErr, item, stage),
         Explained(items[i], item)
  PROVE  Promise!Settle /\ GroupsAreListed'
<1>1. /\ i \in DOMAIN items /\ items \in Seq(Item) /\ items[i] \in Item
      /\ ~items[i].done /\ stage \in Int
  BY SettleReady DEF IInv, TypeOK, Pending, Started, Returned
<1>2. /\ DOMAIN items' = DOMAIN items /\ items'[i] = item
      /\ \A j \in DOMAIN items : j # i => items'[j] = items[j]
      /\ UNCHANGED <<engine, ctxErr, answers>>
  BY <1>1 DEF Settle
<1>3. items[i].err = NoError /\ items[i].decision = NoDecision
  BY <1>1, SettleReady DEF Sound
<1>4. item.groups = <<>> \/ SaidGroups(answers, item)
  <2>1. items[i].groups = <<>> \/ SaidGroups(answers, items[i])
    BY <1>1 DEF GroupsAreListed
  <2> QED BY <2>1 DEF Explained, SaidGroups
<1>5. GroupsAreListed'
  <2> SUFFICES ASSUME NEW j \in DOMAIN items
               PROVE  items'[j].groups = <<>> \/ SaidGroups(answers, items'[j])
    BY <1>2 DEF GroupsAreListed
  <2> QED BY <1>2, <1>4 DEF GroupsAreListed
<1>6. CASE ~item.done
  <2>1. item.err = NoError /\ item.decision = NoDecision /\ item.done = items[i].done
    BY <1>1, <1>6 DEF Sound, Item
  <2>2. Shown(item) = Shown(items[i])
    BY <1>3, <2>1 DEF Shown
  <2> QED BY <1>2, <1>5, <2>2, SettlePromised
<1>7. CASE item.done
  <2>1. item.err # NoError => Promise!FailsFor(answers, item.request, item.err)
                              \/ item.err.class \in {"context", "evaluation"}
    BY <1>3, SameValues DEF Explained, Promise!FailsFor, Promise!MissingBackends
  <2> QED BY <1>1, <1>2, <1>4, <1>5, <1>7, <2>1, OutcomePromised, SettlePromised
<1> QED BY <1>6, <1>7

\* Each of the five reader stages settles an item as promised.
LEMMA SettleStepsPromised ==
  ASSUME IInv, GroupsAreListed, NEW i \in todo,
         \/ VerifyResourceScope(i)
         \/ ConfirmMembership(i)
         \/ CheckDirectPermission(i)
         \/ ResolveGroups(i)
         \/ CheckGroupPermission(i)
  PROVE  Promise!Settle /\ GroupsAreListed'
<1>1. CASE VerifyResourceScope(i)
  <2>1. stage = ResourceScopes /\ Settle(i, ResourceScopeOutcome(items[i]))
    BY <1>1 DEF VerifyResourceScope
  <2>2. Sound(answers, ctxErr, items[i], Configured)
    BY <2>1, SettleReady DEF ResourceScopes, Configured
  <2> QED BY <2>1, <2>2, SettleReady, ResourceScopeSound, OutcomesExplained,
             SettleOnePromised
<1>2. CASE ConfirmMembership(i)
  <2>1. stage = Memberships /\ Settle(i, MembershipOutcome(items[i]))
    BY <1>2 DEF ConfirmMembership
  <2>2. Sound(answers, ctxErr, items[i], ResourceScopes)
    BY <2>1, SettleReady DEF Memberships, ResourceScopes
  <2> QED BY <2>1, <2>2, SettleReady, MembershipSound, OutcomesExplained,
             SettleOnePromised
<1>3. CASE CheckDirectPermission(i)
  <2>1. stage = DirectPermissions /\ Settle(i, DirectOutcome(items[i]))
    BY <1>3 DEF CheckDirectPermission
  <2>2. Sound(answers, ctxErr, items[i], Memberships)
    BY <2>1, SettleReady DEF DirectPermissions, Memberships
  <2> QED BY <2>1, <2>2, SettleReady, DirectSound, OutcomesExplained,
             SettleOnePromised
<1>4. CASE ResolveGroups(i)
  <2>1. stage = Groups /\ Settle(i, GroupsOutcome(items[i]))
    BY <1>4 DEF ResolveGroups
  <2>2. Sound(answers, ctxErr, items[i], DirectPermissions)
    BY <2>1, SettleReady DEF Groups, DirectPermissions
  <2> QED BY <2>1, <2>2, SettleReady, GroupsSound, GroupsExplained, SettleOnePromised
<1>5. CASE CheckGroupPermission(i)
  <2>1. stage = GroupPermissions /\ Settle(i, GroupPermissionOutcome(items[i]))
    BY <1>5 DEF CheckGroupPermission
  <2>2. Sound(answers, ctxErr, items[i], Groups)
    BY <2>1, SettleReady DEF GroupPermissions, Groups
  <2> QED BY <2>1, <2>2, SettleReady, GroupPermissionSound, GroupPermissionExplained,
             SettleOnePromised
<1> QED BY <1>1, <1>2, <1>3, <1>4, <1>5

\* Failing what is pending, for a reason that holds of every request.
LEMMA FailPendingPromised ==
  ASSUME IInv, GroupsAreListed, NEW err \in Err, items' = FailPending(err),
         UNCHANGED <<engine, answers, ctxErr>>,
         \A i \in DOMAIN items : Promise!FailsFor(answers, items[i].request, err)
  PROVE  Promise!Settle /\ GroupsAreListed'
<1>1. DOMAIN items' = DOMAIN items
  BY DEF FailPending
<1>2. ASSUME NEW i \in DOMAIN items
      PROVE  /\ items'[i].request = items[i].request /\ items'[i].groups = items[i].groups
             /\ \/ items'[i] = items[i]
                \/ /\ ~items[i].done /\ items'[i].done /\ items'[i].err = err
                   /\ items'[i].decision = NoDecision
  <2>1. CASE items[i].done
    BY <2>1 DEF FailPending, Pending
  <2>2. CASE ~items[i].done
    <3>1. items[i] \in Item /\ items[i].decision = NoDecision
      BY <2>2 DEF IInv, TypeOK, Sound
    <3>2. items'[i] = Fail(items[i], err)
      BY <2>2 DEF FailPending, Pending
    <3>3. /\ Fail(items[i], err).request = items[i].request
          /\ Fail(items[i], err).groups = items[i].groups
          /\ Fail(items[i], err).decision = NoDecision
          /\ Fail(items[i], err).err = err /\ Fail(items[i], err).done
      BY <3>1, FailType
    <3> QED BY <2>2, <3>2, <3>3
  <2> QED BY <2>1, <2>2
<1>3. Promise!Settle
  BY <1>1, <1>2, SettlePromised DEF Shown
<1>4. GroupsAreListed'
  BY <1>1, <1>2 DEF GroupsAreListed, SaidGroups
<1> QED BY <1>3, <1>4

\* Validation fails a request for its own fields, or leaves it undecided.
LEMMA ValidatePromised ==
  ASSUME IInv, GroupsAreListed, Validate
  PROVE  Promise!Settle /\ GroupsAreListed'
<1>1. /\ UNCHANGED <<engine, answers, ctxErr>> /\ DOMAIN items' = DOMAIN items
      /\ \A i \in DOMAIN items : items'[i] = ValidationOutcome(items[i])
  BY DEF Validate
<1>2. ASSUME NEW i \in DOMAIN items
      PROVE  LET item == items[i]
                 new == ValidationOutcome(item)
             IN /\ new.request = item.request /\ new.groups = item.groups
                /\ \/ Shown(new) = Shown(item)
                   \/ /\ ~item.done /\ new.done /\ new.decision = NoDecision
                      /\ ~IsValid(item.request) /\ new.err = ValidateRequest(item.request)
  <2> DEFINE item == items[i]
             step(result) == Step(item, "request_validated", result, NoPrincipal, "unset")
  <2>1. item \in Item /\ ~item.done /\ item.decision = NoDecision
    BY DEF Validate, IInv, TypeOK, Pending, Sound
  <2>2. \A result \in {"passed", "failed"} :
          /\ step(result) \in Item /\ step(result).request = item.request
          /\ step(result).decision = item.decision /\ step(result).err = item.err
          /\ step(result).done = item.done /\ step(result).groups = item.groups
    <3>1. /\ "request_validated" \in StageName /\ {"passed", "failed"} \subseteq StepResult
          /\ NoPrincipal \in PrincipalRef /\ "unset" \in DecisionSource
      BY StepNames DEF StageName, StepResult
    <3> QED BY <2>1, <3>1, StepType
  <2>3. CASE IsValid(item.request)
    <3>1. ValidationOutcome(item) = step("passed")
      BY <2>3 DEF ValidationOutcome
    <3> HIDE DEF step
    <3> QED BY <2>2, <3>1 DEF Shown
  <2>4. CASE ~IsValid(item.request)
    <3>1. ValidationOutcome(item) = Fail(step("failed"), ValidateRequest(item.request))
      BY <2>4 DEF ValidationOutcome
    <3>2. ValidateRequest(item.request) \in Err
      BY <2>4, ValidateRequestType
    <3>3. step("failed") \in Item
      BY <2>2
    <3> HIDE DEF step
    <3>4. /\ step("failed").request = item.request
          /\ step("failed").decision = NoDecision
          /\ step("failed").groups = item.groups
      BY <2>1, <2>2
    <3> DEFINE failed == step("failed")
               err == ValidateRequest(item.request)
    <3> HIDE DEF failed, err, item
    <3>5. /\ Fail(failed, err).request = failed.request
          /\ Fail(failed, err).decision = failed.decision
          /\ Fail(failed, err).groups = failed.groups
          /\ Fail(failed, err).err = err /\ Fail(failed, err).done
      BY <3>2, <3>3, FailType DEF failed, err
    <3> QED BY <2>1, <2>4, <3>1, <3>4, <3>5 DEF failed, err, item
  <2> QED BY <2>3, <2>4
<1>3. ASSUME NEW i \in DOMAIN items, ~IsValid(items[i].request),
             NEW err, err = ValidateRequest(items[i].request)
      PROVE  Promise!FailsFor(answers, items[i].request, err)
  BY <1>3, SameValidity, SameValidation DEF Promise!FailsFor
<1>4. Promise!Settle
  BY <1>1, <1>2, <1>3, SettlePromised
<1>5. GroupsAreListed'
  BY <1>1, <1>2 DEF GroupsAreListed, SaidGroups
<1> QED BY <1>4, <1>5

\* A missing backend fails what is pending.
LEMMA CheckConfigurationPromised ==
  ASSUME IInv, GroupsAreListed, CheckConfiguration
  PROVE  (Promise!Settle \/ UNCHANGED Promise!vars) /\ GroupsAreListed'
<1>1. UNCHANGED <<engine, answers, ctxErr>>
  BY DEF CheckConfiguration
<1>2. CASE items' = items
  BY <1>1, <1>2 DEF Promise!vars, GroupsAreListed
<1>3. ASSUME NEW what \in {"membership_reader", "group_reader", "permission_reader"},
             items' = FailPending(MissingError(what)),
             what = "membership_reader" => ~engine.memberships,
             what = "group_reader" => ~engine.groups,
             what = "permission_reader" => engine.permissions = "none"
      PROVE  Promise!Settle /\ GroupsAreListed'
  <2>1. MissingError(what) \in Err
    BY DEF MissingError, Error, Err, FailurePlace
  <2>2. what \in Promise!MissingBackends
    BY <1>3 DEF Promise!MissingBackends
  <2>3. \A i \in DOMAIN items :
          Promise!FailsFor(answers, items[i].request, MissingError(what))
    BY <2>2, SameValues DEF Promise!FailsFor
  <2> QED BY <1>1, <1>3, <2>1, <2>3, FailPendingPromised
<1>4. \/ items' = items
      \/ ~engine.memberships /\ items' = FailPending(MissingError("membership_reader"))
      \/ ~engine.groups /\ items' = FailPending(MissingError("group_reader"))
      \/ /\ engine.permissions = "none"
         /\ items' = FailPending(MissingError("permission_reader"))
  BY DEF CheckConfiguration
<1> QED BY <1>2, <1>3, <1>4

\* A stage that finds the context done fails what is pending with its error.
LEMMA SkipStagePromised ==
  ASSUME IInv, GroupsAreListed, SkipStage
  PROVE  Promise!Settle /\ GroupsAreListed'
<1>1. /\ ctxErr # Nil /\ items' = FailPending(ContextError(ctxErr))
      /\ UNCHANGED <<engine, answers, ctxErr>>
  BY DEF SkipStage
<1>2. ContextError(ctxErr) \in Err
  BY DEF IInv, TypeOK, ContextError, Error, Err, FailurePlace
<1>3. \A i \in DOMAIN items :
        Promise!FailsFor(answers, items[i].request, ContextError(ctxErr))
  BY <1>1, SameValues DEF Promise!FailsFor
<1> QED BY <1>1, <1>2, <1>3, FailPendingPromised

\* What is asked is of use to a request that waits for it.
LEMMA CallsAreUseful ==
  ASSUME IInv, CallInv, GroupsAreListed, NEW l \in call
  PROVE  \E i \in DOMAIN items :
           ~items[i].done /\ l \in Promise!Useful(answers, items[i].request)
<1>1. PICK i \in todo : l \in Needs(items[i])
  BY DEF CallInv, CallsAreWaitedFor, Missing
<1> DEFINE r == items[i].request
<1>2. i \in DOMAIN items /\ ~items[i].done
  BY DEF IInv, TypeOK, Pending
<1>3. stage \in 3..7 /\ AskedAt(l) = stage
  BY CallsAreNew, EveryLookupHasAStage
  DEF IInv, TypeOK, ResourceScopes, GroupPermissions
<1>4. Passed(answers, items[i], stage - 1)
  BY <1>2 DEF IInv, Past, Sound
<1>5. /\ IsValid(r)
      /\ stage # ResourceScopes => InScope(answers, r)
      /\ stage \notin {ResourceScopes, Memberships} => IsMember(answers, r)
      /\ stage = Groups => SaidNo(answers, DirectLookup(r))
  BY <1>3, <1>4 DEF Passed, Validated, ResourceScopes, Memberships, DirectPermissions,
     Groups
<1>6. /\ stage = ResourceScopes =>
           l = ResourceLookup(r) /\ RequiresResourceScopeCheck(r.resource)
      /\ l = ResourceLookup(r) => stage = ResourceScopes
      /\ l.reader \in {"HasPermission", "GroupsForSubject"} =>
           stage \notin {ResourceScopes, Memberships}
      /\ l = GroupsLookup(r) => stage = Groups
  BY <1>1, <1>3 DEF Needs, AskedAt, ResourceLookup, GroupsLookup, Lookup,
     ResourceScopes, Memberships, DirectPermissions, Groups, GroupPermissions
<1>7. l \in Promise!Concerns(answers, r)
  BY <1>1, <1>2, NeedsAreOwn, OwnIsConcern DEF GroupsAreListed
<1>8. /\ Promise!IsValid(r)
      /\ l = ResourceLookup(r) => Promise!RequiresResourceScopeCheck(r.resource)
      /\ l # ResourceLookup(r) => Promise!InScope(answers, r)
      /\ l.reader \in {"HasPermission", "GroupsForSubject"} =>
           Promise!IsMember(answers, r)
      /\ l = GroupsLookup(r) => Promise!SaidNo(answers, DirectLookup(r))
  <2>1. /\ Promise!IsValid(r) <=> IsValid(r)
        /\ Promise!InScope(answers, r) <=> InScope(answers, r)
        /\ Promise!SaidNo(answers, DirectLookup(r)) <=> SaidNo(answers, DirectLookup(r))
    BY SameValidity, SameScope, SameNo
  <2>2. Promise!IsMember(answers, r) <=> IsMember(answers, r)
    BY SameMembers
  <2>3. Promise!RequiresResourceScopeCheck(r.resource)
          <=> RequiresResourceScopeCheck(r.resource)
    BY DEF Promise!RequiresResourceScopeCheck, RequiresResourceScopeCheck
  <2> QED BY <1>5, <1>6, <2>1, <2>2, <2>3
<1>9. l \in Promise!Useful(answers, r)
  BY <1>7, <1>8, SameLookups DEF Promise!Useful
<1> QED BY <1>2, <1>9

\* A reader that answers tells what was not known, of use to a pending request.
LEMMA ReaderReturnsPromised ==
  ASSUME IInv, CallInv, GroupsAreListed, ReaderReturns
  PROVE  Promise!Learn /\ GroupsAreListed'
<1>1. PICK results : answers' = answers \cup {[lookup |-> l, result |-> results[l]] : l \in call}
  BY DEF ReaderReturns
<1>2. UNCHANGED <<engine, items, ctxErr>> /\ answers \subseteq answers'
  BY <1>1 DEF ReaderReturns
<1>3. \A a, b \in answers' : a.lookup = b.lookup => a = b
  BY RepliesAreKept DEF CallInv, AnswersAreKept
<1>4. \A a \in answers' \ answers : a.lookup \in call
  BY <1>1
<1>5. Promise!Learn
  BY <1>2, <1>3, <1>4, CallsAreUseful DEF Promise!Learn
<1>6. GroupsAreListed'
  BY <1>2 DEF GroupsAreListed, SaidGroups
<1> QED BY <1>5, <1>6

\* A run starts as promised.
LEMMA InitPromised == Init => Promise!Init /\ GroupsAreListed
<1> SUFFICES ASSUME Init PROVE Promise!Init /\ GroupsAreListed
  OBVIOUS
<1>1. \A i \in DOMAIN items : \E r : items[i] = NewItem(r)
  BY DEF Init
<1>2. \A i \in DOMAIN items : /\ items[i].groups = <<>> /\ ~items[i].done
                              /\ items[i].decision = NoDecision /\ items[i].err = NoError
  BY <1>1 DEF NewItem
<1>3. answers = {} /\ ctxErr = Nil
  BY DEF Init
<1> QED BY <1>2, <1>3, SameValues DEF Promise!Init, GroupsAreListed

\* Every step is one of the abstract specification, or changes nothing there.
LEMMA NextPromised ==
  ASSUME IInv, CallInv, GroupsAreListed, [Next]_vars
  PROVE  [Promise!Next]_Promise!vars /\ GroupsAreListed'
<1>1. CASE Validate
  BY <1>1, ValidatePromised DEF Promise!Next
<1>2. CASE CheckConfiguration
  BY <1>2, CheckConfigurationPromised DEF Promise!Next
<1>3. CASE SkipStage
  BY <1>3, SkipStagePromised DEF Promise!Next
<1>4. CASE \E i \in todo : \/ VerifyResourceScope(i) \/ ConfirmMembership(i)
                          \/ CheckDirectPermission(i) \/ ResolveGroups(i)
                          \/ CheckGroupPermission(i)
  BY <1>4, SettleStepsPromised DEF Promise!Next
<1>5. CASE ReaderReturns
  BY <1>5, ReaderReturnsPromised DEF Promise!Next
<1>6. CASE Cancel
  <2>1. /\ ctxErr = Nil /\ ctxErr' # Nil /\ UNCHANGED <<engine, items, answers>>
    BY <1>6, PipelineAssumption DEF Cancel, PipelineAssumption
  <2>2. Promise!End
    BY <2>1, SameValues DEF Promise!End
  <2> QED BY <2>1, <2>2 DEF Promise!Next, GroupsAreListed
<1>7. CASE EnterStage \/ CallReader \/ RefuseCall \/ Return \/ UNCHANGED vars
  <2>1. UNCHANGED <<engine, items, answers, ctxErr>>
    BY <1>7 DEF EnterStage, CallReader, RefuseCall, Return, vars
  <2> QED BY <2>1 DEF Promise!vars, GroupsAreListed
<1> QED BY <1>1, <1>2, <1>3, <1>4, <1>5, <1>6, <1>7 DEF Next, RunStep, Done

\* The staged, memoised, batched run does nothing its abstract specification
\* does not allow: it asks only what is of use and still unknown, and settles
\* every request by what the request's own facts say.
THEOREM KeepsPromiseSafely == Spec => Promise!Safety
<1>1. Init => Promise!Init /\ GroupsAreListed
  BY InitPromised
<1>2. /\ IInv /\ CallInv /\ GroupsAreListed /\ [Next]_vars
      => [Promise!Next]_Promise!vars /\ GroupsAreListed'
  BY NextPromised
<1> QED BY <1>1, <1>2, CallsInvariant, PTL DEF Spec, Promise!Safety

-----------------------------------------------------------------------------
(* The outcomes of a batch: equal requests have equal ones, and a trace tells *)
(* the outcome it belongs to.  While a stage is settling its items, one of two *)
(* equal requests may have its outcome and the other not yet; what keeps them *)
(* together is that the memo, which only grows, already leads the other to the *)
(* same outcome.                                                             *)

Goes(item) == item.done = FALSE /\ item.err = NoError /\ item.decision = NoDecision

Fails(item) == item.done = TRUE /\ item.err # NoError /\ item.decision = NoDecision

Comes(item, decision) ==
  item.done = TRUE /\ item.err = NoError /\ item.decision = decision

\* What a lookup in the memo makes of an item, by what no and yes make of it.
Reads(memo, l, item, no, yes) ==
  /\ l \in DOMAIN memo
  /\ IF memo[l].err # Nil THEN Fails(item) ELSE IF memo[l].ok THEN yes ELSE no

LeadsByGroups(memo, item, new) ==
  \/ /\ \A k \in DOMAIN item.groups :
          GroupLookup(item, k) \in DOMAIN memo /\ SaysNo(memo[GroupLookup(item, k)])
     /\ Comes(new, Denial("no_permission"))
  \/ \E k \in DOMAIN item.groups :
       /\ \A j \in DOMAIN item.groups :
            j < k => /\ GroupLookup(item, j) \in DOMAIN memo
                     /\ SaysNo(memo[GroupLookup(item, j)])
       /\ Reads(memo, GroupLookup(item, k), new, FALSE,
                Comes(new, Allow("group_permission", "group",
                                 GroupPrincipal(item.groups[k]))))

\* At this stage a memo leads from one item to another.
Leads(memo, item, new) ==
  LET r == item.request
  IN /\ new.request = r
     /\ stage # Groups => new.groups = item.groups
     /\ stage = ResourceScopes =>
          IF ~RequiresResourceScopeCheck(r.resource) THEN Goes(new)
          ELSE IF ~engine.resolver THEN Fails(new)
          ELSE Reads(memo, ResourceLookup(r), new,
                     Comes(new, Denial("resource_scope")), Goes(new))
     /\ stage = Memberships =>
          Reads(memo, MembershipLookup(r), new, Comes(new, Denial("membership")), Goes(new))
     /\ stage = DirectPermissions =>
          Reads(memo, DirectLookup(r), new, Goes(new),
                Comes(new, Allow("direct_permission", "direct", SubjectPrincipal(r.subject))))
     /\ stage = Groups =>
          /\ GroupsLookup(r) \in DOMAIN memo
          /\ IF memo[GroupsLookup(r)].err # Nil
               THEN Fails(new) /\ new.groups = item.groups
               ELSE Goes(new) /\ new.groups = memo[GroupsLookup(r)].groups
     /\ stage = GroupPermissions => LeadsByGroups(memo, item, new)

Alike(a, b) ==
  /\ a.request = b.request /\ a.groups = b.groups
  /\ a.done = b.done /\ a.decision = b.decision
  /\ (a.err = NoError) = (b.err = NoError)

EqualsGoTogether ==
  \A i, j \in DOMAIN items :
    items[i].request = items[j].request =>
      /\ (i \in todo <=> j \in todo) => Alike(items[i], items[j])
      /\ i \notin todo /\ j \in todo => Leads(seen, items[j], items[i])

\* Steps that name no source, and are no error.
Quiet(steps) ==
  \A n \in DOMAIN steps : steps[n].source = "unset" /\ steps[n].result # "error"

Traced(item) ==
  LET steps == item.trace
  IN /\ ~item.done => Quiet(steps)
     /\ item.done /\ item.err # NoError => \A n \in DOMAIN steps : steps[n].source = "unset"
     /\ item.done /\ item.err = NoError =>
          /\ steps # <<>>
          /\ item.decision.source # "unset"
          /\ \A n \in DOMAIN steps :
               /\ steps[n].result # "error"
               /\ steps[n].source = IF n = Len(steps) THEN item.decision.source ELSE "unset"

TracesTell == withTrace => \A i \in DOMAIN items : Traced(items[i])

OutcomeInv == EqualsGoTogether /\ TracesTell

-----------------------------------------------------------------------------
(* Leading somewhere. *)

\* What a memo leads to, a larger one does.
LEMMA LargerMemoLeads ==
  ASSUME NEW memo, NEW larger, DOMAIN memo \subseteq DOMAIN larger,
         \A l \in DOMAIN memo : larger[l] = memo[l],
         NEW item, NEW new, Leads(memo, item, new)
  PROVE  Leads(larger, item, new)
<1>1. \A l : \A no, yes \in BOOLEAN :
        Reads(memo, l, new, no, yes) => Reads(larger, l, new, no, yes)
  BY DEF Reads
<1>2. LeadsByGroups(memo, item, new) => LeadsByGroups(larger, item, new)
  BY DEF LeadsByGroups, Reads
<1> QED BY <1>2 DEF Leads, Reads

\* A memo leads equal items to the same outcome.
LEMMA LeadsOneWay ==
  ASSUME NEW memo, NEW a \in Item, NEW b \in Item, NEW c, NEW d,
         a.request = b.request, a.groups = b.groups,
         Leads(memo, a, c), Leads(memo, b, d), stage \in ResourceScopes..GroupPermissions
  PROVE  Alike(c, d)
<1> USE DEF ResourceScopes, Memberships, DirectPermissions, Groups, GroupPermissions
<1>1. CASE stage = ResourceScopes
  BY <1>1 DEF Leads, Reads, Alike, Goes, Fails, Comes
<1>2. CASE stage = Memberships
  BY <1>2 DEF Leads, Reads, Alike, Goes, Fails, Comes
<1>3. CASE stage = DirectPermissions
  BY <1>3 DEF Leads, Reads, Alike, Goes, Fails, Comes
<1>4. CASE stage = Groups
  BY <1>4 DEF Leads, Alike, Goes, Fails
<1>5. CASE stage = GroupPermissions
  <2> DEFINE no(k) == /\ GroupLookup(a, k) \in DOMAIN memo
                      /\ SaysNo(memo[GroupLookup(a, k)])
             ended(new, k) ==
               /\ \A j \in DOMAIN a.groups : j < k => no(j)
               /\ ~no(k)
               /\ IF memo[GroupLookup(a, k)].err # Nil THEN Fails(new)
                  ELSE Comes(new, Allow("group_permission", "group",
                                        GroupPrincipal(a.groups[k])))
             open(new) == /\ \A k \in DOMAIN a.groups : no(k)
                          /\ Comes(new, Denial("no_permission"))
  <2>1. \A k : GroupLookup(a, k) = GroupLookup(b, k)
    BY DEF GroupLookup
  <2>2. open(c) \/ \E k \in DOMAIN a.groups : ended(c, k)
    BY <1>5 DEF Leads, LeadsByGroups, Reads, SaysNo
  <2>3. open(d) \/ \E k \in DOMAIN a.groups : ended(d, k)
    BY <1>5, <2>1 DEF Leads, LeadsByGroups, Reads, SaysNo
  <2>4. c.request = d.request /\ c.groups = d.groups
    BY <1>5 DEF Leads
  <2>5. CASE open(c)
    BY <2>3, <2>4, <2>5 DEF Alike, Comes
  <2>6. ASSUME NEW k \in DOMAIN a.groups, ended(c, k)
        PROVE  Alike(c, d)
    <3>1. PICK m \in DOMAIN a.groups : ended(d, m)
      BY <2>3, <2>6
    <3>2. k \in Nat /\ m \in Nat
      BY GroupsAreRefs
    <3>3. k = m
      BY <2>6, <3>1, <3>2
    <3> QED BY <2>4, <2>6, <3>1, <3>3 DEF Alike, Comes, Fails
  <2> QED BY <2>2, <2>5, <2>6
<1> QED BY <1>1, <1>2, <1>3, <1>4, <1>5

\* Where a memo leads depends on the request and its groups only.
LEMMA LeadsAlike ==
  ASSUME NEW memo, NEW a, NEW b, NEW c, a.request = b.request, a.groups = b.groups,
         Leads(memo, a, c)
  PROVE  Leads(memo, b, c)
<1>1. \A k : GroupLookup(a, k) = GroupLookup(b, k)
  BY DEF GroupLookup
<1>2. LeadsByGroups(memo, a, c) => LeadsByGroups(memo, b, c)
  BY <1>1 DEF LeadsByGroups, Reads, Comes
<1> QED BY <1>2 DEF Leads, Reads, Goes, Fails, Comes

-----------------------------------------------------------------------------
(* The marks a stage leaves. *)

\* A mark on an item changes neither its request nor its groups, and leaves a
\* trace that tells the outcome.
SameRequest(item, new) ==
  /\ new.request = item.request /\ new.groups = item.groups
  /\ withTrace /\ Traced(item) => Traced(new)

\* A recorded step comes last in the trace.
LEMMA StepIsLast ==
  ASSUME NEW item \in Item, NEW name \in StageName, NEW result \in StepResult,
         NEW principal \in PrincipalRef, NEW source \in DecisionSource, withTrace
  PROVE  LET steps == Step(item, name, result, principal, source).trace
         IN /\ Len(steps) = Len(item.trace) + 1 /\ steps # <<>>
            /\ Len(item.trace) \in Nat /\ DOMAIN item.trace = 1..Len(item.trace)
            /\ DOMAIN steps = 1..(Len(item.trace) + 1)
            /\ \A n \in 1..Len(item.trace) : steps[n] = item.trace[n]
            /\ steps[Len(item.trace) + 1].source = source
            /\ steps[Len(item.trace) + 1].result = result
<1> DEFINE last == TraceStep(name, result, principal, source)
<1>1. last \in TraceSteps /\ last.source = source /\ last.result = result
  BY DEF TraceStep, TraceSteps
<1>2. item.trace \in Seq(TraceSteps)
  BY DEF Item
<1>3. Step(item, name, result, principal, source).trace = Append(item.trace, last)
  BY DEF Step, Item
<1> HIDE DEF last
<1> QED BY <1>1, <1>2, <1>3

\* A step that decides nothing.
LEMMA StepGoes ==
  ASSUME NEW item \in Item, Goes(item), NEW name \in StageName,
         NEW result \in StepResult, result # "error", NEW principal \in PrincipalRef
  PROVE  LET new == Step(item, name, result, principal, "unset")
         IN SameRequest(item, new) /\ Goes(new)
<1> DEFINE new == Step(item, name, result, principal, "unset")
<1>1. /\ new.request = item.request /\ new.groups = item.groups
      /\ new.err = item.err /\ new.done = item.done /\ new.decision = item.decision
  BY StepNames, StepType
<1>2. ASSUME withTrace, Traced(item) PROVE Quiet(new.trace)
  <2>1. Quiet(item.trace)
    BY <1>2 DEF Traced, Goes
  <2>2. "unset" \in DecisionSource
    BY StepNames
  <2> HIDE DEF new
  <2> QED BY <1>2, <2>1, <2>2, StepIsLast DEF Quiet, new
<1> HIDE DEF new
<1>3. SameRequest(item, new) /\ Goes(new)
  BY <1>1, <1>2 DEF SameRequest, Goes, Traced
<1> QED BY <1>3 DEF new

\* A step that decides names the source of the decision.
LEMMA StepComes ==
  ASSUME NEW item \in Item, Goes(item), NEW name \in StageName,
         NEW result \in StepResult, result # "error", NEW principal \in PrincipalRef,
         NEW decision \in Decision, decision.source # "unset"
  PROVE  LET new == Decide(Step(item, name, result, principal, decision.source), decision)
         IN SameRequest(item, new) /\ Comes(new, decision)
<1> DEFINE step == Step(item, name, result, principal, decision.source)
           new == Decide(step, decision)
<1>0. decision.source \in DecisionSource
  BY DEF Decision
<1>1. /\ step \in Item /\ step.request = item.request /\ step.groups = item.groups
      /\ step.err = item.err
  BY <1>0, StepType
<1>2. ASSUME withTrace, Traced(item)
      PROVE  /\ step.trace # <<>>
             /\ \A n \in DOMAIN step.trace :
                  /\ step.trace[n].result # "error"
                  /\ step.trace[n].source =
                       IF n = Len(step.trace) THEN decision.source ELSE "unset"
  <2>1. Quiet(item.trace)
    BY <1>2 DEF Traced, Goes
  <2> HIDE DEF step
  <2> QED BY <1>0, <1>2, <2>1, StepIsLast DEF Quiet, step
<1> HIDE DEF step
<1>3. /\ new.request = step.request /\ new.groups = step.groups /\ new.err = step.err
      /\ new.decision = decision /\ new.done = TRUE /\ new.trace = step.trace
  BY <1>1, DecideType DEF Decide, Item
<1> HIDE DEF new
<1>4. SameRequest(item, new) /\ Comes(new, decision)
  BY <1>1, <1>2, <1>3 DEF SameRequest, Comes, Goes, Traced
<1> QED BY <1>4 DEF new, step

\* A failure, with its step or without.
LEMMA FailureFails ==
  ASSUME NEW item \in Item, Goes(item), NEW name \in StageName,
         NEW result \in StepResult, NEW principal \in PrincipalRef,
         NEW err \in Err, err # NoError
  PROVE  /\ LET new == Fail(Step(item, name, result, principal, "unset"), err)
            IN SameRequest(item, new) /\ Fails(new)
         /\ SameRequest(item, Fail(item, err)) /\ Fails(Fail(item, err))
<1> DEFINE step == Step(item, name, result, principal, "unset")
           new == Fail(step, err)
<1>1. /\ step \in Item /\ step.request = item.request /\ step.groups = item.groups
      /\ step.decision = item.decision
  BY StepNames, StepType
<1>2. ASSUME withTrace, Traced(item)
      PROVE  /\ \A n \in DOMAIN step.trace : step.trace[n].source = "unset"
             /\ Quiet(item.trace)
  <2>1. Quiet(item.trace)
    BY <1>2 DEF Traced, Goes
  <2>2. "unset" \in DecisionSource
    BY StepNames
  <2> HIDE DEF step
  <2> QED BY <1>2, <2>1, <2>2, StepIsLast DEF Quiet, step
<1> HIDE DEF step
<1>3. /\ new.request = step.request /\ new.groups = step.groups /\ new.err = err
      /\ new.decision = step.decision /\ new.done = TRUE /\ new.trace = step.trace
  BY <1>1, FailType DEF Fail, Item
<1>4. SameRequest(item, new) /\ Fails(new)
  <2> HIDE DEF new
  <2> QED BY <1>1, <1>2, <1>3 DEF SameRequest, Fails, Goes, Traced
<1>5. /\ Fail(item, err).request = item.request /\ Fail(item, err).groups = item.groups
      /\ Fail(item, err).decision = item.decision /\ Fail(item, err).err = err
      /\ Fail(item, err).done = TRUE /\ Fail(item, err).trace = item.trace
  BY FailType DEF Fail, Item
<1>6. SameRequest(item, Fail(item, err)) /\ Fails(Fail(item, err))
  BY <1>2, <1>5 DEF SameRequest, Fails, Goes, Traced, Quiet
<1> QED BY <1>4, <1>6 DEF new, step

\* A failed lookup.
LEMMA ReaderFailureFails ==
  ASSUME NEW item \in Item, Goes(item), NEW name \in StageName,
         NEW principal \in PrincipalRef, TypeOK, NEW l \in DOMAIN seen
  PROVE  LET new == ReaderFailure(item, name, principal, seen[l].err)
         IN SameRequest(item, new) /\ Fails(new)
<1> DEFINE e == seen[l].err
           err == IF e = ctxErr THEN ContextError(e) ELSE EvaluationError(name, e)
<1>1. e \in ReaderFailures \cup ContextErrors \cup {Nil}
  BY DEF TypeOK, Result
<1>2. err \in Err /\ err # NoError
  BY <1>1 DEF Err, ContextError, EvaluationError, NoError, Error, FailurePlace
<1>3. ReaderFailure(item, name, principal, e) =
        Fail(Step(item, name, "error", principal, "unset"), err)
  BY DEF ReaderFailure
<1>4. "error" \in StepResult
  BY StepNames
<1> HIDE DEF e, err
<1>5. LET new == Fail(Step(item, name, "error", principal, "unset"), err)
      IN SameRequest(item, new) /\ Fails(new)
  BY <1>2, <1>4, FailureFails
<1> QED BY <1>3, <1>5 DEF e

\* A lookup answered with yes or no, or failed.
LEMMA AnsweredReads ==
  ASSUME NEW item \in Item, Goes(item), NEW name \in StageName,
         NEW principal \in PrincipalRef, TypeOK, NEW l \in DOMAIN seen,
         NEW no, NEW yes, SameRequest(item, no), SameRequest(item, yes)
  PROVE  LET new == Answered(item, name, principal, l, no, yes)
         IN /\ SameRequest(item, new)
            /\ seen[l].err # Nil => Fails(new)
            /\ seen[l].err = Nil /\ seen[l].ok => new = yes
            /\ seen[l].err = Nil /\ ~seen[l].ok => new = no
<1> DEFINE new == Answered(item, name, principal, l, no, yes)
<1>1. CASE seen[l].err # Nil
  <2>1. new = ReaderFailure(item, name, principal, seen[l].err)
    BY <1>1 DEF Answered, SaysYes, SaysNo
  <2> HIDE DEF new
  <2>2. SameRequest(item, new) /\ Fails(new)
    BY <2>1, ReaderFailureFails
  <2> QED BY <1>1, <2>2 DEF new
<1>2. CASE seen[l].err = Nil
  <2>1. new = IF seen[l].ok THEN yes ELSE no
    BY <1>2 DEF Answered, SaysYes, SaysNo
  <2> HIDE DEF new
  <2> QED BY <1>2, <2>1 DEF new
<1> QED BY <1>1, <1>2

-----------------------------------------------------------------------------
(* Each stage takes an item where its memo leads. *)

\* A denial has a source, and so has an allow.
LEMMA DecisionsNameSources ==
  /\ \A reason \in DecisionReason :
       Denial(reason) \in Decision /\ Denial(reason).source = "none"
  /\ \A principal \in PrincipalRef :
       /\ Allow("direct_permission", "direct", principal) \in Decision
       /\ Allow("direct_permission", "direct", principal).source = "direct"
       /\ Allow("group_permission", "group", principal) \in Decision
       /\ Allow("group_permission", "group", principal).source = "group"
  /\ {"resource_scope", "membership", "no_permission"} \subseteq DecisionReason
BY DenialType DEF Denial, Allow, Decision, DecisionReason, DecisionSource, NoDecision

\* A denial as a stage makes it.
LEMMA DenyComes ==
  ASSUME NEW item \in Item, Goes(item), NEW name \in StageName,
         NEW reason \in DecisionReason
  PROVE  /\ SameRequest(item, Deny(item, name, reason))
         /\ Comes(Deny(item, name, reason), Denial(reason))
<1>1. Denial(reason) \in Decision /\ Denial(reason).source = "none"
  BY DecisionsNameSources
<1>2. Deny(item, name, reason) =
        Decide(Step(item, name, "denied", NoPrincipal, Denial(reason).source), Denial(reason))
  BY <1>1 DEF Deny
<1>3. "denied" \in StepResult /\ NoPrincipal \in PrincipalRef
  BY StepNames
<1> QED BY <1>1, <1>2, <1>3, StepComes

\* The resource scope.
LEMMA ResourceScopeLeads ==
  ASSUME NEW item \in Item, Goes(item), TypeOK, stage = ResourceScopes,
         Needs(item) \subseteq DOMAIN seen
  PROVE  LET new == ResourceScopeOutcome(item)
         IN Leads(seen, item, new) /\ (withTrace /\ Traced(item) => Traced(new))
<1> DEFINE name == "resource_scope_verified"
           l == ResourceLookup(item.request)
           Mark(result) == Step(item, name, result, NoPrincipal, "unset")
           new == ResourceScopeOutcome(item)
<1> USE DEF ResourceScopes, Memberships, DirectPermissions, Groups, GroupPermissions
<1>1. /\ SameRequest(item, Mark("skipped")) /\ Goes(Mark("skipped"))
      /\ SameRequest(item, Mark("passed")) /\ Goes(Mark("passed"))
  BY StepNames, StepGoes
<1>2. CASE ~RequiresResourceScopeCheck(item.request.resource)
  <2>1. new = Mark("skipped")
    BY <1>2 DEF ResourceScopeOutcome
  <2> HIDE DEF Mark, new
  <2> QED BY <1>1, <1>2, <2>1 DEF Leads, SameRequest, new
<1>3. CASE RequiresResourceScopeCheck(item.request.resource) /\ ~engine.resolver
  <2>1. MissingError("scope_resolver") \in Err /\ MissingError("scope_resolver") # NoError
    BY DEF MissingError, NoError, Error, Err, FailurePlace
  <2>2. new = Fail(Mark("error"), MissingError("scope_resolver"))
    BY <1>3 DEF ResourceScopeOutcome
  <2>3. SameRequest(item, new) /\ Fails(new)
    <3> HIDE DEF new
    <3> QED BY <2>1, <2>2, StepNames, FailureFails
  <2> HIDE DEF Mark, new
  <2> QED BY <1>3, <2>3 DEF Leads, SameRequest, new
<1>4. CASE RequiresResourceScopeCheck(item.request.resource) /\ engine.resolver
  <2> DEFINE no == Deny(item, name, "resource_scope")
             yes == Mark("passed")
  <2>1. l \in DOMAIN seen
    BY <1>4 DEF Needs
  <2>2. new = Answered(item, name, NoPrincipal, l, no, yes)
    BY <1>4 DEF ResourceScopeOutcome
  <2>3. SameRequest(item, no) /\ Comes(no, Denial("resource_scope"))
    BY StepNames, DenyComes, DecisionsNameSources
  <2>4. SameRequest(item, yes) /\ Goes(yes)
    BY <1>1
  <2> HIDE DEF Mark, new, no, yes, l
  <2>5. /\ SameRequest(item, new)
        /\ seen[l].err # Nil => Fails(new)
        /\ seen[l].err = Nil /\ seen[l].ok => new = yes
        /\ seen[l].err = Nil /\ ~seen[l].ok => new = no
    BY <2>1, <2>2, <2>3, <2>4, StepNames, AnsweredReads
  <2> QED BY <1>4, <2>1, <2>3, <2>4, <2>5 DEF Leads, Reads, SameRequest, new, l
<1> QED BY <1>2, <1>3, <1>4

\* Membership.
LEMMA MembershipLeads ==
  ASSUME NEW item \in Item, Goes(item), TypeOK, stage = Memberships,
         Needs(item) \subseteq DOMAIN seen
  PROVE  LET new == MembershipOutcome(item)
         IN Leads(seen, item, new) /\ (withTrace /\ Traced(item) => Traced(new))
<1> DEFINE name == "membership_confirmed"
           l == MembershipLookup(item.request)
           no == Deny(item, name, "membership")
           yes == Step(item, name, "passed", NoPrincipal, "unset")
           new == MembershipOutcome(item)
<1> USE DEF ResourceScopes, Memberships, DirectPermissions, Groups, GroupPermissions
<1>1. l \in DOMAIN seen /\ new = Answered(item, name, NoPrincipal, l, no, yes)
  BY DEF Needs, MembershipOutcome
<1>2. SameRequest(item, yes) /\ Goes(yes)
  BY StepNames, StepGoes
<1>3. SameRequest(item, no) /\ Comes(no, Denial("membership"))
  BY StepNames, DenyComes, DecisionsNameSources
<1> HIDE DEF new, no, yes, l
<1>4. /\ SameRequest(item, new)
      /\ seen[l].err # Nil => Fails(new)
      /\ seen[l].err = Nil /\ seen[l].ok => new = yes
      /\ seen[l].err = Nil /\ ~seen[l].ok => new = no
  BY <1>1, <1>2, <1>3, StepNames, AnsweredReads
<1> QED BY <1>1, <1>2, <1>3, <1>4 DEF Leads, Reads, SameRequest, new, l

\* The direct permission.
LEMMA DirectLeads ==
  ASSUME NEW item \in Item, Goes(item), TypeOK, stage = DirectPermissions,
         Needs(item) \subseteq DOMAIN seen
  PROVE  LET new == DirectOutcome(item)
         IN Leads(seen, item, new) /\ (withTrace /\ Traced(item) => Traced(new))
<1> DEFINE name == "direct_permission_checked"
           principal == SubjectPrincipal(item.request.subject)
           decision == Allow("direct_permission", "direct", principal)
           l == DirectLookup(item.request)
           no == Step(item, name, "not_matched", principal, "unset")
           yes == Decide(Step(item, name, "matched", principal, "direct"), decision)
           new == DirectOutcome(item)
<1> USE DEF ResourceScopes, Memberships, DirectPermissions, Groups, GroupPermissions
<1>1. l \in DOMAIN seen /\ new = Answered(item, name, principal, l, no, yes)
  BY DEF Needs, DirectOutcome
<1>2. principal \in PrincipalRef
  <2>1. item.request.subject \in Ref
    BY DEF Item, Request
  <2> QED BY <2>1, SubjectPrincipalType
<1>3. SameRequest(item, no) /\ Goes(no)
  <2> HIDE DEF principal
  <2> QED BY <1>2, StepNames, StepGoes
<1>4. SameRequest(item, yes) /\ Comes(yes, decision)
  <2>1. decision \in Decision /\ decision.source = "direct"
    BY <1>2, DecisionsNameSources
  <2> HIDE DEF principal, decision
  <2> QED BY <1>2, <2>1, StepNames, StepComes
<1> HIDE DEF new, no, yes, l, principal, decision
<1>5. /\ SameRequest(item, new)
      /\ seen[l].err # Nil => Fails(new)
      /\ seen[l].err = Nil /\ seen[l].ok => new = yes
      /\ seen[l].err = Nil /\ ~seen[l].ok => new = no
  BY <1>1, <1>2, <1>3, <1>4, StepNames, AnsweredReads
<1> QED BY <1>1, <1>3, <1>4, <1>5 DEF Leads, Reads, SameRequest, new, l, decision, principal

\* The groups of the subject.
LEMMA GroupsLeads ==
  ASSUME NEW item \in Item, Goes(item), TypeOK, stage = Groups,
         Needs(item) \subseteq DOMAIN seen
  PROVE  LET new == GroupsOutcome(item)
         IN Leads(seen, item, new) /\ (withTrace /\ Traced(item) => Traced(new))
<1> DEFINE name == "groups_resolved"
           l == GroupsLookup(item.request)
           new == GroupsOutcome(item)
<1> USE DEF ResourceScopes, Memberships, DirectPermissions, Groups, GroupPermissions
<1>1. l \in DOMAIN seen
  BY DEF Needs
<1>2. CASE seen[l].err # Nil
  <2>1. new = ReaderFailure(item, name, NoPrincipal, seen[l].err)
    BY <1>2 DEF GroupsOutcome
  <2> HIDE DEF new
  <2>2. SameRequest(item, new) /\ Fails(new)
    BY <1>1, <2>1, StepNames, ReaderFailureFails
  <2> QED BY <1>1, <1>2, <2>2 DEF Leads, SameRequest, new
<1>3. CASE seen[l].err = Nil
  <2> DEFINE listed == [item EXCEPT !.groups = seen[l].groups]
             result == IF seen[l].groups = <<>> THEN "none" ELSE "resolved"
  <2>1. new = Step(listed, name, result, NoPrincipal, "unset")
    BY <1>3 DEF GroupsOutcome
  <2>2. seen[l].groups \in GroupLists \cup {<<>>}
    BY <1>1 DEF TypeOK, Result
  <2>3. /\ listed \in Item /\ listed.request = item.request
        /\ listed.groups = seen[l].groups /\ Goes(listed)
        /\ listed.trace = item.trace /\ listed.done = item.done
        /\ listed.err = item.err /\ listed.decision = item.decision
    BY <2>2 DEF Item, Goes
  <2>4. result \in StepResult /\ result # "error"
    BY StepNames
  <2> HIDE DEF listed, result, new
  <2>5. SameRequest(listed, new) /\ Goes(new)
    BY <2>1, <2>3, <2>4, StepNames, StepGoes
  <2>6. Traced(item) => Traced(listed)
    BY <2>3 DEF Traced, Goes
  <2> QED BY <1>1, <1>3, <2>3, <2>5, <2>6 DEF Leads, SameRequest, new
<1> QED BY <1>2, <1>3

\* The permissions of the groups.
LEMMA GroupPermissionLeads ==
  ASSUME NEW item \in Item, Goes(item), TypeOK, stage = GroupPermissions,
         Needs(item) \subseteq DOMAIN seen
  PROVE  LET new == GroupPermissionOutcome(item)
         IN Leads(seen, item, new) /\ (withTrace /\ Traced(item) => Traced(new))
<1> DEFINE name == "group_permissions_checked"
           new == GroupPermissionOutcome(item)
<1> USE DEF ResourceScopes, Memberships, DirectPermissions, Groups, GroupPermissions
<1>1. SUFFICES SameRequest(item, new) /\ LeadsByGroups(seen, item, new)
  <2> HIDE DEF new
  <2> QED BY <1>1 DEF Leads, SameRequest, new
<1>2. CASE \A n \in DOMAIN item.groups : RuledOut(item, n)
  <2>1. new = Decide(Step(item, name, "not_matched", NoPrincipal, "none"),
                     Denial("no_permission"))
    BY <1>2 DEF GroupPermissionOutcome
  <2>2. Denial("no_permission") \in Decision /\ Denial("no_permission").source = "none"
    BY DecisionsNameSources
  <2> HIDE DEF new
  <2>3. SameRequest(item, new) /\ Comes(new, Denial("no_permission"))
    BY <2>1, <2>2, StepNames, StepComes
  <2> QED BY <1>2, <2>3 DEF LeadsByGroups, RuledOut
<1>3. CASE \E n \in DOMAIN item.groups : ~RuledOut(item, n)
  <2> DEFINE k == CHOOSE n \in DOMAIN item.groups :
                    Reaches(item, n) /\ ~RuledOut(item, n)
             principal == GroupPrincipal(item.groups[k])
             l == GroupLookup(item, k)
             decision == Allow("group_permission", "group", principal)
  <2>1. /\ k \in DOMAIN item.groups /\ Reaches(item, k) /\ ~RuledOut(item, k)
        /\ l \in DOMAIN seen /\ principal \in PrincipalRef
    BY <1>3, OpenGroup
  <2>2. \A j \in DOMAIN item.groups :
          j < k => /\ GroupLookup(item, j) \in DOMAIN seen
                   /\ SaysNo(seen[GroupLookup(item, j)])
    BY <2>1 DEF Reaches, RuledOut
  <2>3. CASE seen[l].err # Nil
    <3>1. new = ReaderFailure(item, name, principal, seen[l].err)
      BY <1>3, <2>3 DEF GroupPermissionOutcome
    <3> HIDE DEF new, k, principal, l
    <3>2. SameRequest(item, new) /\ Fails(new)
      BY <2>1, <3>1, StepNames, ReaderFailureFails
    <3>3. LeadsByGroups(seen, item, new)
      BY <2>1, <2>2, <2>3, <3>2 DEF LeadsByGroups, Reads, l
    <3> QED BY <3>2, <3>3
  <2>4. CASE seen[l].err = Nil
    <3>1. new = Decide(Step(item, name, "matched", principal, "group"), decision)
      BY <1>3, <2>4 DEF GroupPermissionOutcome
    <3>2. decision \in Decision /\ decision.source = "group"
      BY <2>1, DecisionsNameSources
    <3> HIDE DEF new, k, principal, decision
    <3>3. SameRequest(item, new) /\ Comes(new, decision)
      BY <2>1, <3>1, <3>2, StepNames, StepComes
    <3>4. seen[l].ok
      BY <2>1, <2>4 DEF RuledOut, SaysNo
    <3> HIDE DEF l
    <3>5. Reads(seen, l, new, FALSE, Comes(new, decision))
      BY <2>1, <2>4, <3>3, <3>4 DEF Reads
    <3>6. LeadsByGroups(seen, item, new)
      BY <2>1, <2>2, <3>5 DEF LeadsByGroups, l, decision, principal
    <3> QED BY <3>3, <3>6
  <2> QED BY <2>3, <2>4
<1> QED BY <1>2, <1>3

-----------------------------------------------------------------------------
(* The invariant of outcomes is inductive. *)

\* Settling an item where the memo leads it.
LEMMA SettleKeepsOutcomes ==
  ASSUME IInv, OutcomeInv, NEW i \in todo, NEW new, Settle(i, new),
         stage \in ResourceScopes..GroupPermissions,
         Leads(seen, items[i], new), withTrace /\ Traced(items[i]) => Traced(new)
  PROVE  OutcomeInv'
<1>1. /\ i \in DOMAIN items /\ items[i] \in Item /\ todo \subseteq DOMAIN items
      /\ \A j \in DOMAIN items : items[j] \in Item
  BY DEF IInv, TypeOK, Pending
<1>2. /\ DOMAIN items' = DOMAIN items /\ items'[i] = new
      /\ \A j \in DOMAIN items : j # i => items'[j] = items[j]
      /\ todo' = todo \ {i} /\ UNCHANGED <<engine, withTrace, stage, seen>>
  BY <1>1 DEF Settle
<1>3. new.request = items[i].request
  BY DEF Leads
<1>4. ASSUME NEW j \in DOMAIN items, j # i, items[j].request = items[i].request
      PROVE  /\ j \notin todo => Alike(new, items[j]) /\ Alike(items[j], new)
             /\ j \in todo => Leads(seen, items[j], new)
  <2>1. CASE j \notin todo
    <3>1. Leads(seen, items[i], items[j])
      BY <1>1, <1>4, <2>1 DEF OutcomeInv, EqualsGoTogether
    <3>2. Alike(new, items[j])
      BY <1>1, <3>1, LeadsOneWay
    <3> QED BY <2>1, <3>2 DEF Alike
  <2>2. CASE j \in todo
    <3>1. Alike(items[i], items[j])
      BY <1>1, <1>4, <2>2 DEF OutcomeInv, EqualsGoTogether
    <3>2. Leads(seen, items[j], new)
      BY <3>1, LeadsAlike DEF Alike
    <3> QED BY <2>2, <3>2
  <2> QED BY <2>1, <2>2
<1>5. ASSUME NEW p \in DOMAIN items, NEW q \in DOMAIN items,
             items'[p].request = items'[q].request
      PROVE  /\ (p \in todo' <=> q \in todo') => Alike(items'[p], items'[q])
             /\ p \notin todo' /\ q \in todo' => Leads(seen, items'[q], items'[p])
  <2>1. CASE p = i /\ q = i
    BY <1>2, <2>1 DEF Alike
  <2>2. CASE p = i /\ q # i
    BY <1>2, <1>3, <1>4, <1>5, <2>2
  <2>3. CASE p # i /\ q = i
    BY <1>2, <1>3, <1>4, <1>5, <2>3
  <2>4. CASE p # i /\ q # i
    BY <1>2, <1>5, <2>4 DEF OutcomeInv, EqualsGoTogether
  <2> QED BY <2>1, <2>2, <2>3, <2>4
<1>6. EqualsGoTogether'
  BY <1>2, <1>5 DEF EqualsGoTogether, Leads
<1>7. TracesTell'
  BY <1>1, <1>2 DEF OutcomeInv, TracesTell
<1> QED BY <1>6, <1>7 DEF OutcomeInv

\* The memo grows.
LEMMA MemoKeepsOutcomes ==
  ASSUME OutcomeInv, UNCHANGED <<engine, withTrace, stage, items, todo>>,
         DOMAIN seen \subseteq DOMAIN seen', \A l \in DOMAIN seen : seen'[l] = seen[l]
  PROVE  OutcomeInv'
<1>1. \A a, b : Leads(seen, a, b) => Leads(seen', a, b)
  BY LargerMemoLeads
<1>2. EqualsGoTogether'
  BY <1>1 DEF OutcomeInv, EqualsGoTogether, Leads
<1> QED BY <1>2 DEF OutcomeInv, TracesTell

\* Each of the five reader stages takes an item where its memo leads.
LEMMA SettleStepsKeepOutcomes ==
  ASSUME IInv, OutcomeInv, NEW i \in todo,
         \/ VerifyResourceScope(i)
         \/ ConfirmMembership(i)
         \/ CheckDirectPermission(i)
         \/ ResolveGroups(i)
         \/ CheckGroupPermission(i)
  PROVE  OutcomeInv'
<1>1. PICK new :
        /\ Settle(i, new)
        /\ \/ stage = ResourceScopes /\ new = ResourceScopeOutcome(items[i])
           \/ stage = Memberships /\ new = MembershipOutcome(items[i])
           \/ stage = DirectPermissions /\ new = DirectOutcome(items[i])
           \/ stage = Groups /\ new = GroupsOutcome(items[i])
           \/ stage = GroupPermissions /\ new = GroupPermissionOutcome(items[i])
  BY DEF VerifyResourceScope, ConfirmMembership, CheckDirectPermission, ResolveGroups,
     CheckGroupPermission
<1>2. /\ items[i] \in Item /\ TypeOK /\ Needs(items[i]) \subseteq DOMAIN seen
      /\ Goes(items[i])
  BY <1>1, SettleReady DEF Goes, Sound, Item
<1>3. Leads(seen, items[i], new) /\ (withTrace /\ Traced(items[i]) => Traced(new))
  BY <1>1, <1>2, ResourceScopeLeads, MembershipLeads, DirectLeads, GroupsLeads,
     GroupPermissionLeads
<1>4. stage \in ResourceScopes..GroupPermissions
  BY <1>1 DEF ResourceScopes, Memberships, DirectPermissions, Groups, GroupPermissions
<1> QED BY <1>1, <1>3, <1>4, SettleKeepsOutcomes

\* Between stages equal requests are alike.
LEMMA AlikeBetweenStages ==
  ASSUME OutcomeInv, todo = {}, NEW i \in DOMAIN items, NEW j \in DOMAIN items,
         items[i].request = items[j].request
  PROVE  Alike(items[i], items[j])
BY DEF OutcomeInv, EqualsGoTogether

\* An undecided item has neither an error nor a decision.
LEMMA PendingGo ==
  ASSUME IInv, NEW i \in DOMAIN items, ~items[i].done
  PROVE  items[i] \in Item /\ Goes(items[i])
<1>1. items[i] \in Item
  BY DEF IInv, TypeOK
<1>2. items[i].done \in BOOLEAN
  BY <1>1 DEF Item
<1> QED BY <1>1, <1>2 DEF IInv, Sound, Goes

\* Failing what is pending, for one reason.
LEMMA FailPendingKeepsOutcomes ==
  ASSUME IInv, OutcomeInv, todo = {}, NEW err \in Err, err # NoError,
         items' = FailPending(err), UNCHANGED <<todo, withTrace>>
  PROVE  OutcomeInv'
<1>1. DOMAIN items' = DOMAIN items
  BY DEF FailPending
<1>2. ASSUME NEW i \in DOMAIN items
      PROVE  /\ SameRequest(items[i], items'[i])
             /\ IF items[i].done THEN items'[i] = items[i] ELSE Fails(items'[i])
  <2>1. CASE items[i].done
    <3>1. items'[i] = items[i]
      BY <2>1 DEF FailPending, Pending
    <3> QED BY <2>1, <3>1 DEF SameRequest
  <2>2. CASE ~items[i].done
    <3>1. items'[i] = Fail(items[i], err)
      BY <2>2 DEF FailPending, Pending
    <3>2. SameRequest(items[i], Fail(items[i], err)) /\ Fails(Fail(items[i], err))
      BY <2>2, PendingGo, StepNames, FailureFails
    <3> QED BY <2>2, <3>1, <3>2
  <2> QED BY <2>1, <2>2
<1>3. ASSUME NEW i \in DOMAIN items, NEW j \in DOMAIN items,
             items'[i].request = items'[j].request
      PROVE  Alike(items'[i], items'[j])
  <2>1. Alike(items[i], items[j])
    BY <1>2, <1>3, AlikeBetweenStages DEF SameRequest
  <2> QED BY <1>2, <2>1 DEF Alike, SameRequest, Fails
<1>4. EqualsGoTogether'
  BY <1>1, <1>3 DEF EqualsGoTogether
<1>5. TracesTell'
  BY <1>1, <1>2 DEF OutcomeInv, TracesTell, SameRequest
<1> QED BY <1>4, <1>5 DEF OutcomeInv

\* Validation takes equal requests the same way.
LEMMA ValidateKeepsOutcomes ==
  ASSUME IInv, OutcomeInv, Validate
  PROVE  OutcomeInv'
<1>1. /\ todo = {} /\ UNCHANGED <<todo, withTrace>> /\ DOMAIN items' = DOMAIN items
      /\ \A i \in DOMAIN items : ~items[i].done /\ items'[i] = ValidationOutcome(items[i])
  BY DEF Validate, IInv, Pending, Started, ResourceScopes
<1>2. ASSUME NEW i \in DOMAIN items
      PROVE  /\ SameRequest(items[i], items'[i])
             /\ IF IsValid(items[i].request) THEN Goes(items'[i]) ELSE Fails(items'[i])
  <2> DEFINE item == items[i]
             step(result) == Step(item, "request_validated", result, NoPrincipal, "unset")
             err == ValidateRequest(item.request)
  <2>0. /\ "request_validated" \in StageName /\ {"passed", "failed"} \subseteq StepResult
        /\ NoPrincipal \in PrincipalRef
    BY StepNames DEF StageName, StepResult
  <2>1. item \in Item /\ Goes(item)
    BY <1>1, PendingGo
  <2>2. CASE IsValid(item.request)
    <3>1. items'[i] = step("passed")
      BY <1>1, <2>2 DEF ValidationOutcome
    <3>2. SameRequest(item, step("passed")) /\ Goes(step("passed"))
      BY <2>0, <2>1, StepGoes
    <3> QED BY <2>2, <3>1, <3>2
  <2>3. CASE ~IsValid(item.request)
    <3>1. items'[i] = Fail(step("failed"), err)
      BY <1>1, <2>3 DEF ValidationOutcome
    <3>2. err \in Err /\ err # NoError
      BY <2>3, ValidateRequestType DEF NoError, Error
    <3> HIDE DEF err
    <3>3. SameRequest(item, Fail(step("failed"), err)) /\ Fails(Fail(step("failed"), err))
      BY <2>0, <2>1, <3>2, FailureFails
    <3> QED BY <2>3, <3>1, <3>3
  <2> QED BY <2>2, <2>3
<1>3. ASSUME NEW i \in DOMAIN items, NEW j \in DOMAIN items,
             items'[i].request = items'[j].request
      PROVE  Alike(items'[i], items'[j])
  <2>1. items[i].request = items[j].request /\ items[i].groups = items[j].groups
    BY <1>1, <1>2, <1>3, AlikeBetweenStages DEF SameRequest, Alike
  <2> QED BY <1>2, <2>1 DEF Alike, SameRequest, Goes, Fails
<1>4. EqualsGoTogether'
  BY <1>1, <1>3 DEF EqualsGoTogether
<1>5. TracesTell'
  BY <1>1, <1>2 DEF OutcomeInv, TracesTell, SameRequest
<1> QED BY <1>4, <1>5 DEF OutcomeInv

\* A missing backend fails whatever is pending, if there is any.
LEMMA CheckConfigurationKeepsOutcomes ==
  ASSUME IInv, OutcomeInv, CheckConfiguration
  PROVE  OutcomeInv'
<1>1. todo = {} /\ UNCHANGED <<todo, withTrace>>
  BY DEF CheckConfiguration, IInv, Validated, ResourceScopes
<1>2. CASE items' = items
  BY <1>1, <1>2 DEF OutcomeInv, EqualsGoTogether, TracesTell
<1>3. ASSUME NEW what \in {"membership_reader", "group_reader", "permission_reader"},
             items' = FailPending(MissingError(what))
      PROVE  OutcomeInv'
  <2>1. MissingError(what) \in Err /\ MissingError(what) # NoError
    BY DEF MissingError, NoError, Error, Err, FailurePlace
  <2> QED BY <1>1, <1>3, <2>1, FailPendingKeepsOutcomes
<1> QED BY <1>2, <1>3 DEF CheckConfiguration

\* A stage begins with equal requests alike, in it together or not at all.
LEMMA NextStageKeepsOutcomes ==
  ASSUME IInv, OutcomeInv, EnterStage \/ SkipStage
  PROVE  OutcomeInv'
<1>1. CASE EnterStage
  <2>1. todo = {} /\ todo' = Pending /\ UNCHANGED <<items, withTrace>>
    BY <1>1 DEF EnterStage, NextStage
  <2>2. \A i, j \in DOMAIN items : items[i].request = items[j].request =>
          Alike(items[i], items[j]) /\ (i \in Pending <=> j \in Pending)
    BY <2>1, AlikeBetweenStages DEF Pending, Alike
  <2>3. EqualsGoTogether'
    BY <2>1, <2>2 DEF EqualsGoTogether
  <2> QED BY <2>1, <2>3 DEF OutcomeInv, TracesTell
<1>2. CASE SkipStage
  <2>1. /\ todo = {} /\ items' = FailPending(ContextError(ctxErr))
        /\ UNCHANGED <<todo, withTrace>>
    BY <1>2 DEF SkipStage, NextStage
  <2>2. ContextError(ctxErr) \in Err /\ ContextError(ctxErr) # NoError
    BY DEF IInv, TypeOK, ContextError, NoError, Error, Err, FailurePlace
  <2> QED BY <2>1, <2>2, FailPendingKeepsOutcomes
<1> QED BY <1>1, <1>2

\* What is memoised was not in the memo.
LEMMA LookupsKeepOutcomes ==
  ASSUME IInv, CallInv, OutcomeInv, RefuseCall \/ ReaderReturns
  PROVE  OutcomeInv'
<1>1. UNCHANGED <<engine, withTrace, stage, items, todo>>
  BY DEF RefuseCall, ReaderReturns
<1>2. \E results : /\ Memoise(results)
                   /\ \A l \in DOMAIN results : l \notin DOMAIN seen
  <2>1. CASE RefuseCall
    <3>1. PICK lookups \in NextCalls : Memoise([l \in lookups |-> Failed(ctxErr)])
      BY <2>1 DEF RefuseCall
    <3>2. \A l \in lookups : l \notin DOMAIN seen
      BY NextCallsAreMissing DEF Missing
    <3> QED BY <3>1, <3>2
  <2>2. CASE ReaderReturns
    <3>1. PICK results \in Replies : Memoise(results)
      BY <2>2 DEF ReaderReturns
    <3>2. DOMAIN results = call
      BY <3>1, RepliesAreResults DEF IInv, TypeOK
    <3> QED BY <3>1, <3>2, CallsAreNew
  <2> QED BY <2>1, <2>2
<1>3. DOMAIN seen \subseteq DOMAIN seen' /\ \A l \in DOMAIN seen : seen'[l] = seen[l]
  BY <1>2 DEF Memoise
<1> QED BY <1>1, <1>3, MemoKeepsOutcomes

\* New items are alike when their requests are, and have no steps.
LEMMA InitOutcomeInv == Init => OutcomeInv
<1> SUFFICES ASSUME Init PROVE OutcomeInv
  OBVIOUS
<1>1. todo = {} /\ \A i \in DOMAIN items : \E r : items[i] = NewItem(r)
  BY DEF Init
<1>2. \A i \in DOMAIN items :
        /\ items[i].trace = <<>> /\ items[i].groups = <<>> /\ items[i].done = FALSE
        /\ items[i].decision = NoDecision /\ items[i].err = NoError
  BY <1>1 DEF NewItem
<1>3. EqualsGoTogether
  BY <1>1, <1>2 DEF EqualsGoTogether, Alike
<1>4. \A i \in DOMAIN items : Quiet(items[i].trace)
  <2>1. \A i \in DOMAIN items : DOMAIN items[i].trace = {}
    BY <1>2
  <2> QED BY <2>1 DEF Quiet
<1> QED BY <1>2, <1>3, <1>4 DEF OutcomeInv, TracesTell, Traced

\* Every step keeps the invariant of outcomes.
LEMMA NextOutcomeInv == IInv /\ CallInv /\ OutcomeInv /\ [Next]_vars => OutcomeInv'
<1> SUFFICES ASSUME IInv, CallInv, OutcomeInv, [Next]_vars PROVE OutcomeInv'
  OBVIOUS
<1>1. CASE \/ Validate \/ CheckConfiguration \/ EnterStage \/ SkipStage
           \/ RefuseCall \/ ReaderReturns
  BY <1>1, ValidateKeepsOutcomes, CheckConfigurationKeepsOutcomes,
     NextStageKeepsOutcomes, LookupsKeepOutcomes
<1>2. CASE CallReader \/ Cancel \/ UNCHANGED vars
  <2>1. UNCHANGED <<engine, withTrace, stage, items, todo, seen>>
    BY <1>2 DEF CallReader, Cancel, vars
  <2> QED BY <2>1, MemoKeepsOutcomes
<1>3. CASE Return
  BY <1>3 DEF Return, OutcomeInv, EqualsGoTogether, TracesTell
<1> QED BY <1>1, <1>2, <1>3, SettleStepsKeepOutcomes DEF Next, RunStep, Done

\* The three invariants hold throughout every run.
LEMMA OutcomesInvariant == Spec => [](IInv /\ CallInv /\ OutcomeInv)
<1> QED BY InitIInv, NextIInv, InitCallInv, NextCallInv, InitOutcomeInv, NextOutcomeInv,
           PTL DEF Spec

-----------------------------------------------------------------------------
(* The theorems. *)

\* Equal requests of a batch have equal outcomes at the end of every stage, for
\* every batch and whenever the context is cancelled.
THEOREM EqualsAgree == Spec => []EqualRequestsAgree
<1>1. OutcomeInv => EqualRequestsAgree
  BY DEF OutcomeInv, EqualsGoTogether, Alike, EqualRequestsAgree
<1> QED BY <1>1, OutcomesInvariant, PTL

\* A trace names the source of its decision once, last, and holds the step of
\* an error only beside that error.
THEOREM TracesAgree == Spec => []TraceAgreesWithDecision
<1>1. ASSUME IInv, OutcomeInv, withTrace, NEW i \in DOMAIN items
      PROVE  LET item == items[i]
                 steps == item.trace
                 Determining == {n \in DOMAIN steps : steps[n].source # "unset"}
             IN /\ item.done /\ item.err = NoError <=> Determining # {}
                /\ Determining # {} => steps[Max(Determining)].source = item.decision.source
                /\ (\E n \in DOMAIN steps : steps[n].result = "error") =>
                     item.done /\ item.err # NoError
  <2> DEFINE item == items[i]
             steps == item.trace
             Determining == {n \in DOMAIN steps : steps[n].source # "unset"}
  <2>1. Traced(item)
    BY <1>1 DEF OutcomeInv, TracesTell
  <2>2. steps \in Seq(TraceSteps) /\ DOMAIN steps = 1..Len(steps) /\ Len(steps) \in Nat
    <3>1. item \in Item
      BY <1>1 DEF IInv, TypeOK
    <3> QED BY <3>1 DEF Item
  <2> HIDE DEF item
  <2>3. CASE item.done /\ item.err = NoError
    <3>1. /\ Determining = {Len(steps)} /\ Len(steps) \in DOMAIN steps
          /\ steps[Len(steps)].source = item.decision.source
      BY <2>1, <2>2, <2>3 DEF Traced
    <3>2. Max(Determining) = Len(steps)
      <4>1. /\ Determining \subseteq Nat /\ Len(steps) \in Determining
            /\ \A y \in Determining : y <= Len(steps)
        BY <2>2, <3>1
      <4> HIDE DEF Determining
      <4> QED BY <4>1, MaxIsGreatest
    <3>3. \A n \in DOMAIN steps : steps[n].result # "error"
      BY <2>1, <2>3 DEF Traced
    <3> QED BY <2>3, <3>1, <3>2, <3>3 DEF item
  <2>4. CASE item.done /\ item.err # NoError
    <3>1. Determining = {}
      BY <2>1, <2>4 DEF Traced
    <3> QED BY <2>4, <3>1 DEF item
  <2>5. CASE ~item.done
    <3>1. Determining = {} /\ \A n \in DOMAIN steps : steps[n].result # "error"
      BY <2>1, <2>5 DEF Traced, Quiet
    <3> QED BY <2>5, <3>1 DEF item
  <2> QED BY <2>3, <2>4, <2>5
<1>2. IInv /\ OutcomeInv => TraceAgreesWithDecision
  BY <1>1 DEF TraceAgreesWithDecision
<1> QED BY <1>2, OutcomesInvariant, PTL

=============================================================================
