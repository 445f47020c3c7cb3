--------------------------- MODULE PipelineProofs ---------------------------
(***************************************************************************)
(* Proofs about one run of the engine, for every engine, batch, reader and *)
(* error.  The inductive invariant says of every item how far it has come:  *)
(* an undecided item carries the evidence of each stage it has passed, and  *)
(* a memoised result is either what a reader answered or the context's      *)
(* refusal.                                                                 *)
(***************************************************************************)
EXTENDS PipelineProperties, NaturalLemmas

\* The last stage an item has passed.
Past(i) == IF i \in todo THEN stage - 1 ELSE stage

\* The evidence an undecided item has gathered by stage s.
Passed(A, item, s) ==
  /\ s >= Validated => IsValid(item.request)
  /\ s >= ResourceScopes => InScope(A, item.request)
  /\ s >= Memberships => IsMember(A, item.request)
  /\ s >= DirectPermissions => SaidNo(A, DirectLookup(item.request))
  /\ s >= Groups => SaidGroups(A, item)
  /\ s < GroupPermissions

Sound(A, e, item, s) ==
  /\ ~item.done =>
       item.err = NoError /\ item.decision = NoDecision /\ Passed(A, item, s)
  /\ item.decision.allowed => Earned(A, item)
  /\ item.done /\ item.err = NoError /\ ~item.decision.allowed => Evidenced(A, item)
  /\ Owned(A, e, item)

SeenIsKnown ==
  \A l \in DOMAIN seen :
    \/ [lookup |-> l, result |-> seen[l]] \in answers
    \/ ctxErr # Nil /\ seen[l] = Failed(ctxErr)

IInv ==
  /\ TypeOK
  /\ SeenIsKnown
  /\ stage = Started => Pending = DOMAIN items
  /\ stage < ResourceScopes => todo = {}
  /\ \A i \in DOMAIN items : Sound(answers, ctxErr, items[i], Past(i))

-----------------------------------------------------------------------------
(* What readers have said stays said. *)

\* Evidence only grows: what a set of answers shows, a larger one shows too.
LEMMA EvidenceGrows ==
  ASSUME NEW A, NEW B, A \subseteq B, NEW item,
         NEW s \in Int, NEW e
  PROVE  /\ Passed(A, item, s) => Passed(B, item, s)
         /\ Earned(A, item) => Earned(B, item)
         /\ Evidenced(A, item) => Evidenced(B, item)
         /\ Owned(A, e, item) => Owned(B, e, item)
         /\ Sound(A, e, item, s) => Sound(B, e, item, s)
<1>1. \A l : SaidYes(A, l) => SaidYes(B, l)
  BY DEF SaidYes
<1>2. \A l : SaidNo(A, l) => SaidNo(B, l)
  BY DEF SaidNo
<1>3. SaidGroups(A, item) => SaidGroups(B, item)
  BY DEF SaidGroups
<1>4. \A r : (InScope(A, r) => InScope(B, r)) /\ (IsMember(A, r) => IsMember(B, r))
  BY <1>1 DEF InScope, IsMember
<1>5. Passed(A, item, s) => Passed(B, item, s)
  BY <1>2, <1>3, <1>4 DEF Passed
<1>6. Earned(A, item) => Earned(B, item)
  BY <1>1, <1>2, <1>3, <1>4 DEF Earned, MatchesFirst
<1>7. Evidenced(A, item) => Evidenced(B, item)
  BY <1>2, <1>3, <1>4 DEF Evidenced
<1>8. Owned(A, e, item) => Owned(B, e, item)
  BY DEF Owned
<1> QED BY <1>5, <1>6, <1>7, <1>8 DEF Sound

\* A context that becomes done takes nothing back.
LEMMA CancelKeepsSound ==
  ASSUME NEW A, NEW e, NEW item, NEW s \in Int, Sound(A, Nil, item, s)
  PROVE  Sound(A, e, item, s)
BY DEF Sound, Owned

-----------------------------------------------------------------------------
(* The types of what stages make of an item. *)

\* The zero error, principal and decision have their types.
LEMMA NilTypes == /\ NoError \in Err /\ NoPrincipal \in PrincipalRef
                  /\ NoDecision \in Decision /\ NoDecision.allowed = FALSE
<1>1. NoError \in Err
  BY DEF NoError, Error, Err, FailurePlace
<1>2. NoPrincipal \in PrincipalRef
  BY TextAssumption DEF TextAssumption, NoPrincipal, PrincipalRef
<1>3. NoDecision \in Decision /\ NoDecision.allowed = FALSE
  BY <1>2 DEF NoDecision, Decision, DecisionReason, DecisionSource
<1> QED BY <1>1, <1>2, <1>3

\* A denial is a decision that allows nothing.
LEMMA DenialType ==
  ASSUME NEW reason \in DecisionReason
  PROVE  /\ Denial(reason) \in Decision
         /\ Denial(reason).reason = reason
         /\ ~Denial(reason).allowed
BY NilTypes DEF Denial, NoDecision, Decision, DecisionSource

\* The principal of a subject is a principal.
LEMMA SubjectPrincipalType ==
  ASSUME NEW r \in Ref
  PROVE  SubjectPrincipal(r) \in PrincipalRef /\ GroupPrincipal(r) \in PrincipalRef
BY DEF Ref, SubjectPrincipal, GroupPrincipal, PrincipalRef

\* Recording a step leaves everything but the trace alone.
LEMMA StepType ==
  ASSUME NEW item \in Item,
         NEW name \in StageName, NEW result \in StepResult,
         NEW principal \in PrincipalRef, NEW source \in DecisionSource
  PROVE  LET step == Step(item, name, result, principal, source)
         IN /\ step \in Item
            /\ step.request = item.request /\ step.decision = item.decision
            /\ step.err = item.err /\ step.done = item.done
            /\ step.groups = item.groups
<1>1. TraceStep(name, result, principal, source) \in TraceSteps
  BY DEF TraceStep, TraceSteps
<1>2. item.trace \in Seq(TraceSteps)
  BY DEF Item
<1>3. Append(item.trace, TraceStep(name, result, principal, source)) \in Seq(TraceSteps)
  BY <1>1, <1>2
<1> QED BY <1>3 DEF Step, Item

\* Failing an item settles it and keeps it typed.
LEMMA FailType ==
  ASSUME NEW item \in Item, NEW err \in Err
  PROVE  /\ Fail(item, err) \in Item
         /\ Fail(item, err).request = item.request
         /\ Fail(item, err).decision = item.decision
         /\ Fail(item, err).groups = item.groups
         /\ Fail(item, err).err = err /\ Fail(item, err).done = TRUE
BY DEF Fail, Item, Err

\* Deciding an item settles it and keeps it typed.
LEMMA DecideType ==
  ASSUME NEW item \in Item, NEW decision \in Decision
  PROVE  /\ Decide(item, decision) \in Item
         /\ Decide(item, decision).request = item.request
         /\ Decide(item, decision).err = item.err
         /\ Decide(item, decision).groups = item.groups
         /\ Decide(item, decision).decision = decision
         /\ Decide(item, decision).done = TRUE
BY DEF Decide, Item

-----------------------------------------------------------------------------
(* What a stage makes of an undecided item is sound. *)

\* Evidence speaks of an item's request and groups only.
LEMMA SameEvidence ==
  ASSUME NEW A, NEW item, NEW new, NEW s \in Int,
         new.request = item.request, new.groups = item.groups
  PROVE  /\ OwnLookups(new) = OwnLookups(item)
         /\ SaidGroups(A, new) <=> SaidGroups(A, item)
         /\ Passed(A, new, s) <=> Passed(A, item, s)
         /\ \A k : GroupLookup(new, k) = GroupLookup(item, k)
<1>1. \A k : GroupLookup(new, k) = GroupLookup(item, k)
  BY DEF GroupLookup
<1>2. SaidGroups(A, new) <=> SaidGroups(A, item)
  BY DEF SaidGroups
<1>3. OwnLookups(new) = OwnLookups(item)
  BY <1>1 DEF OwnLookups
<1>4. Passed(A, new, s) <=> Passed(A, item, s)
  BY <1>2 DEF Passed
<1> QED BY <1>1, <1>2, <1>3, <1>4

\* An item that stays undecided is sound when it has the stage's evidence.
LEMMA UndecidedSound ==
  ASSUME NEW A, NEW e, NEW s \in Int, NEW new,
         ~new.done, new.err = NoError, new.decision = NoDecision,
         Passed(A, new, s)
  PROVE  Sound(A, e, new, s)
BY NilTypes DEF Sound, Owned, NoError, Error

\* A decided item is sound when its decision has its evidence.
LEMMA DecidedSound ==
  ASSUME NEW A, NEW e, NEW s \in Int, NEW new,
         new.done = TRUE, new.err = NoError,
         new.decision.allowed => Earned(A, new),
         ~new.decision.allowed => Evidenced(A, new)
  PROVE  Sound(A, e, new, s)
BY DEF Sound, Owned, NoError, Error

\* A failed item is sound when its error is its own.
LEMMA FailedSound ==
  ASSUME NEW A, NEW e, NEW s \in Int, NEW new,
         new.done = TRUE, new.err # NoError, new.decision = NoDecision,
         Owned(A, e, new)
  PROVE  Sound(A, e, new, s)
BY NilTypes DEF Sound

\* Failing an undecided item for the context, for its own fields or for the
\* configuration is sound.
LEMMA FailSound ==
  ASSUME NEW A, NEW e, NEW s \in Int, NEW t \in Int, NEW item \in Item,
         ~item.done, Sound(A, e, item, s),
         NEW err \in Err, err.class \in {"validation", "missing", "context"},
         err.class = "context" => e # Nil /\ err = ContextError(e)
  PROVE  /\ Fail(item, err) \in Item
         /\ Fail(item, err).request = item.request
         /\ Sound(A, e, Fail(item, err), t)
<1>1. item.decision = NoDecision
  BY DEF Sound
<1>2. err # NoError
  BY DEF NoError, Error
<1>3. Owned(A, e, Fail(item, err))
  BY <1>1, FailType DEF Owned
<1> QED BY <1>1, <1>2, <1>3, FailType, FailedSound

\* A lookup that failed fails the items that needed it, and soundly: it was
\* answered with that error, or refused for the context's.
LEMMA ReaderFailureSound ==
  ASSUME NEW item \in Item, ~item.done, NEW s \in Int, NEW t \in Int,
         NEW name \in StageName, NEW principal \in PrincipalRef,
         TypeOK, SeenIsKnown, Sound(answers, ctxErr, item, s),
         NEW l \in OwnLookups(item), l \in DOMAIN seen, seen[l].err # Nil
  PROVE  LET new == ReaderFailure(item, name, principal, seen[l].err)
         IN /\ new \in Item
            /\ new.request = item.request
            /\ Sound(answers, ctxErr, new, t)
<1> DEFINE e == seen[l].err
           err == IF e = ctxErr THEN ContextError(e) ELSE EvaluationError(name, e)
           step == Step(item, name, "error", principal, "unset")
           new == Fail(step, err)
<1>1. new = ReaderFailure(item, name, principal, e)
  BY DEF ReaderFailure
<1>2. e \in ReaderFailures \cup ContextErrors \cup {Nil}
  BY DEF TypeOK, Result
<1>3. err \in Err /\ err # NoError
  BY <1>2 DEF Err, ContextError, EvaluationError, NoError, Error, FailurePlace
<1>4. /\ step \in Item /\ step.request = item.request
      /\ step.decision = item.decision /\ step.groups = item.groups
  BY StepType DEF StepResult, DecisionSource
<1> HIDE DEF step, err
<1>5. /\ new \in Item /\ new.request = item.request /\ new.groups = item.groups
      /\ new.decision = NoDecision /\ new.err = err /\ new.done = TRUE
  BY <1>3, <1>4, FailType DEF Sound
<1>6. OwnLookups(new) = OwnLookups(item)
  BY <1>5, SameEvidence
<1>7. CASE e = ctxErr
  <2>1. err = ContextError(ctxErr) /\ ctxErr # Nil
    BY <1>7 DEF err
  <2>2. Owned(answers, ctxErr, new)
    BY <1>5, <2>1 DEF Owned, ContextError, Error
  <2> QED BY <1>1, <1>3, <1>5, <2>2, FailedSound
<1>8. CASE e # ctxErr
  <2>1. [lookup |-> l, result |-> seen[l]] \in answers
    BY <1>8 DEF SeenIsKnown, Failed
  <2>2. err = EvaluationError(name, e)
    BY <1>8 DEF err
  <2>3. err.class = "evaluation" /\ err.cause = e
    BY <2>2 DEF EvaluationError, Error
  <2>4. Owned(answers, ctxErr, new)
    BY <1>5, <1>6, <2>1, <2>3 DEF Owned
  <2> QED BY <1>1, <1>3, <1>5, <2>4, FailedSound
<1> QED BY <1>7, <1>8

\* An ordinary answer in the memo is one that a reader gave.
LEMMA SeenWasSaid ==
  ASSUME TypeOK, SeenIsKnown, NEW l \in DOMAIN seen
  PROVE  /\ SaysYes(seen[l]) => SaidYes(answers, l)
         /\ SaysNo(seen[l]) => SaidNo(answers, l)
         /\ seen[l].err = Nil => [lookup |-> l, result |-> seen[l]] \in answers
         /\ seen[l].err # Nil \/ SaysYes(seen[l]) \/ SaysNo(seen[l])
<1>1. seen[l].err = Nil => [lookup |-> l, result |-> seen[l]] \in answers
  BY DEF SeenIsKnown, Failed
<1>2. seen[l].ok \in BOOLEAN
  BY DEF TypeOK, Result
<1> QED BY <1>1, <1>2 DEF SaysYes, SaysNo, SaidYes, SaidNo

\* Recording a step and passing to the next stage.
LEMMA StepSound ==
  ASSUME NEW A, NEW e, NEW s \in Int, NEW t \in Int, NEW item \in Item,
         ~item.done, Sound(A, e, item, s), Passed(A, item, t),
         NEW name \in StageName, NEW result \in StepResult,
         NEW principal \in PrincipalRef, NEW source \in DecisionSource
  PROVE  LET new == Step(item, name, result, principal, source)
         IN new \in Item /\ new.request = item.request /\ Sound(A, e, new, t)
<1> DEFINE new == Step(item, name, result, principal, source)
<1>1. /\ new \in Item /\ new.request = item.request /\ new.groups = item.groups
      /\ new.decision = item.decision /\ new.err = item.err /\ new.done = item.done
  BY StepType
<1> HIDE DEF new
<1>2. Passed(A, new, t)
  BY <1>1, SameEvidence
<1>3. Sound(A, e, new, t)
  BY <1>1, <1>2, UndecidedSound DEF Sound
<1> QED BY <1>1, <1>3 DEF new

\* Denying an undecided item on the evidence its reason takes.
LEMMA DenySound ==
  ASSUME NEW A, NEW e, NEW s \in Int, NEW t \in Int, NEW item \in Item,
         ~item.done, Sound(A, e, item, s),
         NEW name \in StageName, NEW reason \in {"resource_scope", "membership"},
         reason = "resource_scope" => SaidNo(A, ResourceLookup(item.request)),
         reason = "membership" => /\ InScope(A, item.request)
                                  /\ SaidNo(A, MembershipLookup(item.request))
  PROVE  LET new == Deny(item, name, reason)
         IN new \in Item /\ new.request = item.request /\ Sound(A, e, new, t)
<1> DEFINE step == Step(item, name, "denied", NoPrincipal, "none")
           new == Decide(step, Denial(reason))
<1>1. /\ step \in Item /\ step.request = item.request /\ step.err = item.err
  BY StepType, NilTypes DEF StepResult, DecisionSource
<1> HIDE DEF step
<1>2. /\ Denial(reason) \in Decision /\ Denial(reason).reason = reason
      /\ ~Denial(reason).allowed
  BY DenialType DEF DecisionReason
<1>3. /\ new \in Item /\ new.request = item.request /\ new.done = TRUE
      /\ new.err = NoError /\ new.decision = Denial(reason)
  BY <1>1, <1>2, DecideType DEF Sound
<1>4. Evidenced(A, new)
  BY <1>2, <1>3 DEF Evidenced
<1>5. Sound(A, e, new, t)
  BY <1>2, <1>3, <1>4, DecidedSound
<1> QED BY <1>3, <1>5 DEF step, Deny

\* The resource-scope stage settles an item soundly (verifyResourceScopes).
LEMMA ResourceScopeSound ==
  ASSUME NEW item \in Item, ~item.done, TypeOK, SeenIsKnown,
         Sound(answers, ctxErr, item, Configured), stage = ResourceScopes,
         Needs(item) \subseteq DOMAIN seen
  PROVE  LET new == ResourceScopeOutcome(item)
         IN /\ new \in Item /\ new.request = item.request
            /\ Sound(answers, ctxErr, new, ResourceScopes)
<1> DEFINE name == "resource_scope_verified"
           l == ResourceLookup(item.request)
           new == ResourceScopeOutcome(item)
<1> USE DEF Configured, ResourceScopes, Validated
<1>0. /\ name \in StageName /\ NoPrincipal \in PrincipalRef
      /\ "unset" \in DecisionSource
      /\ {"skipped", "passed", "error"} \subseteq StepResult
  BY NilTypes DEF StageName, DecisionSource, StepResult
<1>1. Passed(answers, item, 2) /\ item.decision = NoDecision /\ item.err = NoError
  BY DEF Sound
<1>2. InScope(answers, item.request) => Passed(answers, item, 3)
  BY <1>1 DEF Passed, Memberships, DirectPermissions, Groups, GroupPermissions
<1>3. CASE ~RequiresResourceScopeCheck(item.request.resource)
  <2>1. new = Step(item, name, "skipped", NoPrincipal, "unset")
    BY <1>3 DEF ResourceScopeOutcome
  <2>2. Passed(answers, item, 3)
    BY <1>2, <1>3 DEF InScope
  <2> QED BY <1>0, <2>1, <2>2, StepSound
<1>4. CASE RequiresResourceScopeCheck(item.request.resource) /\ ~engine.resolver
  <2> DEFINE step == Step(item, name, "error", NoPrincipal, "unset")
  <2>1. new = Fail(step, MissingError("scope_resolver"))
    BY <1>4 DEF ResourceScopeOutcome
  <2>2. step \in Item /\ step.request = item.request /\ ~step.done
        /\ Sound(answers, ctxErr, step, 2)
    BY <1>0, <1>1, StepSound, StepType
  <2>3. MissingError("scope_resolver") \in Err
        /\ MissingError("scope_resolver").class = "missing"
    BY DEF MissingError, Error, Err, FailurePlace
  <2> QED BY <2>1, <2>2, <2>3, FailSound
<1>5. CASE RequiresResourceScopeCheck(item.request.resource) /\ engine.resolver
  <2>1. l \in DOMAIN seen
    BY <1>5 DEF Needs, Memberships, DirectPermissions, Groups, GroupPermissions
  <2>2. l \in OwnLookups(item)
    BY DEF OwnLookups
  <2>3. CASE seen[l].err # Nil
    <3>1. new = ReaderFailure(item, name, NoPrincipal, seen[l].err)
      BY <1>5, <2>3 DEF ResourceScopeOutcome, Answered, SaysNo, SaysYes
    <3> QED BY <1>0, <2>1, <2>2, <2>3, <3>1, ReaderFailureSound
  <2>4. CASE SaysNo(seen[l])
    <3>1. new = Deny(item, name, "resource_scope")
      BY <1>5, <2>4 DEF ResourceScopeOutcome, Answered, SaysNo, SaysYes
    <3>2. SaidNo(answers, l)
      BY <2>1, <2>4, SeenWasSaid
    <3> QED BY <1>0, <3>1, <3>2, DenySound
  <2>5. CASE SaysYes(seen[l])
    <3>1. new = Step(item, name, "passed", NoPrincipal, "unset")
      BY <1>5, <2>5 DEF ResourceScopeOutcome, Answered, SaysNo, SaysYes
    <3>2. InScope(answers, item.request)
      BY <2>1, <2>5, SeenWasSaid DEF InScope
    <3> QED BY <1>0, <1>2, <3>1, <3>2, StepSound
  <2> QED BY <2>1, <2>3, <2>4, <2>5, SeenWasSaid
<1> QED BY <1>3, <1>4, <1>5

\* The membership stage settles an item soundly (confirmMemberships).
LEMMA MembershipSound ==
  ASSUME NEW item \in Item, ~item.done, TypeOK, SeenIsKnown,
         Sound(answers, ctxErr, item, ResourceScopes), stage = Memberships,
         Needs(item) \subseteq DOMAIN seen
  PROVE  LET new == MembershipOutcome(item)
         IN /\ new \in Item /\ new.request = item.request
            /\ Sound(answers, ctxErr, new, Memberships)
<1> DEFINE name == "membership_confirmed"
           l == MembershipLookup(item.request)
           new == MembershipOutcome(item)
<1> USE DEF Memberships, ResourceScopes, Validated
<1>0. /\ name \in StageName /\ NoPrincipal \in PrincipalRef
      /\ "unset" \in DecisionSource /\ "passed" \in StepResult
  BY NilTypes DEF StageName, DecisionSource, StepResult
<1>1. Passed(answers, item, 3)
  BY DEF Sound
<1>2. l \in DOMAIN seen /\ l \in OwnLookups(item)
  BY DEF Needs, OwnLookups, DirectPermissions, Groups, GroupPermissions
<1>3. CASE seen[l].err # Nil
  <2>1. new = ReaderFailure(item, name, NoPrincipal, seen[l].err)
    BY <1>3 DEF MembershipOutcome, Answered, SaysNo, SaysYes
  <2> QED BY <1>0, <1>2, <1>3, <2>1, ReaderFailureSound
<1>4. CASE SaysNo(seen[l])
  <2>1. new = Deny(item, name, "membership")
    BY <1>4 DEF MembershipOutcome, Answered, SaysNo, SaysYes
  <2>2. SaidNo(answers, l)
    BY <1>2, <1>4, SeenWasSaid
  <2>3. InScope(answers, item.request)
    BY <1>1 DEF Passed
  <2> QED BY <1>0, <2>1, <2>2, <2>3, DenySound
<1>5. CASE SaysYes(seen[l])
  <2>1. new = Step(item, name, "passed", NoPrincipal, "unset")
    BY <1>5 DEF MembershipOutcome, Answered, SaysNo, SaysYes
  <2>2. IsMember(answers, item.request)
    BY <1>2, <1>5, SeenWasSaid DEF IsMember
  <2>3. Passed(answers, item, 4)
    BY <1>1, <2>2 DEF Passed, DirectPermissions, Groups, GroupPermissions
  <2> QED BY <1>0, <2>1, <2>3, StepSound
<1> QED BY <1>2, <1>3, <1>4, <1>5, SeenWasSaid

\* The direct-permission stage settles an item soundly (checkDirectPermissions).
LEMMA DirectSound ==
  ASSUME NEW item \in Item, ~item.done, TypeOK, SeenIsKnown,
         Sound(answers, ctxErr, item, Memberships), stage = DirectPermissions,
         Needs(item) \subseteq DOMAIN seen
  PROVE  LET new == DirectOutcome(item)
         IN /\ new \in Item /\ new.request = item.request
            /\ Sound(answers, ctxErr, new, DirectPermissions)
<1> DEFINE name == "direct_permission_checked"
           principal == SubjectPrincipal(item.request.subject)
           l == DirectLookup(item.request)
           new == DirectOutcome(item)
<1> USE DEF DirectPermissions, Memberships, ResourceScopes, Validated
<1>0. /\ name \in StageName /\ principal \in PrincipalRef
      /\ "unset" \in DecisionSource /\ "direct" \in DecisionSource
      /\ "matched" \in StepResult /\ "not_matched" \in StepResult
  <2>1. item.request.subject \in Ref
    BY DEF Item, Request
  <2> QED BY <2>1, SubjectPrincipalType DEF StageName, DecisionSource, StepResult
<1>1. Passed(answers, item, 4) /\ item.err = NoError
  BY DEF Sound
<1>2. l \in DOMAIN seen /\ l \in OwnLookups(item)
  BY DEF Needs, OwnLookups, Groups, GroupPermissions
<1>3. CASE seen[l].err # Nil
  <2>1. new = ReaderFailure(item, name, principal, seen[l].err)
    BY <1>3 DEF DirectOutcome, Answered, SaysNo, SaysYes
  <2> QED BY <1>0, <1>2, <1>3, <2>1, ReaderFailureSound
<1>4. CASE SaysNo(seen[l])
  <2>1. new = Step(item, name, "not_matched", principal, "unset")
    BY <1>4 DEF DirectOutcome, Answered, SaysNo, SaysYes
  <2>2. SaidNo(answers, l)
    BY <1>2, <1>4, SeenWasSaid
  <2>3. Passed(answers, item, 5)
    BY <1>1, <2>2 DEF Passed, Groups, GroupPermissions
  <2> QED BY <1>0, <2>1, <2>3, StepSound
<1>5. CASE SaysYes(seen[l])
  <2> DEFINE step == Step(item, name, "matched", principal, "direct")
             decision == Allow("direct_permission", "direct", principal)
  <2>1. new = Decide(step, decision)
    BY <1>5 DEF DirectOutcome, Answered, SaysNo, SaysYes
  <2>2. step \in Item /\ step.request = item.request /\ step.err = NoError
    BY <1>0, <1>1, StepType
  <2>3. /\ decision \in Decision /\ decision.allowed = TRUE
        /\ decision.source = "direct" /\ decision.principal = principal
    BY <1>0 DEF Allow, Decision, DecisionReason, DecisionSource
  <2> HIDE DEF step, decision, new
  <2>4. /\ new \in Item /\ new.request = item.request /\ new.done = TRUE
        /\ new.err = NoError /\ new.decision = decision
    BY <2>1, <2>2, <2>3, DecideType
  <2>5. SaidYes(answers, l)
    BY <1>2, <1>5, SeenWasSaid
  <2>6. /\ IsValid(item.request) /\ InScope(answers, item.request)
        /\ IsMember(answers, item.request)
    BY <1>1 DEF Passed
  <2>7. Earned(answers, new)
    BY <2>4, <2>5, <2>6 DEF Earned, decision
  <2>8. /\ new.decision.allowed => Earned(answers, new)
        /\ ~new.decision.allowed => Evidenced(answers, new)
    BY <2>3, <2>4, <2>7
  <2>9. Sound(answers, ctxErr, new, 5)
    BY <2>4, <2>8, 5 \in Int, DecidedSound
  <2> QED BY <2>4, <2>9 DEF new
<1> QED BY <1>2, <1>3, <1>4, <1>5, SeenWasSaid

\* The group stage leaves an item with a list its reader gave (resolveGroups).
LEMMA GroupsSound ==
  ASSUME NEW item \in Item, ~item.done, TypeOK, SeenIsKnown,
         Sound(answers, ctxErr, item, DirectPermissions), stage = Groups,
         Needs(item) \subseteq DOMAIN seen
  PROVE  LET new == GroupsOutcome(item)
         IN /\ new \in Item /\ new.request = item.request
            /\ Sound(answers, ctxErr, new, Groups)
<1> DEFINE name == "groups_resolved"
           l == GroupsLookup(item.request)
           new == GroupsOutcome(item)
<1> USE DEF Groups, DirectPermissions, Memberships, ResourceScopes, Validated
<1>0. /\ name \in StageName /\ NoPrincipal \in PrincipalRef
      /\ "unset" \in DecisionSource
      /\ "none" \in StepResult /\ "resolved" \in StepResult
  BY NilTypes DEF StageName, DecisionSource, StepResult
<1>1. /\ Passed(answers, item, 5) /\ item.err = NoError
      /\ item.decision = NoDecision
  BY DEF Sound
<1>2. l \in DOMAIN seen /\ l \in OwnLookups(item)
  BY DEF Needs, OwnLookups, GroupPermissions
<1>3. CASE seen[l].err # Nil
  <2>1. new = ReaderFailure(item, name, NoPrincipal, seen[l].err)
    BY <1>3 DEF GroupsOutcome
  <2> QED BY <1>0, <1>2, <1>3, <2>1, ReaderFailureSound
<1>4. CASE seen[l].err = Nil
  <2> DEFINE listed == [item EXCEPT !.groups = seen[l].groups]
             result == IF seen[l].groups = <<>> THEN "none" ELSE "resolved"
  <2>1. new = Step(listed, name, result, NoPrincipal, "unset")
    BY <1>4 DEF GroupsOutcome
  <2>2. seen[l].groups \in GroupLists \cup {<<>>}
    BY <1>2 DEF TypeOK, Result
  <2>3. /\ listed \in Item /\ listed.request = item.request
        /\ listed.groups = seen[l].groups /\ ~listed.done
        /\ listed.err = NoError /\ listed.decision = NoDecision
    BY <1>1, <2>2 DEF Item
  <2>4. result \in StepResult
    BY <1>0
  <2> HIDE DEF listed, result, new
  <2>5. [lookup |-> l, result |-> seen[l]] \in answers
    BY <1>2, <1>4, SeenWasSaid
  <2>6. SaidGroups(answers, listed)
    BY <1>4, <2>3, <2>5 DEF SaidGroups
  <2>7. Passed(answers, listed, 5) /\ Passed(answers, listed, 6)
    BY <1>1, <2>3, <2>6 DEF Passed, GroupPermissions
  <2>8. Sound(answers, ctxErr, listed, 5)
    BY <2>3, <2>7, UndecidedSound
  <2>9. new \in Item /\ new.request = item.request /\ Sound(answers, ctxErr, new, 6)
    BY <1>0, <2>1, <2>3, <2>4, <2>7, <2>8, StepSound
  <2> QED BY <2>9 DEF new
<1> QED BY <1>3, <1>4

\* The groups of an item are references.
LEMMA GroupsAreRefs ==
  ASSUME NEW item \in Item
  PROVE  item.groups \in Seq(Ref) /\ DOMAIN item.groups \subseteq Nat
<1>1. item.groups \in GroupLists \cup {<<>>} /\ <<>> \in Seq(Ref)
  BY DEF Item
<1>2. item.groups \in Seq(Ref)
  BY <1>1, PipelineAssumption DEF PipelineAssumption
<1> QED BY <1>2

\* The first group not ruled out is the one the last stage looks at, and its
\* check is in the memo.
LEMMA OpenGroup ==
  ASSUME NEW item \in Item, stage = GroupPermissions, Needs(item) \subseteq DOMAIN seen,
         \E n \in DOMAIN item.groups : ~RuledOut(item, n)
  PROVE  LET k == CHOOSE n \in DOMAIN item.groups : Reaches(item, n) /\ ~RuledOut(item, n)
         IN /\ k \in DOMAIN item.groups /\ Reaches(item, k) /\ ~RuledOut(item, k)
            /\ GroupLookup(item, k) \in DOMAIN seen
            /\ GroupPrincipal(item.groups[k]) \in PrincipalRef
<1> DEFINE FirstOpen(n) == Reaches(item, n) /\ ~RuledOut(item, n)
           open == {n \in DOMAIN item.groups : ~RuledOut(item, n)}
           k == CHOOSE n \in DOMAIN item.groups : FirstOpen(n)
<1>1. k \in DOMAIN item.groups /\ Reaches(item, k) /\ ~RuledOut(item, k)
  <2>1. PICK x \in open : \A y \in open : x <= y
    BY GroupsAreRefs, LeastNat
  <2>2. FirstOpen(x)
    BY <2>1, GroupsAreRefs DEF Reaches
  <2> QED BY <2>1, <2>2
<1> HIDE DEF k
<1>2. GroupLookup(item, k) \in Needs(item)
  BY <1>1 DEF Needs, ResourceScopes, Memberships, DirectPermissions, Groups,
     GroupPermissions
<1>3. item.groups[k] \in Ref
  BY <1>1, GroupsAreRefs
<1> QED BY <1>1, <1>2, <1>3, SubjectPrincipalType DEF k

\* The last stage decides an item by its groups' checks (checkGroupPermissions).
LEMMA GroupPermissionSound ==
  ASSUME NEW item \in Item, ~item.done, TypeOK, SeenIsKnown,
         Sound(answers, ctxErr, item, Groups), stage = GroupPermissions,
         Needs(item) \subseteq DOMAIN seen
  PROVE  LET new == GroupPermissionOutcome(item)
         IN /\ new \in Item /\ new.request = item.request
            /\ Sound(answers, ctxErr, new, GroupPermissions)
<1> DEFINE name == "group_permissions_checked"
           open == {n \in DOMAIN item.groups : ~RuledOut(item, n)}
           new == GroupPermissionOutcome(item)
<1> USE DEF GroupPermissions, Groups, DirectPermissions, Memberships,
            ResourceScopes, Validated
<1>0. /\ name \in StageName /\ NoPrincipal \in PrincipalRef
      /\ "unset" \in DecisionSource /\ "none" \in DecisionSource
      /\ "group" \in DecisionSource
      /\ "matched" \in StepResult /\ "not_matched" \in StepResult
  BY NilTypes DEF StageName, DecisionSource, StepResult
<1>1. Passed(answers, item, 6) /\ item.err = NoError
  BY DEF Sound
<1>2. \A n \in DOMAIN item.groups :
        RuledOut(item, n) => SaidNo(answers, GroupLookup(item, n))
  BY SeenWasSaid DEF RuledOut
<1>4. CASE open = {}
  <2> DEFINE step == Step(item, name, "not_matched", NoPrincipal, "none")
             decision == Denial("no_permission")
  <2>1. new = Decide(step, decision)
    BY <1>4 DEF GroupPermissionOutcome
  <2>2. /\ step \in Item /\ step.request = item.request /\ step.err = NoError
        /\ step.groups = item.groups
    BY <1>0, <1>1, StepType
  <2>3. /\ decision \in Decision /\ decision.reason = "no_permission"
        /\ ~decision.allowed
    BY DenialType DEF DecisionReason
  <2> HIDE DEF step, decision, new
  <2>4. /\ new \in Item /\ new.request = item.request /\ new.done = TRUE
        /\ new.err = NoError /\ new.decision = decision
        /\ new.groups = item.groups
    BY <2>1, <2>2, <2>3, DecideType
  <2>5. \A n \in DOMAIN new.groups : SaidNo(answers, GroupLookup(new, n))
    BY <1>2, <1>4, <2>4, SameEvidence DEF GroupLookup
  <2>6. SaidGroups(answers, new)
    BY <1>1, <2>4 DEF Passed, SaidGroups
  <2>7. /\ IsValid(new.request)
        /\ InScope(answers, new.request) /\ IsMember(answers, new.request)
        /\ SaidNo(answers, DirectLookup(new.request))
    BY <1>1, <2>4 DEF Passed
  <2>8. Evidenced(answers, new)
    BY <2>4, <2>5, <2>6, <2>7 DEF Evidenced, decision
  <2>9. /\ new.decision.allowed => Earned(answers, new)
        /\ ~new.decision.allowed => Evidenced(answers, new)
    BY <2>3, <2>4, <2>8
  <2>10. Sound(answers, ctxErr, new, 7)
    BY <2>4, <2>9, 7 \in Int, DecidedSound
  <2> QED BY <2>4, <2>10 DEF new
<1>5. CASE open # {}
  <2> DEFINE k == CHOOSE n \in DOMAIN item.groups :
                    Reaches(item, n) /\ ~RuledOut(item, n)
             principal == GroupPrincipal(item.groups[k])
             l == GroupLookup(item, k)
  <2>1. /\ k \in DOMAIN item.groups /\ Reaches(item, k) /\ ~RuledOut(item, k)
        /\ l \in DOMAIN seen /\ principal \in PrincipalRef
    BY <1>5, OpenGroup
  <2>2. l \in DOMAIN seen /\ l \in OwnLookups(item)
    <3> HIDE DEF k
    <3> QED BY <2>1 DEF OwnLookups
  <2>3. principal \in PrincipalRef
    BY <2>1
  <2>4. CASE seen[l].err # Nil
    <3>1. new = ReaderFailure(item, name, principal, seen[l].err)
      BY <1>5, <2>4 DEF GroupPermissionOutcome
    <3> QED BY <1>0, <2>2, <2>3, <2>4, <3>1, ReaderFailureSound
  <2>5. CASE seen[l].err = Nil
    <3> DEFINE step == Step(item, name, "matched", principal, "group")
               decision == Allow("group_permission", "group", principal)
    <3>1. new = Decide(step, decision)
      BY <1>5, <2>5 DEF GroupPermissionOutcome
    <3>2. /\ step \in Item /\ step.request = item.request /\ step.err = NoError
          /\ step.groups = item.groups
      BY <1>0, <1>1, <2>3, StepType
    <3>3. /\ decision \in Decision /\ decision.allowed = TRUE
          /\ decision.source = "group" /\ decision.principal = principal
      BY <2>3 DEF Allow, Decision, DecisionReason, DecisionSource
    <3>4. SaidYes(answers, l)
      BY <2>1, <2>2, <2>5, SeenWasSaid DEF RuledOut
    <3>5. \A j \in DOMAIN item.groups :
            j < k => SaidNo(answers, GroupLookup(item, j))
      BY <1>2, <2>1 DEF Reaches
    <3>6. MatchesFirst(answers, item, k)
      BY <3>4, <3>5 DEF MatchesFirst
    <3> HIDE DEF step, decision, new, k
    <3>7. /\ new \in Item /\ new.request = item.request /\ new.done = TRUE
          /\ new.err = NoError /\ new.decision = decision
          /\ new.groups = item.groups
      BY <3>1, <3>2, <3>3, DecideType
    <3>8. MatchesFirst(answers, new, k)
      BY <3>6, <3>7 DEF MatchesFirst, GroupLookup
    <3>9. /\ SaidGroups(answers, new) /\ IsValid(new.request)
          /\ InScope(answers, new.request) /\ IsMember(answers, new.request)
          /\ SaidNo(answers, DirectLookup(new.request))
      BY <1>1, <3>7 DEF Passed, SaidGroups
    <3>10. Earned(answers, new)
      BY <2>1, <3>7, <3>8, <3>9 DEF Earned, decision
    <3>11. /\ new.decision.allowed => Earned(answers, new)
           /\ ~new.decision.allowed => Evidenced(answers, new)
      BY <3>3, <3>7, <3>10
    <3>12. Sound(answers, ctxErr, new, 7)
      BY <3>7, <3>11, 7 \in Int, DecidedSound
    <3> QED BY <3>7, <3>12 DEF new
  <2> QED BY <2>4, <2>5
<1> QED BY <1>4, <1>5

-----------------------------------------------------------------------------
(* The steps that touch every item at once. *)

\* A request that is not valid is reported with one of its fields.
LEMMA ValidateRequestType ==
  ASSUME NEW r, ~IsValid(r)
  PROVE  ValidateRequest(r) \in Err /\ ValidateRequest(r).class = "validation"
<1> DEFINE n == Min(BlankFields(r))
<1>1. n \in 1..6
  <2>1. BlankFields(r) \subseteq 1..6 /\ BlankFields(r) # {}
    BY DEF BlankFields, IsValid
  <2>2. PICK x \in BlankFields(r) : \A y \in BlankFields(r) : x <= y
    BY <2>1, LeastNat
  <2> QED BY <2>1, <2>2 DEF Min
<1>2. RequiredFields(r)[n][1] \in FailurePlace
  BY <1>1 DEF RequiredFields, FailurePlace
<1>3. ValidateRequest(r) = ValidationError(RequiredFields(r)[n][1])
  BY DEF ValidateRequest
<1> QED BY <1>2, <1>3 DEF ValidationError, Error, Err

\* Validation leaves an item valid or failed (validate).
LEMMA ValidationSound ==
  ASSUME NEW A, NEW e, NEW item \in Item, ~item.done, Sound(A, e, item, Started)
  PROVE  LET new == ValidationOutcome(item)
         IN /\ new \in Item /\ new.request = item.request
            /\ Sound(A, e, new, Validated)
<1> USE DEF Started, Validated
<1>0. /\ "request_validated" \in StageName /\ NoPrincipal \in PrincipalRef
      /\ "unset" \in DecisionSource
      /\ "passed" \in StepResult /\ "failed" \in StepResult
  BY NilTypes DEF StageName, DecisionSource, StepResult
<1>1. CASE IsValid(item.request)
  <2>1. Passed(A, item, 1)
    BY <1>1 DEF Passed, ResourceScopes, Memberships, DirectPermissions, Groups,
       GroupPermissions
  <2> QED BY <1>0, <1>1, <2>1, StepSound DEF ValidationOutcome
<1>2. CASE ~IsValid(item.request)
  <2> DEFINE step == Step(item, "request_validated", "failed", NoPrincipal, "unset")
  <2>1. Passed(A, item, 0)
    BY DEF Sound
  <2>2. step \in Item /\ step.request = item.request /\ Sound(A, e, step, 0)
        /\ ~step.done
    BY <1>0, <2>1, StepSound, StepType
  <2>3. ValidationOutcome(item) = Fail(step, ValidateRequest(item.request))
    BY <1>2 DEF ValidationOutcome
  <2> HIDE DEF step
  <2> QED BY <1>2, <2>2, <2>3, ValidateRequestType, FailSound
<1> QED BY <1>1, <1>2

\* A settled item is sound at every stage.
LEMMA DoneSound ==
  ASSUME NEW A, NEW e, NEW s \in Int, NEW t \in Int, NEW item,
         item.done, Sound(A, e, item, s)
  PROVE  Sound(A, e, item, t)
BY DEF Sound

\* Failing the undecided items leaves a sound list behind.
LEMMA FailPendingSound ==
  ASSUME items \in Seq(Item), NEW err \in Err,
         err.class \in {"missing", "context"},
         err.class = "context" => ctxErr # Nil /\ err = ContextError(ctxErr),
         NEW s \in Int, NEW t \in Int,
         \A i \in DOMAIN items : Sound(answers, ctxErr, items[i], s)
  PROVE  LET new == FailPending(err)
         IN /\ new \in Seq(Item) /\ DOMAIN new = DOMAIN items
            /\ \A i \in DOMAIN items : /\ Sound(answers, ctxErr, new[i], t)
                                       /\ new[i].request = items[i].request
                                       /\ new[i].done
<1> DEFINE new == FailPending(err)
<1>1. \A i \in DOMAIN items : items[i] \in Item
  OBVIOUS
<1>2. ASSUME NEW i \in DOMAIN items
      PROVE  /\ new[i] \in Item /\ Sound(answers, ctxErr, new[i], t)
             /\ new[i].request = items[i].request /\ new[i].done
  <2>1. CASE items[i].done
    <3>1. new[i] = items[i]
      BY <2>1 DEF FailPending, Pending
    <3>2. Sound(answers, ctxErr, items[i], t)
      BY <2>1, DoneSound
    <3> HIDE DEF new
    <3> QED BY <1>1, <2>1, <3>1, <3>2
  <2>2. CASE ~items[i].done
    <3>1. new[i] = Fail(items[i], err)
      BY <2>2 DEF FailPending, Pending
    <3>2. /\ Fail(items[i], err) \in Item /\ Fail(items[i], err).request = items[i].request
          /\ Sound(answers, ctxErr, Fail(items[i], err), t)
      BY <1>1, <2>2, FailSound
    <3>3. Fail(items[i], err).done
      BY <1>1, FailType
    <3> HIDE DEF new
    <3> QED BY <3>1, <3>2, <3>3
  <2> QED BY <2>1, <2>2
<1>3. DOMAIN new = 1..Len(items) /\ Len(items) \in Nat
  BY DEF FailPending
<1>4. new \in Seq(Item)
  BY <1>2, <1>3 DEF FailPending
<1> QED BY <1>2, <1>3, <1>4

-----------------------------------------------------------------------------
(* Types of lookups and replies. *)

\* What an item needs at any stage are lookups.
LEMMA NeedsAreLookups ==
  ASSUME TypeOK, NEW i \in DOMAIN items
  PROVE  Needs(items[i]) \subseteq Lookups
<1> DEFINE r == items[i].request
<1>1. items[i] \in Item /\ r \in Request
  <2>1. items[i] \in Item
    BY DEF TypeOK
  <2> QED BY <2>1 DEF Item
<1>2. r.subject \in Ref /\ r.resource \in Ref /\ r.scope \in Ref
  BY <1>1 DEF Request
<1>3. /\ ResourceLookup(r) \in Lookups /\ MembershipLookup(r) \in Lookups
      /\ GroupsLookup(r) \in Lookups
  BY <1>2 DEF ResourceLookup, MembershipLookup, GroupsLookup, Lookup, Lookups
<1>4. DirectLookup(r) \in Lookups
  <2>1. SubjectPrincipal(r.subject) \in PrincipalRef
    BY <1>2, SubjectPrincipalType
  <2> QED BY <1>1, <2>1 DEF DirectLookup, PermissionLookup, Lookup, Lookups
<1>5. \A k \in DOMAIN items[i].groups : GroupLookup(items[i], k) \in Lookups
  <2>1. items[i].groups \in Seq(Ref)
    BY <1>1, GroupsAreRefs
  <2>2. \A k \in DOMAIN items[i].groups : GroupPrincipal(items[i].groups[k]) \in PrincipalRef
    BY <2>1, SubjectPrincipalType
  <2> QED BY <1>1, <2>2 DEF GroupLookup, PermissionLookup, Lookup, Lookups
<1> QED BY <1>3, <1>4, <1>5 DEF Needs, ResourceScopes, Memberships,
      DirectPermissions, Groups, GroupPermissions

\* The next reader call, one lookup or several, is made of lookups.
LEMMA NextCallsAreLookups ==
  ASSUME TypeOK, NEW lookups \in NextCalls
  PROVE  lookups \subseteq Lookups
<1>1. \A i \in todo : Missing(i) \subseteq Lookups
  BY NeedsAreLookups DEF TypeOK, Missing, Pending
<1>2. Unasked \subseteq Lookups
  BY <1>1 DEF Unasked
<1> QED BY <1>1, <1>2 DEF NextCalls

\* Whatever a call is answered, every lookup of it has a typed result.
LEMMA RepliesAreResults ==
  ASSUME NEW results \in Replies
  PROVE  DOMAIN results = call /\ \A l \in call : results[l] \in Result
<1>1. \A l \in call : Reply(l.reader) \subseteq Result
  BY DEF Reply, Result, ReaderFailures
<1>2. \A e \in ReaderFailures : Failed(e) \in Result
  BY DEF Failed, Result
<1> QED BY <1>1, <1>2 DEF Replies

\* Memoising typed results keeps the memo typed.
LEMMA MemoiseType ==
  ASSUME TypeOK, NEW results, DOMAIN results \subseteq Lookups,
         \A l \in DOMAIN results : results[l] \in Result, Memoise(results)
  PROVE  /\ DOMAIN seen' \subseteq Lookups
         /\ \A l \in DOMAIN seen' : seen'[l] \in Result
BY DEF TypeOK, Memoise

-----------------------------------------------------------------------------
(* The invariant is inductive. *)

\* A run starts in the invariant.
LEMMA InitIInv == Init => IInv
<1> SUFFICES ASSUME Init PROVE IInv
  OBVIOUS
<1> USE DEF Init
<1>1. PICK batch \in Batches : items = [i \in DOMAIN batch |-> NewItem(batch[i])]
  OBVIOUS
<1>2. batch \in Seq(Request)
  BY PipelineAssumption DEF PipelineAssumption
<1>3. \A r \in Request : NewItem(r) \in Item
  BY NilTypes DEF NewItem, Item
<1>4. \A i \in DOMAIN items : items[i] = NewItem(batch[i])
  BY <1>1
<1>5. items \in Seq(Item)
  <2>1. items \in [1..Len(batch) -> Item] /\ Len(batch) \in Nat
    BY <1>1, <1>2, <1>3
  <2> QED BY <2>1
<1>6. Pending = DOMAIN items
  <2>1. \A i \in DOMAIN items : ~items[i].done
    BY <1>4 DEF NewItem
  <2> QED BY <2>1 DEF Pending
<1>7. DOMAIN seen = {}
  OBVIOUS
<1>8. TypeOK
  BY <1>5, <1>7 DEF TypeOK, Started, Returned
<1>9. \A i \in DOMAIN items : Sound(answers, ctxErr, items[i], Past(i))
  <2> SUFFICES ASSUME NEW i \in DOMAIN items
               PROVE  Sound(answers, ctxErr, items[i], 0)
    BY DEF Past, Started
  <2>1. /\ ~items[i].done /\ items[i].err = NoError
        /\ items[i].decision = NoDecision
    BY <1>4 DEF NewItem
  <2>2. Passed(answers, items[i], 0)
    BY DEF Passed, Validated, ResourceScopes, Memberships, DirectPermissions,
       Groups, GroupPermissions
  <2> QED BY <2>1, <2>2, 0 \in Int, UndecidedSound
<1> QED BY <1>6, <1>7, <1>8, <1>9 DEF IInv, SeenIsKnown

\* Settling an item soundly keeps the invariant.
LEMMA SettleKeeps ==
  ASSUME IInv, NEW i \in todo, NEW item \in Item, Settle(i, item),
         item.request = items[i].request, Sound(answers, ctxErr, item, stage)
  PROVE  IInv'
<1> USE DEF Settle
<1>1. i \in DOMAIN items /\ items \in Seq(Item) /\ stage \in Int
  BY DEF IInv, TypeOK, Pending, Started, Returned
<1>2. /\ DOMAIN items' = DOMAIN items /\ items'[i] = item
      /\ \A j \in DOMAIN items : j # i => items'[j] = items[j]
      /\ items' \in Seq(Item)
  BY <1>1
<1>3. todo' \subseteq Pending'
  BY <1>2 DEF IInv, TypeOK, Pending
<1>4. TypeOK'
  BY <1>2, <1>3 DEF IInv, TypeOK
<1>5. SeenIsKnown'
  BY DEF IInv, SeenIsKnown
<1>6. stage # Started /\ ~(stage < ResourceScopes) /\ stage' = stage
  BY <1>1 DEF IInv, ResourceScopes, Started
<1>7. ASSUME NEW j \in DOMAIN items'
      PROVE  Sound(answers, ctxErr, items[j], Past(j))'
  <2>1. CASE j = i
    <3>1. Past(i)' = stage
      BY DEF Past
    <3> QED BY <1>2, <2>1, <3>1
  <2>2. CASE j # i
    <3>1. Past(j)' = Past(j)
      BY <2>2 DEF Past
    <3>2. Sound(answers, ctxErr, items[j], Past(j))
      BY <1>2 DEF IInv
    <3> QED BY <1>2, <2>2, <3>1, <3>2
  <2> QED BY <2>1, <2>2
<1>8. (stage = Started => Pending = DOMAIN items)'
  BY <1>6 DEF Started
<1>9. (stage < ResourceScopes => todo = {})'
  BY <1>6 DEF ResourceScopes
<1> QED BY <1>4, <1>5, <1>7, <1>8, <1>9 DEF IInv

\* An item being settled is undecided, sound so far, and has its lookups.
LEMMA SettleReady ==
  ASSUME IInv, NEW i \in todo, NEW item, Settle(i, item)
  PROVE  /\ items[i] \in Item /\ ~items[i].done /\ TypeOK /\ SeenIsKnown
         /\ Sound(answers, ctxErr, items[i], stage - 1)
         /\ Needs(items[i]) \subseteq DOMAIN seen
<1>1. i \in DOMAIN items /\ ~items[i].done /\ TypeOK /\ SeenIsKnown
  BY DEF IInv, TypeOK, Pending
<1>2. items[i] \in Item
  BY <1>1 DEF TypeOK
<1>3. Past(i) = stage - 1
  BY DEF Past
<1>4. Sound(answers, ctxErr, items[i], stage - 1)
  BY <1>1, <1>3 DEF IInv
<1>5. Missing(i) = {}
  <2>1. CASE AskAhead
    BY <2>1 DEF Settle, Unasked
  <2>2. CASE ~AskAhead
    BY <2>2 DEF Settle
  <2> QED BY <2>1, <2>2
<1>6. Needs(items[i]) \subseteq DOMAIN seen
  BY <1>5 DEF Missing
<1> QED BY <1>1, <1>2, <1>4, <1>6

\* Each of the five reader stages settles an item within the invariant.
LEMMA SettleSteps ==
  ASSUME IInv, NEW i \in todo,
         \/ VerifyResourceScope(i)
         \/ ConfirmMembership(i)
         \/ CheckDirectPermission(i)
         \/ ResolveGroups(i)
         \/ CheckGroupPermission(i)
  PROVE  IInv'
<1>1. CASE VerifyResourceScope(i)
  <2>1. stage = ResourceScopes /\ Settle(i, ResourceScopeOutcome(items[i]))
    BY <1>1 DEF VerifyResourceScope
  <2>2. Sound(answers, ctxErr, items[i], Configured)
    BY <2>1, SettleReady DEF ResourceScopes, Configured
  <2> QED BY <2>1, <2>2, SettleReady, ResourceScopeSound, SettleKeeps
<1>2. CASE ConfirmMembership(i)
  <2>1. stage = Memberships /\ Settle(i, MembershipOutcome(items[i]))
    BY <1>2 DEF ConfirmMembership
  <2>2. Sound(answers, ctxErr, items[i], ResourceScopes)
    BY <2>1, SettleReady DEF Memberships, ResourceScopes
  <2> QED BY <2>1, <2>2, SettleReady, MembershipSound, SettleKeeps
<1>3. CASE CheckDirectPermission(i)
  <2>1. stage = DirectPermissions /\ Settle(i, DirectOutcome(items[i]))
    BY <1>3 DEF CheckDirectPermission
  <2>2. Sound(answers, ctxErr, items[i], Memberships)
    BY <2>1, SettleReady DEF DirectPermissions, Memberships
  <2> QED BY <2>1, <2>2, SettleReady, DirectSound, SettleKeeps
<1>4. CASE ResolveGroups(i)
  <2>1. stage = Groups /\ Settle(i, GroupsOutcome(items[i]))
    BY <1>4 DEF ResolveGroups
  <2>2. Sound(answers, ctxErr, items[i], DirectPermissions)
    BY <2>1, SettleReady DEF Groups, DirectPermissions
  <2> QED BY <2>1, <2>2, SettleReady, GroupsSound, SettleKeeps
<1>5. CASE CheckGroupPermission(i)
  <2>1. stage = GroupPermissions /\ Settle(i, GroupPermissionOutcome(items[i]))
    BY <1>5 DEF CheckGroupPermission
  <2>2. Sound(answers, ctxErr, items[i], Groups)
    BY <2>1, SettleReady DEF GroupPermissions, Groups
  <2> QED BY <2>1, <2>2, SettleReady, GroupPermissionSound, SettleKeeps
<1> QED BY <1>1, <1>2, <1>3, <1>4, <1>5

\* Validating the batch keeps the invariant.
LEMMA ValidateStep == IInv /\ Validate => IInv'
<1> SUFFICES ASSUME IInv, Validate PROVE IInv'
  OBVIOUS
<1> USE DEF Validate, Started, Validated
<1>1. /\ items \in Seq(Item) /\ todo = {}
      /\ \A i \in DOMAIN items : items[i] \in Item /\ ~items[i].done
      /\ \A i \in DOMAIN items : Sound(answers, ctxErr, items[i], 0)
  BY DEF IInv, TypeOK, Pending, Past, ResourceScopes
<1>2. \A i \in DOMAIN items : /\ items'[i] \in Item
                              /\ Sound(answers, ctxErr, items'[i], 1)
  BY <1>1, ValidationSound
<1>3. DOMAIN items' = DOMAIN items /\ items' \in Seq(Item)
  <2>1. items' \in [1..Len(items) -> Item] /\ Len(items) \in Nat
    BY <1>1, <1>2
  <2> QED BY <1>1, <2>1
<1>4. TypeOK'
  BY <1>1, <1>3 DEF IInv, TypeOK, Returned
<1>5. \A i \in DOMAIN items' : Sound(answers, ctxErr, items[i], Past(i))'
  BY <1>1, <1>2, <1>3 DEF Past
<1>6. SeenIsKnown'
  BY DEF IInv, SeenIsKnown
<1> QED BY <1>1, <1>4, <1>5, <1>6 DEF IInv

\* Failing everything for a missing backend keeps the invariant.
LEMMA CheckConfigurationStep == IInv /\ CheckConfiguration => IInv'
<1> SUFFICES ASSUME IInv, CheckConfiguration PROVE IInv'
  OBVIOUS
<1> USE DEF CheckConfiguration, Validated, Configured
<1>1. /\ items \in Seq(Item) /\ todo = {}
      /\ \A i \in DOMAIN items : Sound(answers, ctxErr, items[i], 1)
  BY DEF IInv, TypeOK, Past, ResourceScopes
<1>2. \A what \in {"membership_reader", "group_reader", "permission_reader"} :
        MissingError(what) \in Err /\ MissingError(what).class = "missing"
  BY DEF MissingError, Error, Err, FailurePlace
<1>3. CASE items' = items
  <2>1. ASSUME NEW i \in DOMAIN items
        PROVE  Sound(answers, ctxErr, items[i], 2)
    <3>1. Passed(answers, items[i], 1) => Passed(answers, items[i], 2)
      BY DEF Passed, ResourceScopes, Memberships, DirectPermissions, Groups,
         GroupPermissions
    <3> QED BY <1>1, <3>1 DEF Sound
  <2> QED BY <1>1, <1>3, <2>1 DEF IInv, TypeOK, Pending, Past, SeenIsKnown,
        Started, Returned, ResourceScopes
<1>4. CASE \E what \in {"membership_reader", "group_reader", "permission_reader"} :
             items' = FailPending(MissingError(what))
  <2>1. /\ items' \in Seq(Item) /\ DOMAIN items' = DOMAIN items
        /\ \A i \in DOMAIN items : Sound(answers, ctxErr, items'[i], 2)
    BY <1>1, <1>2, <1>4, 1 \in Int, 2 \in Int, FailPendingSound
  <2> QED BY <1>1, <2>1 DEF IInv, TypeOK, Pending, Past, SeenIsKnown,
        Started, Returned, ResourceScopes
<1> QED BY <1>3, <1>4

\* A stage begins with an empty memo, and every pending item has passed the
\* stage before it.
LEMMA NextStageFacts ==
  ASSUME IInv, NextStage
  PROVE  /\ TypeOK /\ stage \in 2..6 /\ stage' = stage + 1 /\ todo = {}
         /\ items \in Seq(Item) /\ DOMAIN seen' = {}
         /\ \A i \in DOMAIN items : Sound(answers, ctxErr, items[i], stage)
BY DEF IInv, TypeOK, NextStage, Past, Configured, Groups

\* Starting a stage with an empty memo keeps the invariant.
LEMMA EnterStageStep == IInv /\ EnterStage => IInv'
<1> SUFFICES ASSUME IInv, EnterStage PROVE IInv'
  OBVIOUS
<1>1. /\ TypeOK /\ stage \in 2..6 /\ stage' = stage + 1 /\ DOMAIN seen' = {}
      /\ \A i \in DOMAIN items : Sound(answers, ctxErr, items[i], stage)
  BY NextStageFacts DEF EnterStage
<1>2. /\ todo' = Pending /\ UNCHANGED <<engine, withTrace, ctxErr, items, call, answers>>
  BY DEF EnterStage
<1>3. TypeOK' /\ SeenIsKnown'
  BY <1>1, <1>2 DEF TypeOK, SeenIsKnown, Started, Returned, Pending
<1>4. ASSUME NEW i \in DOMAIN items
      PROVE  Sound(answers, ctxErr, items[i], Past(i))'
  <2>1. CASE items[i].done
    <3>1. Past(i)' = stage + 1
      BY <1>1, <1>2, <2>1 DEF Past, Pending
    <3>2. Sound(answers, ctxErr, items[i], stage + 1)
      BY <1>1, <2>1, DoneSound
    <3> QED BY <1>2, <3>1, <3>2
  <2>2. CASE ~items[i].done
    <3>1. Past(i)' = stage
      BY <1>1, <1>2, <2>2 DEF Past, Pending
    <3> QED BY <1>1, <1>2, <3>1
  <2> QED BY <2>1, <2>2
<1>5. stage' # Started /\ ~(stage' < ResourceScopes)
  BY <1>1 DEF Started, ResourceScopes
<1> QED BY <1>2, <1>3, <1>4, <1>5 DEF IInv

\* A stage that finds the context done fails what is pending, soundly.
LEMMA SkipStageStep == IInv /\ SkipStage => IInv'
<1> SUFFICES ASSUME IInv, SkipStage PROVE IInv'
  OBVIOUS
<1>1. /\ TypeOK /\ stage \in 2..6 /\ stage' = stage + 1 /\ todo = {}
      /\ items \in Seq(Item) /\ DOMAIN seen' = {}
      /\ \A i \in DOMAIN items : Sound(answers, ctxErr, items[i], stage)
  BY NextStageFacts DEF SkipStage
<1>2. /\ ctxErr # Nil /\ items' = FailPending(ContextError(ctxErr))
      /\ UNCHANGED <<engine, withTrace, ctxErr, todo, call, answers>>
  BY DEF SkipStage
<1>3. ContextError(ctxErr) \in Err /\ ContextError(ctxErr).class = "context"
  BY <1>1 DEF TypeOK, ContextError, Error, Err, FailurePlace
<1>4. /\ items' \in Seq(Item) /\ DOMAIN items' = DOMAIN items
      /\ \A i \in DOMAIN items : Sound(answers, ctxErr, items'[i], stage + 1)
  BY <1>1, <1>2, <1>3, FailPendingSound
<1>5. TypeOK' /\ SeenIsKnown'
  BY <1>1, <1>2, <1>4 DEF TypeOK, SeenIsKnown, Started, Returned
<1>6. \A i \in DOMAIN items' : Sound(answers, ctxErr, items[i], Past(i))'
  BY <1>1, <1>2, <1>4 DEF Past
<1> QED BY <1>1, <1>2, <1>5, <1>6 DEF IInv, Started, ResourceScopes

\* Issuing a call keeps the invariant.
LEMMA CallReaderStep == IInv /\ CallReader => IInv'
<1> SUFFICES ASSUME IInv, CallReader PROVE IInv'
  OBVIOUS
<1>1. /\ call' \in NextCalls
      /\ UNCHANGED <<engine, withTrace, ctxErr, stage, items, todo, seen, answers>>
  BY DEF CallReader
<1>2. call' \subseteq Lookups
  BY <1>1, NextCallsAreLookups DEF IInv
<1> QED BY <1>1, <1>2 DEF IInv, TypeOK, Pending, Past, SeenIsKnown

\* A refused lookup enters the memo with the error of the context.
LEMMA RefuseCallStep == IInv /\ RefuseCall => IInv'
<1> SUFFICES ASSUME IInv, RefuseCall PROVE IInv'
  OBVIOUS
<1>1. PICK lookups \in NextCalls : Memoise([l \in lookups |-> Failed(ctxErr)])
  BY DEF RefuseCall
<1>2. /\ ctxErr # Nil
      /\ UNCHANGED <<engine, withTrace, ctxErr, stage, items, todo, call, answers>>
  BY DEF RefuseCall
<1>3. lookups \subseteq Lookups /\ Failed(ctxErr) \in Result
  BY <1>1, NextCallsAreLookups DEF IInv, TypeOK, Failed, Result
<1>4. TypeOK'
  <2>1. /\ DOMAIN seen' \subseteq Lookups
        /\ \A l \in DOMAIN seen' : seen'[l] \in Result
    BY <1>1, <1>3, MemoiseType DEF IInv
  <2> QED BY <1>2, <2>1 DEF IInv, TypeOK, Pending
<1>5. SeenIsKnown'
  BY <1>1, <1>2 DEF IInv, SeenIsKnown, Memoise
<1> QED BY <1>2, <1>4, <1>5 DEF IInv, Pending, Past

\* A reply enters the memo and the answers together.
LEMMA ReaderReturnsStep == IInv /\ ReaderReturns => IInv'
<1> SUFFICES ASSUME IInv, ReaderReturns PROVE IInv'
  OBVIOUS
<1> DEFINE given(results) == {[lookup |-> l, result |-> results[l]] : l \in call}
<1>1. PICK results \in Replies :
        Memoise(results) /\ answers' = answers \cup given(results)
  BY DEF ReaderReturns
<1>2. call' = {} /\ UNCHANGED <<engine, withTrace, ctxErr, stage, items, todo>>
  BY DEF ReaderReturns
<1>3. /\ DOMAIN results = call /\ call \subseteq Lookups
      /\ \A l \in call : results[l] \in Result
  BY <1>1, RepliesAreResults DEF IInv, TypeOK
<1>4. /\ DOMAIN seen' \subseteq Lookups
      /\ \A l \in DOMAIN seen' : seen'[l] \in Result
  BY <1>1, <1>3, MemoiseType DEF IInv
<1>5. answers' \subseteq [lookup : Lookups, result : Result]
  BY <1>1, <1>3 DEF IInv, TypeOK
<1>6. TypeOK'
  BY <1>2, <1>4, <1>5 DEF IInv, TypeOK, Pending
<1>7. SeenIsKnown'
  BY <1>1, <1>2, <1>3 DEF IInv, SeenIsKnown, Memoise
<1>8. ASSUME NEW i \in DOMAIN items
      PROVE  Sound(answers, ctxErr, items[i], Past(i))'
  <2>1. Past(i) \in Int
    BY DEF IInv, TypeOK, Past, Started, Returned
  <2>2. Sound(answers, ctxErr, items[i], Past(i)) /\ answers \subseteq answers'
    BY <1>1 DEF IInv
  <2>3. Sound(answers', ctxErr, items[i], Past(i))
    BY <2>1, <2>2, EvidenceGrows
  <2> QED BY <1>2, <2>3 DEF Past
<1> QED BY <1>2, <1>6, <1>7, <1>8 DEF IInv, Pending

\* Returning changes no outcome.
LEMMA ReturnStep == IInv /\ Return => IInv'
<1> SUFFICES ASSUME IInv, Return PROVE IInv'
  OBVIOUS
<1> USE DEF Return, GroupPermissions, Returned, Started, ResourceScopes
<1>1. TypeOK' /\ SeenIsKnown'
  BY DEF IInv, TypeOK, SeenIsKnown, Pending
<1>2. ASSUME NEW i \in DOMAIN items
      PROVE  Sound(answers, ctxErr, items[i], 8)
  <2>1. Sound(answers, ctxErr, items[i], 7)
    BY DEF IInv, Past
  <2>2. items[i].done
    BY <2>1 DEF Sound, Passed
  <2> QED BY <2>1, <2>2, 7 \in Int, 8 \in Int, DoneSound
<1> QED BY <1>1, <1>2 DEF IInv, Past

\* The context may become done at any point.
LEMMA CancelStep == IInv /\ Cancel => IInv'
<1> SUFFICES ASSUME IInv, Cancel PROVE IInv'
  OBVIOUS
<1>1. /\ ctxErr = Nil /\ ctxErr' \in ContextErrors
      /\ UNCHANGED <<engine, withTrace, stage, items, todo, seen, call, answers>>
  BY DEF Cancel
<1>2. TypeOK' /\ SeenIsKnown'
  BY <1>1 DEF IInv, TypeOK, SeenIsKnown, Pending
<1>3. ASSUME NEW i \in DOMAIN items
      PROVE  Sound(answers, ctxErr, items[i], Past(i))'
  <2>1. Past(i) \in Int
    BY DEF IInv, TypeOK, Past, Started, Returned
  <2>2. Sound(answers, Nil, items[i], Past(i))
    BY <1>1 DEF IInv
  <2>3. Sound(answers, ctxErr', items[i], Past(i))
    BY <2>1, <2>2, CancelKeepsSound
  <2> QED BY <1>1, <2>3 DEF Past
<1> QED BY <1>1, <1>2, <1>3 DEF IInv, Pending

\* Every step keeps the invariant: one case for each action.
LEMMA NextIInv == IInv /\ [Next]_vars => IInv'
<1> SUFFICES ASSUME IInv, [Next]_vars PROVE IInv'
  OBVIOUS
<1>1. CASE RunStep
  BY <1>1, ValidateStep, CheckConfigurationStep, EnterStageStep, SkipStageStep,
     CallReaderStep, RefuseCallStep, SettleSteps, ReturnStep DEF RunStep
<1>2. CASE ReaderReturns
  BY <1>2, ReaderReturnsStep
<1>3. CASE Cancel
  BY <1>3, CancelStep
<1>4. CASE UNCHANGED vars
  BY <1>4 DEF vars, IInv, TypeOK, SeenIsKnown, Pending, Past
<1> QED BY <1>1, <1>2, <1>3, <1>4 DEF Next, Done

\* A run that has returned has nothing left to settle: the last stage settles
\* what the stages before it left.
LEMMA NothingLeft == IInv /\ stage = Returned => Pending = {}
<1> SUFFICES ASSUME IInv, stage = Returned, NEW i \in Pending PROVE FALSE
  OBVIOUS
<1>1. i \in DOMAIN items /\ ~items[i].done /\ Sound(answers, ctxErr, items[i], Past(i))
  BY DEF IInv, Pending
<1>2. Past(i) \in {7, 8}
  BY DEF Past, Returned
<1> QED BY <1>1, <1>2 DEF Sound, Passed, GroupPermissions

-----------------------------------------------------------------------------
(* The theorems. *)

\* The invariant holds throughout every run.
THEOREM InductiveInvariant == Spec => []IInv
<1> QED BY InitIInv, NextIInv, PTL DEF Spec

\* Every variable keeps its type, whatever the readers answer and whenever the
\* context is done.
THEOREM TypeCorrect == Spec => []TypeOK
<1>1. IInv => TypeOK
  BY DEF IInv
<1> QED BY <1>1, InductiveInvariant, PTL

\* No request leaves a run neither decided nor failed, which would read as a
\* denial without a reason: the safety half of RunReturns.
THEOREM NothingIsUndecided == Spec => [](stage = Returned => Pending = {})
<1> QED BY NothingLeft, InductiveInvariant, PTL

\* An allow always rests on answers given in this run.
THEOREM Soundness == Spec => []AllowIsEarned
<1>1. IInv => AllowIsEarned
  BY DEF IInv, Sound, AllowIsEarned
<1> QED BY <1>1, InductiveInvariant, PTL

\* A denial always rests on a "no" given in this run: neither an error nor a
\* cancellation turns into one.
THEOREM DenialsAreEvidenced == Spec => []DenialIsEvidenced
<1>1. IInv => DenialIsEvidenced
  BY DEF IInv, Sound, DenialIsEvidenced
<1> QED BY <1>1, InductiveInvariant, PTL

\* A request never fails for its neighbour's reader, and no failure comes with
\* a decision.
THEOREM FailuresAreOwn == Spec => []FailureIsOwn
<1>1. IInv => FailureIsOwn
  BY DEF IInv, Sound, FailureIsOwn
<1> QED BY <1>1, InductiveInvariant, PTL

\* No step touches a request that is decided or has failed.
LEMMA FinalStep ==
  ASSUME IInv, [Next]_vars
  PROVE  \A i \in DOMAIN items : items[i].done => items'[i] = items[i]
<1>1. CASE Validate
  BY <1>1 DEF Validate, IInv, Pending
<1>2. CASE CheckConfiguration \/ SkipStage
  <2>1. \A err : \A i \in DOMAIN items :
          items[i].done => FailPending(err)[i] = items[i]
    BY DEF FailPending, Pending
  <2>2. items' = items \/ \E err : items' = FailPending(err)
    BY <1>2 DEF CheckConfiguration, SkipStage
  <2> QED BY <2>1, <2>2
<1>3. ASSUME NEW i \in todo, NEW item, Settle(i, item)
      PROVE  \A j \in DOMAIN items : items[j].done => items'[j] = items[j]
  <2>1. ~items[i].done
    BY DEF IInv, TypeOK, Pending
  <2> QED BY <1>3, <2>1 DEF Settle
<1>4. CASE items' = items
  BY <1>4
<1> QED
  <2>1. CASE RunStep
    BY <1>1, <1>2, <1>3, <1>4, <2>1
    DEF RunStep, EnterStage, CallReader, RefuseCall, Return, VerifyResourceScope,
        ConfirmMembership, CheckDirectPermission, ResolveGroups, CheckGroupPermission
  <2>2. CASE ReaderReturns \/ Cancel \/ UNCHANGED vars
    BY <1>4, <2>2 DEF ReaderReturns, Cancel, vars
  <2> QED BY <2>1, <2>2 DEF Next, Done

\* Outcomes are final: later stages, cancellation included, leave them alone.
THEOREM OutcomesStay == Spec => OutcomesAreFinal
<1>1. IInv /\ [Next]_vars =>
        [\A i \in DOMAIN items : items[i].done => items'[i] = items[i]]_vars
  BY FinalStep
<1> QED BY <1>1, InductiveInvariant, PTL DEF Spec, OutcomesAreFinal

=============================================================================
