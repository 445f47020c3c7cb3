----------------------------- MODULE PolicyChain -----------------------------
(***************************************************************************)
(* One request through a PolicyAuthorizer (policy.go): the chain of the    *)
(* policies whose matchers accept it, ending at the wrapped authorizer.    *)
(*                                                                         *)
(* A policy is the application's code.  It may call next any number of     *)
(* times, with its request or another, and return a decision or an error    *)
(* of its own or one it heard from next.                                    *)
(*                                                                         *)
(* CheckDecision and CheckTrace are two recursions over the same bindings,  *)
(* checkDecisionFrom and checkTraceFrom, each with a continuation of its    *)
(* own and its own way to return; an evaluation is one or the other.        *)
(***************************************************************************)
EXTENDS AuthorizationModel

CONSTANTS
  Requests,         \* the requests evaluated, and those policies turn them into
  Chains,           \* the binding lists a PolicyAuthorizer may be given
  Decisions,        \* decisions the wrapped authorizer and policies make
  BesideErrors,     \* decisions that policies return together with an error
  PolicyErrors,     \* errors of policies, and of the wrapped authorizer
  MayMissBase       \* whether NewPolicyAuthorizer may be given a nil base

\* matches is the set of requests a binding's matcher accepts, all of them when
\* Match is nil; calls bounds how often its policy calls next in one evaluation.
Binding == [isNil : BOOLEAN, matches : SUBSET Requests, calls : Nat]

ASSUME ChainAssumption ==
  /\ Requests \subseteq Request
  /\ Chains \subseteq Seq(Binding)
  /\ Decisions \subseteq Decision /\ BesideErrors \subseteq Decision
  /\ NoError \notin PolicyErrors
  /\ MayMissBase \in BOOLEAN

VARIABLES
  method,    \* the method evaluated: CheckDecision or CheckTrace
  bindings,  \* the authorizer's bindings
  hasBase,   \* whether it wraps an authorizer
  doing,     \* starting an evaluation, running the innermost policy, returned
  asked,     \* the evaluation last started: its request and first binding
  frames,    \* the policies under way, the outermost first
  result     \* what the caller gets

vars == <<method, bindings, hasBase, doing, asked, frames, result>>

-----------------------------------------------------------------------------
(* What is returned, and what is told to the caller of next. *)

Says(decision, err) == [decision |-> decision, err |-> err]

\* CheckDecision has no steps.
Outcome(says, steps) == [decision |-> says.decision, err |-> says.err, steps |-> steps]

NoOutcome == Outcome(Says(NoDecision, NoError), <<>>)

Ask(request, start) == [request |-> request, start |-> start]

\* The traceContinuation of a policy: what the last call of next left in it.
NextNotCalled == [called |-> FALSE, decision |-> NoDecision, steps |-> <<>>]

NextCalled(outcome) ==
  [called |-> TRUE, decision |-> outcome.decision, steps |-> outcome.steps]

\* A policy under way: its binding, its request, what next has told it, call by
\* call, and the continuation of CheckTrace.
Frame(at, request) ==
  [at |-> at, request |-> request, heard |-> <<>>, next |-> NextNotCalled]

\* What either continuation does with the outcome of its check.
HearDecision(frame, outcome) ==
  [frame EXCEPT !.heard = Append(@, Says(outcome.decision, outcome.err))]

HearTrace(frame, outcome) ==
  [frame EXCEPT !.heard = Append(@, Says(outcome.decision, outcome.err)),
                !.next = NextCalled(outcome)]

Hear(frame, outcome) ==
  IF method = "CheckTrace" THEN HearTrace(frame, outcome) ELSE HearDecision(frame, outcome)

Top == frames[Len(frames)]

Outer(stack) == SubSeq(stack, 1, Len(stack) - 1)

\* The caller of next, or of the authorizer, receives an outcome.
Deliver(stack, outcome) ==
  IF stack = <<>>
    THEN doing' = "returned" /\ frames' = stack /\ result' = outcome
    ELSE /\ doing' = "running"
         /\ frames' = [stack EXCEPT ![Len(stack)] = Hear(@, outcome)]
         /\ result' = result

-----------------------------------------------------------------------------
(* The chain. *)

\* Faulty variant: a nil policy is not skipped.
AcceptsNil(binding, request) == request \in binding.matches

Accepts(binding, request) == ~binding.isNil /\ request \in binding.matches

\* The bindings nextBinding chooses from; it takes the first.
Matching(ask) ==
  {n \in DOMAIN bindings : n >= ask.start /\ Accepts(bindings[n], ask.request)}

\* Faulty variant: next starts over with the policy that called it.
SamePolicy(frame) == frame.at

\* Where the closure given to a policy goes on: that of checkDecisionFrom, and
\* that of checkTraceFrom.
NextDecision(frame) == frame.at + 1

NextTrace(frame) == frame.at + 1

-----------------------------------------------------------------------------
(* What CheckTrace makes of a policy's return. *)

PolicyStep(mark, source) ==
  <<TraceStep("policy_evaluated", mark, NoPrincipal, source)>>

\* Faulty variant: only a change of the answer counts.
ChangesAnswer(frame, says) == says.decision.allowed # frame.next.decision.allowed

\* Faulty variant: a next that failed has no decision to override.
OverridesSuccess(frame, says) ==
  frame.heard[Len(frame.heard)].err = NoError /\ says.decision # frame.next.decision

Overrides(frame, says) == says.decision # frame.next.decision

\* The steps of the last call of next follow the policy's own.
Steps(frame, says) ==
  CASE says.err # NoError ->
         PolicyStep("error", "unset") \o (IF frame.next.called THEN frame.next.steps ELSE <<>>)
    [] says.err = NoError /\ ~frame.next.called ->
         PolicyStep("handled", says.decision.source)
    [] says.err = NoError /\ frame.next.called ->
         PolicyStep("delegated", "unset") \o frame.next.steps \o
         (IF Overrides(frame, says)
            THEN PolicyStep("overridden", says.decision.source) ELSE <<>>)

\* Faulty variant: the decision that next made is returned.
TracedDecisionOfNext(frame, says) ==
  Outcome(IF frame.next.called THEN Says(frame.next.decision, says.err) ELSE says,
          Steps(frame, says))

\* A decision beside an error is dropped.
Traced(frame, says) ==
  Outcome(IF says.err # NoError THEN Says(NoDecision, says.err) ELSE says,
          Steps(frame, says))

-----------------------------------------------------------------------------
Init ==
  /\ method \in {"CheckDecision", "CheckTrace"}
  /\ bindings \in Chains
  /\ hasBase \in IF MayMissBase THEN BOOLEAN ELSE {TRUE}
  /\ doing = "starting"
  /\ \E request \in Requests : asked = Ask(request, 1)
  /\ frames = <<>>
  /\ result = NoOutcome

MissBase ==
  /\ doing = "starting"
  /\ ~hasBase
  /\ Deliver(frames, Outcome(Says(NoDecision, MissingError("authorizer")), <<>>))
  /\ UNCHANGED <<method, bindings, hasBase, asked>>

\* checkDecisionFrom runs the next policy.
RunPolicy ==
  /\ method = "CheckDecision"
  /\ doing = "starting" /\ hasBase
  /\ Matching(asked) # {}
  /\ doing' = "running"
  /\ frames' = Append(frames, Frame(Min(Matching(asked)), asked.request))
  /\ UNCHANGED <<method, bindings, hasBase, asked, result>>

\* checkTraceFrom runs the next policy.
TracePolicy ==
  /\ method = "CheckTrace"
  /\ doing = "starting" /\ hasBase
  /\ Matching(asked) # {}
  /\ doing' = "running"
  /\ frames' = Append(frames, Frame(Min(Matching(asked)), asked.request))
  /\ UNCHANGED <<method, bindings, hasBase, asked, result>>

\* What the authorizer does of itself.
Walk == MissBase \/ RunPolicy \/ TracePolicy

ReachesBase == doing = "starting" /\ hasBase /\ Matching(asked) = {}

\* The CheckDecision or CheckTrace of the wrapped authorizer returns.
BaseReturns(says, steps) ==
  /\ Deliver(frames, Outcome(says, IF method = "CheckTrace" THEN steps ELSE <<>>))
  /\ UNCHANGED <<method, bindings, hasBase, asked>>

\* It decides, or fails with no decision.  Its trace is stood for by its last
\* step: the deciding one, or a failing one if any.
BaseDecides(decision) ==
  /\ ReachesBase
  /\ BaseReturns(Says(decision, NoError),
                 <<TraceStep("base", "decided", NoPrincipal, decision.source)>>)

BaseFails(err, steps) ==
  /\ ReachesBase
  /\ BaseReturns(Says(NoDecision, err), steps)

BaseDecisions == {d \in Decisions : d.source # "unset"}

FailedSteps == {<<>>, <<TraceStep("base", "error", NoPrincipal, "unset")>>}

CallNext(request) ==
  /\ doing = "running"
  /\ Len(Top.heard) < bindings[Top.at].calls
  /\ doing' = "starting"
  /\ asked' = Ask(request, IF method = "CheckTrace" THEN NextTrace(Top) ELSE NextDecision(Top))
  /\ UNCHANGED <<method, bindings, hasBase, frames, result>>

\* checkDecisionFrom returns what the policy does.
ReturnDecision(says) ==
  /\ method = "CheckDecision"
  /\ Deliver(Outer(frames), Outcome(says, <<>>))

ReturnTrace(says) ==
  /\ method = "CheckTrace"
  /\ Deliver(Outer(frames), Traced(Top, says))

Return(says) ==
  /\ ReturnDecision(says) \/ ReturnTrace(says)
  /\ UNCHANGED <<method, bindings, hasBase, asked>>

\* A decision of the policy's own, whether it called next or not.
Decide(decision) == doing = "running" /\ Return(Says(decision, NoError))

Fail(decision, err) == doing = "running" /\ Return(Says(decision, err))

\* The calls of next the innermost policy has made.
Calls == IF doing = "running" THEN DOMAIN Top.heard ELSE {}

\* What some call of next returned.
PassOn(n) == n \in Calls /\ Return(Top.heard[n])

\* The decision heard beside an error, as if there were none.
Overlook(n) ==
  /\ n \in Calls
  /\ Top.heard[n].err # NoError
  /\ Return(Says(Top.heard[n].decision, NoError))

Done == doing = "returned" /\ UNCHANGED vars

Next ==
  \/ Walk
  \/ \E decision \in BaseDecisions : BaseDecides(decision)
  \/ \E err \in PolicyErrors, steps \in FailedSteps : BaseFails(err, steps)
  \/ \E request \in Requests : CallNext(request)
  \/ \E decision \in Decisions : Decide(decision)
  \/ \E decision \in BesideErrors, err \in PolicyErrors : Fail(decision, err)
  \/ \E n \in Calls : PassOn(n) \/ Overlook(n)
  \/ Done

Spec == Init /\ [][Next]_vars

=============================================================================
