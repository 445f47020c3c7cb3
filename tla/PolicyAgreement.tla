--------------------------- MODULE PolicyAgreement ---------------------------
(***************************************************************************)
(* CheckDecision and CheckTrace of one PolicyAuthorizer, for one request:    *)
(* two evaluations (PolicyChain), each by its own recursion, with the same  *)
(* bindings around the same base.                                           *)
(*                                                                         *)
(* Policies and the base are functions of what they are told.  As long as   *)
(* they are asked the same and hear the same in both evaluations, they do   *)
(* the same.  The decision beside an error is not part of what is told      *)
(* (docs/policies.md, Errors), so a policy that uses it all the same is the *)
(* one to set the two apart; once they are apart each goes its own way.     *)
(***************************************************************************)
EXTENDS AuthorizationModel

CONSTANTS
  Requests, Chains, Decisions, BesideErrors, PolicyErrors, MayMissBase

VARIABLES
  bindings, hasBase,                   \* the authorizer, as in PolicyChain
  dDoing, dAsked, dFrames, dResult,    \* the evaluation by CheckDecision
  tDoing, tAsked, tFrames, tResult,    \* the evaluation by CheckTrace
  overlooked  \* history: whether a decision beside an error was used, and
              \* CheckTrace does not have the one that CheckDecision has

dVars == <<dDoing, dAsked, dFrames, dResult>>
tVars == <<tDoing, tAsked, tFrames, tResult>>
vars == <<bindings, hasBase, dVars, tVars, overlooked>>

Plain ==
  INSTANCE PolicyChainProperties WITH
    method <- "CheckDecision", doing <- dDoing, asked <- dAsked,
    frames <- dFrames, result <- dResult

Tracing ==
  INSTANCE PolicyChainProperties WITH
    method <- "CheckTrace", doing <- tDoing, asked <- tAsked,
    frames <- tFrames, result <- tResult

\* What counts of a decision and an error returned.
Told(says) ==
  IF says.err # NoError THEN Plain!Says(NoDecision, says.err)
  ELSE Plain!Says(says.decision, NoError)

\* What a policy knows: where it is bound, its request, what it was told.
View(frame) ==
  [at |-> frame.at, request |-> frame.request,
   told |-> [n \in DOMAIN frame.heard |-> Told(frame.heard[n])]]

Views(frames) == [k \in DOMAIN frames |-> View(frames[k])]

\* The two evaluations have come to the same point by the same way.
Alike ==
  /\ dDoing = tDoing
  /\ dAsked = tAsked
  /\ Views(dFrames) = Views(tFrames)

-----------------------------------------------------------------------------
Init ==
  /\ Plain!Init
  /\ Tracing!Init
  /\ dAsked = tAsked
  /\ overlooked = FALSE

\* Both recursions take their step.
WalkBoth == Plain!Walk /\ Tracing!Walk /\ UNCHANGED overlooked

\* The base, told the same, answers the same.
BaseDecidesBoth(decision) ==
  /\ Plain!BaseDecides(decision)
  /\ Tracing!BaseDecides(decision)
  /\ UNCHANGED overlooked

BaseFailsBoth(err, steps) ==
  /\ Plain!BaseFails(err, steps)
  /\ Tracing!BaseFails(err, steps)
  /\ UNCHANGED overlooked

\* A policy, told the same, does the same.
CallNextBoth(request) ==
  /\ Plain!CallNext(request)
  /\ Tracing!CallNext(request)
  /\ UNCHANGED overlooked

DecideBoth(decision) ==
  /\ Plain!Decide(decision)
  /\ Tracing!Decide(decision)
  /\ UNCHANGED overlooked

FailBoth(decision, err) ==
  /\ Plain!Fail(decision, err)
  /\ Tracing!Fail(decision, err)
  /\ UNCHANGED overlooked

PassOnBoth(n) ==
  /\ Plain!PassOn(n)
  /\ Tracing!PassOn(n)
  /\ UNCHANGED overlooked

OverlookBoth(n) ==
  /\ Plain!Overlook(n)
  /\ Tracing!Overlook(n)
  /\ overlooked' = (overlooked \/ Plain!Top.heard[n].decision # Tracing!Top.heard[n].decision)

Together ==
  /\ Alike
  /\ \/ WalkBoth
     \/ \E decision \in Plain!BaseDecisions : BaseDecidesBoth(decision)
     \/ \E err \in PolicyErrors, steps \in Plain!FailedSteps : BaseFailsBoth(err, steps)
     \/ \E request \in Requests : CallNextBoth(request)
     \/ \E decision \in Decisions : DecideBoth(decision)
     \/ \E decision \in BesideErrors, err \in PolicyErrors : FailBoth(decision, err)
     \/ \E n \in Plain!Calls : PassOnBoth(n) \/ OverlookBoth(n)

\* The evaluation by CheckDecision goes first: they have nothing in common.
Apart ==
  /\ ~Alike
  /\ IF dDoing # "returned"
       THEN Plain!Next /\ UNCHANGED tVars
       ELSE tDoing # "returned" /\ Tracing!Next /\ UNCHANGED dVars
  /\ UNCHANGED <<bindings, hasBase, overlooked>>

Returned == dDoing = "returned" /\ tDoing = "returned"

Done == Returned /\ UNCHANGED vars

Next == Together \/ Apart \/ Done

Spec == Init /\ [][Next]_vars

-----------------------------------------------------------------------------
(* The property, and the claim that the code does not keep. *)

\* CheckDecision and CheckTrace fail together and with the same error, and
\* return the same decision when they do not fail, unless some policy used a
\* decision that it heard beside an error: whatever requests policies pass on
\* and however often, and whatever is returned beside an error.
CheckAndTraceAgree == Returned /\ ~overlooked => Told(dResult) = Told(tResult)

\* docs/policies.md:65: CheckDecision and CheckTrace return the same decision.
\* (policy.go:158 returns the decision a policy returns beside an error, and
\* policy.go:197 drops it; a policy further out can tell.)
SameDecision == Returned => Told(dResult) = Told(tResult)

=============================================================================
