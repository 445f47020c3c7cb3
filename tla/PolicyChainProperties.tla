------------------------ MODULE PolicyChainProperties ------------------------
(***************************************************************************)
(* What a chain of policies guarantees whatever the policies do, and two   *)
(* things the documentation says of it that it does not keep.              *)
(***************************************************************************)
EXTENDS PolicyChain

Err == PolicyErrors \cup {NoError, MissingError("authorizer")}

Answer == [decision : Decision, err : Err]

TraceSteps ==
  [name : {"policy_evaluated", "base"},
   result : {"delegated", "handled", "overridden", "error", "decided"},
   principal : {NoPrincipal}, source : DecisionSource]

Outcomes == [decision : Decision, err : Err, steps : Seq(TraceSteps)]

Frames ==
  [at : Nat, request : Requests, heard : Seq(Answer),
   next : [called : BOOLEAN, decision : Decision, steps : Seq(TraceSteps)]]

\* The types of the variables; only bindings with a policy ever run.
ChainTypeOK ==
  /\ method \in {"CheckDecision", "CheckTrace"}
  /\ bindings \in Chains
  /\ hasBase \in BOOLEAN
  /\ doing \in {"starting", "running", "returned"}
  /\ asked \in [request : Requests, start : Nat]
  /\ frames \in Seq(Frames)
  /\ \A n \in DOMAIN frames :
       frames[n].at \in DOMAIN bindings /\ ~bindings[frames[n].at].isNil
  /\ doing = "running" => frames # <<>>
  /\ result \in Outcomes

\* The request in force when the chain passed binding n.
RequestAt(n) ==
  LET Beyond == {k \in DOMAIN frames : frames[k].at > n}
  IN IF Beyond = {} THEN asked.request ELSE frames[Min(Beyond)].request

\* Policies nest in the order of their bindings, none inside itself, and the
\* wrapped authorizer is reached past no policy that accepts the request made
\* of it at that point of the chain, however policies rewrite requests and
\* however often they call next.
NoPolicyIsBypassed ==
  /\ \A m, n \in DOMAIN frames : m < n => frames[m].at < frames[n].at
  /\ ReachesBase =>
       \A n \in DOMAIN bindings :
         \/ \E k \in DOMAIN frames : frames[k].at = n
         \/ bindings[n].isNil
         \/ RequestAt(n) \notin bindings[n].matches

Named(steps) == {n \in DOMAIN steps : steps[n].source # "unset"}

\* CheckTrace has returned a decision.
TraceReturned == doing = "returned" /\ method = "CheckTrace" /\ result.err = NoError

\* A decision that names its source has that source in the last step that
\* names one, through any nesting of delegation, override and repeated calls.
\* (types.go:141-142 promises it of every decision; after an override by one
\* that names no source, policy.go:193, the last source is the overridden one's.)
LastSourceIsTheDecisions ==
  TraceReturned /\ result.decision.source # "unset" =>
    LET steps == result.steps
    IN Named(steps) # {} /\ steps[Max(Named(steps))].source = result.decision.source

\* When an evaluation succeeds although something in it failed, the trace says
\* who made the decision after all: an override follows the error.  (A policy
\* that answers with the zero decision leaves no such mark.)
SwallowedErrorsAreMarked ==
  TraceReturned /\ result.decision # NoDecision =>
    LET steps == result.steps
    IN \A n \in DOMAIN steps :
         steps[n].result = "error" =>
           \E m \in DOMAIN steps : m > n /\ steps[m].result = "overridden"

-----------------------------------------------------------------------------
(* Documented claims that the code does not keep. *)

\* types.go:161-162: an error step always means that evaluation failed and an
\* error was returned.  (A policy may decide after next failed.)
ErrorStepMeansError ==
  TraceReturned => \A n \in DOMAIN result.steps : result.steps[n].result # "error"

\* engine.go:105-107: the decision of a batch result that carries an error is
\* zero.  BatchCheckResults (policy.go:215) copies what CheckDecision returns.
FailedResultsAreZero ==
  doing = "returned" /\ method = "CheckDecision" /\ result.err # NoError =>
    result.decision = NoDecision

=============================================================================
