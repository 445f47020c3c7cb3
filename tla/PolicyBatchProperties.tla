------------------------ MODULE PolicyBatchProperties ------------------------
(***************************************************************************)
(* What a batch call on a PolicyAuthorizer guarantees, and what the         *)
(* documentation says of BatchCheck that it does not keep.                 *)
(***************************************************************************)
EXTENDS PolicyBatch, PolicyChainProperties

BatchResults == [request : Requests, decision : Decision, err : Err]

\* The types of the variables of a batch call.
BatchTypeOK ==
  /\ method = "CheckDecision"
  /\ entry \in {"BatchCheckResults", "BatchCheck"}
  /\ hasBase \in BOOLEAN /\ forwards \in BOOLEAN
  /\ batch \in Batches
  /\ phase \in {"sorting", "returned", "panicked"}
  /\ position \in Nat
  /\ direct \in Seq(DOMAIN batch)
  /\ results \in [DOMAIN batch -> BatchResults]
  /\ checking \in DOMAIN batch \cup {0}
  /\ reply \in [decisions : Seq(Decision), index : DOMAIN batch \cup {0}, err : Err]
  /\ shifted \in BOOLEAN
  /\ told \in [DOMAIN batch -> Seq([request : Requests, answer : BatchResults])]
  /\ checking = 0 => doing = "returned"

\* Every request is answered exactly once, by its chain or by the base, and
\* its result is that answer, as a whole and in the request's own place, however
\* the batch was split and whatever the matchers answer the second time.  Only
\* when the base returned too few results is a request left without an answer.
ResultsKeepTheirPlace ==
  phase = "returned" =>
    \A i \in DOMAIN batch :
      \/ told[i] = <<Answered(batch[i], results[i])>>
      \/ /\ told[i] = <<>>
         /\ results[i] = BatchResult(batch[i], NoDecision, NoError)
         /\ forwards /\ \E s \in Surpluses : s < 0

Failing(i) == told[i] # <<>> /\ told[i][1].answer.err # NoError

\* BatchCheck returns every decision made, each in its place, or no decision and
\* the failure of the first request, in input order, whose evaluation failed,
\* whichever of them was evaluated first.
BatchCheckIsAllOrNothing ==
  phase = "returned" /\ entry = "BatchCheck" =>
    IF \E i \in DOMAIN batch : Failing(i)
      THEN /\ reply.decisions = <<>>
           /\ Failing(reply.index) /\ reply.err = told[reply.index][1].answer.err
           /\ \A i \in DOMAIN batch : i < reply.index => ~Failing(i)
      ELSE /\ reply.err = NoError
           /\ DOMAIN reply.decisions = DOMAIN batch
           /\ \A i \in DOMAIN batch :
                told[i] # <<>> => reply.decisions[i] = told[i][1].answer.decision

\* A request that the base is given as part of a batch, with no chain around
\* it, is one that no policy accepts, unless matchers changed their answers.
NoPolicyIsLeftOut ==
  [][~shifted /\ checking = 0 =>
       \A i \in DOMAIN batch :
         told'[i] # told[i] =>
           \A n \in DOMAIN bindings : ~Accepts(bindings[n], batch[i])]_batchVars

-----------------------------------------------------------------------------
(* A documented claim that the code does not keep. *)

\* docs/batch.md:98-101, for PolicyAuthorizer by docs/batch.md:9: BatchCheck
\* validates every request first, and does not evaluate a batch of which one is
\* invalid.  (policy.go:240 evaluates it, and validates nothing itself.)
BatchCheckValidatesFirst ==
  entry = "BatchCheck" /\ (\E i \in DOMAIN batch : ~IsValid(batch[i])) =>
    \A i \in DOMAIN batch : IsValid(batch[i]) => told[i] = <<>>

=============================================================================
