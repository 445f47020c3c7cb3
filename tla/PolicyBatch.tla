----------------------------- MODULE PolicyBatch -----------------------------
(***************************************************************************)
(* A batch through a PolicyAuthorizer (policy.go, BatchCheckResults and     *)
(* BatchCheck).  Requests that some binding matches are evaluated one by    *)
(* one, each through its chain (PolicyChain); the others are put aside and  *)
(* forwarded together to a base that takes batches, or evaluated one by one *)
(* after the rest.                                                          *)
(*                                                                         *)
(* A matcher is the application's code.  It is asked once to sort a request *)
(* and again to evaluate it, and what it reads may change in between.       *)
(***************************************************************************)
EXTENDS PolicyChain

CONSTANTS
  Batches,    \* the request slices a batch call may be given
  Surpluses   \* how many results too many a base may return for a batch

ASSUME BatchAssumption ==
  /\ Batches \subseteq Seq(Requests)
  /\ Surpluses \subseteq Int

VARIABLES
  entry,     \* the method called
  forwards,  \* whether the base implements BatchAuthorizer
  batch,     \* the requests
  phase,     \* sorting, or how the call ended
  position,  \* how far the loops over the batch, then over direct, have come
  direct,    \* indexes of the requests put aside
  results,   \* the BatchResults
  checking,  \* index of the request under evaluation, 0 for none
  reply,     \* what BatchCheck returns
  shifted,   \* whether the matchers have changed their answers
  told       \* history: for each index, what was asked about and answered

callVars == <<entry, forwards, batch, phase, position, direct, results, checking,
              reply, shifted, told>>

batchVars == <<vars, callVars>>

NoReply == BatchReply(<<>>, 0, NoError)

NoRequest == "none"

Sorted == position > Len(batch)

\* Where the loop over the requests put aside has come.
NextDirect == position - Len(batch)

\* A result of the base for a batch: from an evaluation of its own, with the
\* request it names in it, the one it was given or not.
BaseResults ==
  {BatchResult(request, decision, NoError) : request \in Requests, decision \in Decisions}
  \cup {BatchResult(request, NoDecision, err) : request \in Requests, err \in PolicyErrors}

\* The requests put aside, as the base is given them.
Forwarded == [k \in DOMAIN direct |-> batch[direct[k]]]

\* One request evaluated, and the result of it.
Answered(request, answer) == [request |-> request, answer |-> answer]

-----------------------------------------------------------------------------
BatchInit ==
  /\ method = "CheckDecision"
  /\ bindings \in Chains
  /\ hasBase \in IF MayMissBase THEN BOOLEAN ELSE {TRUE}
  /\ forwards \in IF hasBase THEN BOOLEAN ELSE {FALSE}
  /\ entry \in {"BatchCheckResults", "BatchCheck"}
  /\ batch \in Batches
  /\ doing = "returned"
  /\ asked = Ask(NoRequest, 1)
  /\ frames = <<>>
  /\ result = NoOutcome
  /\ phase = "sorting"
  /\ position = 1
  /\ direct = <<>>
  /\ results = [i \in DOMAIN batch |-> BatchResult(batch[i], NoDecision, NoError)]
  /\ checking = 0
  /\ reply = NoReply
  /\ shifted = FALSE
  /\ told = [i \in DOMAIN batch |-> <<>>]

\* Faulty variant: the index is read when the loop has moved on.
EvaluateLate(i) ==
  /\ checking' = i + 1
  /\ doing' = "starting"
  /\ asked' = Ask(batch[i], 1)
  /\ position' = position + 1
  /\ UNCHANGED <<method, bindings, hasBase, frames, result, entry, forwards, batch, phase,
                 direct, results, reply, shifted, told>>

\* The evaluation of the request at index i starts: a call of CheckDecision.
Evaluate(i) ==
  /\ checking' = i
  /\ doing' = "starting"
  /\ asked' = Ask(batch[i], 1)
  /\ position' = position + 1
  /\ UNCHANGED <<method, bindings, hasBase, frames, result, entry, forwards, batch, phase,
                 direct, results, reply, shifted, told>>

Idle == phase = "sorting" /\ checking = 0

\* Faulty variant: invalid requests are left to the base.
PutInvalidAside ==
  /\ Idle /\ ~Sorted
  /\ ~IsValid(batch[position]) \/ Matching(Ask(batch[position], 1)) = {}
  /\ direct' = Append(direct, position)
  /\ position' = position + 1
  /\ UNCHANGED <<vars, entry, forwards, batch, phase, results, checking, reply,
                 shifted, told>>

PutAside ==
  /\ Idle /\ ~Sorted
  /\ Matching(Ask(batch[position], 1)) = {}
  /\ direct' = Append(direct, position)
  /\ position' = position + 1
  /\ UNCHANGED <<vars, entry, forwards, batch, phase, results, checking, reply,
                 shifted, told>>

CheckMatched ==
  /\ Idle /\ ~Sorted
  /\ Matching(Ask(batch[position], 1)) # {}
  /\ Evaluate(position)

CheckDirect ==
  /\ Idle /\ Sorted
  /\ ~forwards
  /\ NextDirect \in DOMAIN direct
  /\ Evaluate(direct[NextDirect])

EvaluationStep ==
  /\ doing # "returned"
  /\ Next
  /\ UNCHANGED callVars

\* The evaluation has returned, and its decision and error are stored.
Store ==
  /\ checking # 0
  /\ doing = "returned"
  /\ results' = [results EXCEPT ![checking].decision = result.decision,
                                ![checking].err = result.err]
  /\ told' = [told EXCEPT ![checking] = Append(@, Answered(batch[checking],
                 BatchResult(batch[checking], result.decision, result.err)))]
  /\ checking' = 0
  /\ result' = NoOutcome
  /\ UNCHANGED <<method, bindings, hasBase, doing, asked, frames, entry, forwards, batch,
                 phase, position, direct, reply, shifted>>

\* What the method returns with these results.
Ends(final) ==
  /\ phase' = "returned"
  /\ results' = final
  /\ reply' = IF entry = "BatchCheck" THEN DecisionsOrError(final) ELSE NoReply

\* Faulty variant: the k-th result is stored in the k-th place.
SamePlace(k) == k

Place(k) == direct[k]

\* The results of the base, put in place one after another.
Merged(answers) ==
  [i \in DOMAIN results |->
     IF \E k \in DOMAIN answers : Place(k) = i
       THEN answers[CHOOSE k \in DOMAIN answers : Place(k) = i]
       ELSE results[i]]

\* The base answers the requests put aside, in one call.  It may return fewer
\* results than requests; there is no place for one too many, and that panics.
Forward ==
  /\ Idle /\ Sorted
  /\ forwards /\ direct # <<>>
  /\ \E surplus \in Surpluses :
     \E answers \in [1..(Len(direct) + surplus) -> BaseResults] :
       /\ told' = [i \in DOMAIN told |->
                     IF \E k \in DOMAIN answers \cap DOMAIN direct : direct[k] = i
                       THEN LET k == CHOOSE n \in DOMAIN direct : direct[n] = i
                            IN Append(told[i], Answered(Forwarded[k], answers[k]))
                       ELSE told[i]]
       /\ IF surplus > 0
            THEN phase' = "panicked" /\ UNCHANGED <<results, reply>>
            ELSE Ends(Merged(answers))
  /\ UNCHANGED <<vars, entry, forwards, batch, position, direct, checking, shifted>>

\* Every request has its result, without a call for the whole batch.
ReturnResults ==
  /\ Idle /\ Sorted
  /\ IF forwards THEN direct = <<>> ELSE NextDirect \notin DOMAIN direct
  /\ Ends(results)
  /\ UNCHANGED <<vars, entry, forwards, batch, position, direct, checking, shifted, told>>

\* What matchers read has changed: they accept other requests from now on.
Shift ==
  /\ phase = "sorting"
  /\ ~shifted
  /\ bindings' \in {chain \in Chains :
       /\ DOMAIN chain = DOMAIN bindings
       /\ \A n \in DOMAIN chain :
            chain[n] = [bindings[n] EXCEPT !.matches = chain[n].matches]}
  /\ shifted' = TRUE
  /\ UNCHANGED <<method, hasBase, doing, asked, frames, result, entry, forwards, batch, phase,
                 position, direct, results, checking, reply, told>>

BatchDone == phase # "sorting" /\ UNCHANGED batchVars

BatchNext ==
  \/ PutAside
  \/ CheckMatched
  \/ CheckDirect
  \/ EvaluationStep
  \/ Store
  \/ Forward
  \/ ReturnResults
  \/ Shift
  \/ BatchDone

BatchSpec == BatchInit /\ [][BatchNext]_batchVars

=============================================================================
