-------------------------- MODULE PolicyBatchProofs --------------------------
(***************************************************************************)
(* Proofs about a batch call on a PolicyAuthorizer, for every list of       *)
(* bindings, batch and base, and for policies that do anything.  The        *)
(* inductive invariant says which requests the loops have dealt with: they  *)
(* have one answer, which is their result, and the others have none.  The   *)
(* types of a call need the types of the evaluation it runs, frames and all.*)
(***************************************************************************)
EXTENDS PolicyBatchProperties, PolicyChainProofs

Aside(i) == \E k \in DOMAIN direct : direct[k] = i

\* The loops have come past the request at index i.
DealtWith(i) ==
  \/ i < position /\ ~Aside(i)
  \/ \E k \in DOMAIN direct : direct[k] = i /\ k < NextDirect

Told(i) == told[i] = <<Answered(batch[i], results[i])>>

Untold(i) ==
  told[i] = <<>> /\ results[i] = BatchResult(batch[i], NoDecision, NoError)

Shapes ==
  /\ bindings \in Chains /\ batch \in Seq(Requests)
  /\ position \in Nat \ {0} /\ checking \in Nat
  /\ direct \in Seq(DOMAIN batch)
  /\ DOMAIN results = DOMAIN batch /\ DOMAIN told = DOMAIN batch

Unmatched(i) == Matching(Ask(batch[i], 1)) = {}

\* The requests put aside are in input order, and no binding accepted them.
DirectIsOrdered ==
  /\ \A k \in DOMAIN direct : direct[k] < position
  /\ \A j, k \in DOMAIN direct : j < k => direct[j] < direct[k]
  /\ ~shifted => \A k \in DOMAIN direct : Unmatched(direct[k])

LoopInv ==
  phase = "sorting" =>
    /\ forwards => position <= Len(batch) + 1
    /\ checking # 0 => checking \in DOMAIN batch /\ DealtWith(checking)
    /\ \A i \in DOMAIN batch :
         IF DealtWith(i) /\ i # checking THEN Told(i) ELSE Untold(i)

EndInv ==
  /\ phase # "sorting" => checking = 0
  /\ phase = "returned" =>
       /\ reply = (IF entry = "BatchCheck" THEN DecisionsOrError(results) ELSE NoReply)
       /\ \A i \in DOMAIN batch :
            \/ Told(i)
            \/ Untold(i) /\ forwards /\ \E s \in Surpluses : s < 0

BatchInv == Shapes /\ DirectIsOrdered /\ LoopInv /\ EndInv

-----------------------------------------------------------------------------
(* The steps. *)

\* No step of an evaluation changes the bindings.
LEMMA ChainKeepsBindings == Next => bindings' = bindings
BY DEF Next, Walk, MissBase, RunPolicy, TracePolicy, BaseDecides, BaseFails, BaseReturns,
   CallNext, Decide, Fail, PassOn, Overlook, Return, Done, vars

\* A call starts with nothing answered.
LEMMA InitBatchInv == BatchInit => BatchInv
<1> SUFFICES ASSUME BatchInit PROVE BatchInv
  OBVIOUS
<1>1. batch \in Seq(Requests) /\ bindings \in Chains
  BY BatchAssumption DEF BatchAssumption, BatchInit
<1>2. /\ position = 1 /\ checking = 0 /\ direct = <<>> /\ phase = "sorting"
      /\ results = [i \in DOMAIN batch |-> BatchResult(batch[i], NoDecision, NoError)]
      /\ told = [i \in DOMAIN batch |-> <<>>]
  BY DEF BatchInit
<1>3. Len(batch) \in Nat /\ DOMAIN batch = 1..Len(batch)
  BY <1>1
<1>4. \A i \in DOMAIN batch : Untold(i) /\ ~DealtWith(i)
  BY <1>2, <1>3 DEF Untold, DealtWith
<1>5. Shapes
  BY <1>1, <1>2 DEF Shapes
<1> QED BY <1>2, <1>3, <1>4, <1>5 DEF BatchInv, DirectIsOrdered, LoopInv, EndInv

\* What the loops know of the numbers they count with.
LEMMA LoopNumbers ==
  ASSUME Shapes
  PROVE  /\ Len(batch) \in Nat /\ DOMAIN batch = 1..Len(batch)
         /\ Len(direct) \in Nat /\ DOMAIN direct = 1..Len(direct)
         /\ \A k \in DOMAIN direct : direct[k] \in DOMAIN batch
         /\ position \in Nat /\ NextDirect \in Int /\ checking \in Nat
BY DEF Shapes, NextDirect

\* What no binding accepts, none accepts until the bindings change.
LEMMA UnmatchedStays ==
  ASSUME bindings' = bindings, batch' = batch
  PROVE  \A i : Unmatched(i)' <=> Unmatched(i)
BY DEF Unmatched, Matching, Ask, Accepts

\* Putting a request aside keeps the invariant.
LEMMA PutAsideKeeps == BatchInv /\ PutAside => BatchInv'
<1> SUFFICES ASSUME BatchInv, PutAside PROVE BatchInv'
  OBVIOUS
<1>1. /\ direct' = Append(direct, position) /\ position' = position + 1
      /\ UNCHANGED <<vars, entry, forwards, batch, phase, results, checking, reply,
                     shifted, told>>
      /\ phase = "sorting" /\ checking = 0
      /\ Matching(Ask(batch[position], 1)) = {}
  BY DEF PutAside, Idle
<1>2. bindings' = bindings
  BY <1>1 DEF vars
<1>3. position <= Len(batch) /\ position \in DOMAIN batch /\ Shapes
  BY LoopNumbers DEF PutAside, Sorted, BatchInv, Shapes
<1>4. /\ Len(direct') = Len(direct) + 1 /\ DOMAIN direct' = 1..(Len(direct) + 1)
      /\ DOMAIN direct' = DOMAIN direct \cup {Len(direct) + 1}
      /\ \A k \in DOMAIN direct : direct'[k] = direct[k]
      /\ direct'[Len(direct) + 1] = position /\ direct' \in Seq(DOMAIN batch)
  BY <1>1, <1>3, LoopNumbers DEF Shapes
<1>5. Shapes'
  BY <1>1, <1>2, <1>3, <1>4 DEF Shapes
<1>6. \A i : Unmatched(i)' <=> Unmatched(i)
  BY <1>1, <1>2, UnmatchedStays
<1>7. DirectIsOrdered'
  <2>1. \A k \in DOMAIN direct' : direct'[k] < position'
    BY <1>1, <1>3, <1>4, LoopNumbers DEF BatchInv, DirectIsOrdered
  <2>2. ASSUME NEW j \in DOMAIN direct', NEW k \in DOMAIN direct', j < k
        PROVE  direct'[j] < direct'[k]
    <3>1. j \in DOMAIN direct /\ (k \in DOMAIN direct \/ k = Len(direct) + 1)
      BY <1>3, <1>4, <2>2, LoopNumbers
    <3>2. direct[j] < position /\ (k \in DOMAIN direct => direct[j] < direct[k])
      BY <2>2, <3>1 DEF BatchInv, DirectIsOrdered
    <3> QED BY <1>4, <3>1, <3>2
  <2>3. ~shifted => \A k \in DOMAIN direct' : Unmatched(direct'[k])
    BY <1>1, <1>4 DEF BatchInv, DirectIsOrdered, Unmatched
  <2>4. ~shifted' => \A k \in DOMAIN direct' : Unmatched(direct[k])'
    BY <1>1, <1>2, <2>3 DEF Unmatched, Matching, Ask, Accepts
  <2> QED BY <2>1, <2>2, <2>4 DEF DirectIsOrdered
<1>8. ASSUME NEW i \in DOMAIN batch
      PROVE  DealtWith(i)' <=> DealtWith(i)
  <2>1. /\ NextDirect' = position + 1 - Len(batch) /\ NextDirect = position - Len(batch)
        /\ position \in Nat /\ Len(batch) \in Nat /\ position <= Len(batch)
    BY <1>1, <1>3, LoopNumbers DEF NextDirect
  <2>2. \A k \in DOMAIN direct' : ~(k < NextDirect')
    <3>1. \A k \in DOMAIN direct' : k \in Nat /\ k >= 1
      BY <1>3, <1>4, LoopNumbers
    <3> QED BY <2>1, <3>1
  <2>3. \A k \in DOMAIN direct : ~(k < NextDirect)
    <3>1. \A k \in DOMAIN direct : k \in Nat /\ k >= 1
      BY <1>3, LoopNumbers
    <3> QED BY <2>1, <3>1
  <2>4. Aside(i)' <=> Aside(i) \/ i = position
    BY <1>4 DEF Aside
  <2>5. i < position' <=> i < position \/ i = position
    BY <1>1, <1>3, LoopNumbers
  <2>6. i # position \/ ~(i < position)
    BY <1>3, LoopNumbers
  <2> QED BY <2>2, <2>3, <2>4, <2>5, <2>6 DEF DealtWith
<1>9. LoopInv'
  <2>1. \A i \in DOMAIN batch : IF DealtWith(i)' /\ i # checking' THEN Told(i)' ELSE Untold(i)'
    BY <1>1, <1>8 DEF BatchInv, LoopInv, Told, Untold
  <2> QED BY <1>1, <1>3, <2>1, LoopNumbers DEF LoopInv
<1> QED BY <1>1, <1>5, <1>7, <1>9 DEF BatchInv, EndInv

\* So does starting an evaluation.
LEMMA EvaluateKeeps ==
  ASSUME BatchInv, Idle, NEW i \in DOMAIN batch, Evaluate(i),
         ~DealtWith(i), forwards => position <= Len(batch),
         \A j \in DOMAIN batch : DealtWith(j)' <=> DealtWith(j) \/ j = i
  PROVE  BatchInv'
<1>1. /\ checking' = i /\ position' = position + 1
      /\ UNCHANGED <<bindings, entry, forwards, batch, phase, direct, results, reply,
                     shifted, told>>
      /\ phase = "sorting" /\ checking = 0 /\ Shapes
  BY DEF Evaluate, Idle, BatchInv
<1>2. Shapes'
  BY <1>1, LoopNumbers DEF Shapes
<1>3. DirectIsOrdered'
  <2>1. \A k \in DOMAIN direct : direct[k] < position + 1
    BY <1>1, LoopNumbers DEF BatchInv, DirectIsOrdered
  <2>4. ~shifted' => \A k \in DOMAIN direct' : Unmatched(direct[k])'
    BY <1>1 DEF BatchInv, DirectIsOrdered, Unmatched, Matching, Ask, Accepts
  <2>5. \A j, k \in DOMAIN direct : j < k => direct[j] < direct[k]
    BY DEF BatchInv, DirectIsOrdered
  <2> QED BY <1>1, <2>1, <2>4, <2>5 DEF DirectIsOrdered
<1>4. LoopInv'
  <2>1. \A j \in DOMAIN batch : IF DealtWith(j)' /\ j # checking' THEN Told(j)' ELSE Untold(j)'
    <3> SUFFICES ASSUME NEW j \in DOMAIN batch
                 PROVE  IF DealtWith(j)' /\ j # checking' THEN Told(j)' ELSE Untold(j)'
      OBVIOUS
    <3>1. IF DealtWith(j) THEN Told(j) ELSE Untold(j)
      BY <1>1, LoopNumbers DEF BatchInv, LoopInv
    <3>2. (Told(j)' <=> Told(j)) /\ (Untold(j)' <=> Untold(j))
      BY <1>1 DEF Told, Untold
    <3> QED BY <1>1, <3>1, <3>2
  <2>2. forwards' => position' <= Len(batch') + 1
    BY <1>1, LoopNumbers
  <2>3. checking' \in DOMAIN batch' /\ DealtWith(checking)'
    <3>1. DealtWith(i)'
      OBVIOUS
    <3> QED BY <1>1, <3>1 DEF DealtWith, Aside
  <2> QED BY <1>1, <2>1, <2>2, <2>3 DEF LoopInv
<1> QED BY <1>1, <1>2, <1>3, <1>4 DEF BatchInv, EndInv

\* No request is put aside twice.
LEMMA DirectIsInjective ==
  ASSUME BatchInv
  PROVE  \A j, k \in DOMAIN direct : direct[j] = direct[k] => j = k
<1>1. \A j, k \in DOMAIN direct : j < k \/ j = k \/ k < j
  BY LoopNumbers DEF BatchInv
<1>2. \A j, k \in DOMAIN direct : j < k => direct[j] < direct[k]
  BY DEF BatchInv, DirectIsOrdered
<1>3. \A k \in DOMAIN direct : direct[k] \in Nat
  BY LoopNumbers DEF BatchInv
<1> QED BY <1>1, <1>2, <1>3

\* The loop over the batch deals with the request it evaluates.
LEMMA CheckMatchedKeeps == BatchInv /\ CheckMatched => BatchInv'
<1> SUFFICES ASSUME BatchInv, CheckMatched PROVE BatchInv'
  OBVIOUS
<1>1. Idle /\ Evaluate(position) /\ Shapes
  BY DEF CheckMatched, BatchInv
<1>2. position \in DOMAIN batch /\ position <= Len(batch)
  BY <1>1, LoopNumbers DEF CheckMatched, Sorted, Shapes
<1>3. \A k \in DOMAIN direct : direct[k] < position /\ k \in Nat /\ k >= 1
  BY <1>1, LoopNumbers DEF BatchInv, DirectIsOrdered
<1>4. ~Aside(position)
  BY <1>1, <1>3, LoopNumbers DEF Aside
<1>5. /\ NextDirect' = position + 1 - Len(batch) /\ NextDirect = position - Len(batch)
      /\ direct' = direct /\ position' = position + 1
  BY <1>1, LoopNumbers DEF Evaluate, NextDirect
<1>6. \A k \in DOMAIN direct : ~(k < NextDirect) /\ ~(k < NextDirect')
  <2>1. position \in Nat /\ Len(batch) \in Nat
    BY <1>1, LoopNumbers
  <2> QED BY <1>2, <1>3, <1>5, <2>1
<1>7. ~DealtWith(position)
  BY <1>1, <1>6, LoopNumbers DEF DealtWith
<1>8. ASSUME NEW j \in DOMAIN batch
      PROVE  DealtWith(j)' <=> DealtWith(j) \/ j = position
  <2>1. j < position + 1 <=> j < position \/ j = position
    BY <1>1, LoopNumbers
  <2>2. Aside(j)' <=> Aside(j)
    BY <1>5 DEF Aside
  <2> QED BY <1>4, <1>5, <1>6, <2>1, <2>2 DEF DealtWith
<1> QED BY <1>1, <1>2, <1>7, <1>8, EvaluateKeeps

\* The loop over the requests put aside deals with the one it evaluates.
LEMMA CheckDirectKeeps == BatchInv /\ CheckDirect => BatchInv'
<1> SUFFICES ASSUME BatchInv, CheckDirect PROVE BatchInv'
  OBVIOUS
<1> DEFINE n == NextDirect
           i == direct[n]
<1>1. Idle /\ Evaluate(i) /\ Shapes /\ ~forwards /\ n \in DOMAIN direct
  BY DEF CheckDirect, BatchInv
<1>2. i \in DOMAIN batch
  BY <1>1, LoopNumbers
<1>3. /\ position > Len(batch) /\ position' = position + 1 /\ direct' = direct
      /\ NextDirect' = n + 1
  BY <1>1, LoopNumbers DEF CheckDirect, Sorted, Evaluate, NextDirect
<1>4. \A j, k \in DOMAIN direct : direct[j] = direct[k] => j = k
  BY DirectIsInjective
<1>5. ~DealtWith(i)
  <2>1. Aside(i)
    BY <1>1 DEF Aside
  <2>2. \A k \in DOMAIN direct : direct[k] = i => ~(k < NextDirect)
    BY <1>1, <1>4, LoopNumbers
  <2> QED BY <2>1, <2>2 DEF DealtWith
<1>6. ASSUME NEW j \in DOMAIN batch
      PROVE  DealtWith(j)' <=> DealtWith(j) \/ j = i
  <2>1. j < position /\ j < position'
    BY <1>1, <1>3, LoopNumbers
  <2>2. Aside(j)' <=> Aside(j)
    BY <1>3 DEF Aside
  <2>3. \A k \in DOMAIN direct : k < NextDirect' <=> k < NextDirect \/ k = n
    BY <1>1, <1>3, LoopNumbers
  <2>4. (\E k \in DOMAIN direct : direct[k] = j /\ k < NextDirect')
          <=> (\E k \in DOMAIN direct : direct[k] = j /\ k < NextDirect) \/ j = i
    BY <1>1, <2>3
  <2> QED BY <1>3, <2>1, <2>2, <2>4 DEF DealtWith
<1> QED BY <1>1, <1>2, <1>5, <1>6, EvaluateKeeps

\* Storing an outcome gives the request under evaluation its only answer.
LEMMA StoreKeeps == BatchInv /\ Store => BatchInv'
<1> SUFFICES ASSUME BatchInv, Store PROVE BatchInv'
  OBVIOUS
<1> DEFINE new == BatchResult(batch[checking], result.decision, result.err)
<1>1. /\ checking # 0 /\ checking' = 0
      /\ results' = [results EXCEPT ![checking].decision = result.decision,
                                    ![checking].err = result.err]
      /\ told' = [told EXCEPT ![checking] = Append(@, Answered(batch[checking], new))]
      /\ UNCHANGED <<bindings, hasBase, doing, asked, frames, entry, forwards, batch,
                     phase, position, direct, reply, shifted>>
  BY DEF Store
<1>2. /\ phase = "sorting" /\ checking \in DOMAIN batch /\ DealtWith(checking) /\ Shapes
      /\ Untold(checking)
  BY <1>1 DEF BatchInv, EndInv, LoopInv
<1>3. /\ DOMAIN results' = DOMAIN batch /\ DOMAIN told' = DOMAIN batch
      /\ results'[checking] = new
      /\ told'[checking] = <<Answered(batch[checking], new)>>
      /\ \A j \in DOMAIN batch : j # checking =>
           results'[j] = results[j] /\ told'[j] = told[j]
  <2>1. told[checking] = <<>> /\ results[checking] = BatchResult(batch[checking], NoDecision, NoError)
    BY <1>2 DEF Untold
  <2>2. /\ DOMAIN results' = DOMAIN batch
        /\ results'[checking] = new
        /\ \A j \in DOMAIN batch : j # checking => results'[j] = results[j]
    <3> DEFINE decided == BatchResult(batch[checking], result.decision, NoError)
               halfway == [results EXCEPT ![checking] = decided]
    <3>1. [results[checking] EXCEPT !.decision = result.decision] = decided
      BY <2>1 DEF BatchResult
    <3>2. [decided EXCEPT !.err = result.err] = new
      BY DEF BatchResult
    <3>3. [results EXCEPT ![checking].decision = result.decision] = halfway
      BY <3>1
    <3>4. results' = [halfway EXCEPT ![checking].err = result.err]
      BY <1>1, <3>3
    <3>5. DOMAIN halfway = DOMAIN batch /\ halfway[checking] = decided
      BY <1>2 DEF Shapes
    <3> HIDE DEF decided
    <3>6. results' = [halfway EXCEPT ![checking] = new]
      BY <3>2, <3>4, <3>5
    <3> HIDE DEF new
    <3> QED BY <1>2, <3>5, <3>6 DEF Shapes
  <2> HIDE DEF new
  <2>3. /\ DOMAIN told' = DOMAIN batch
        /\ told'[checking] = <<Answered(batch[checking], new)>>
        /\ \A j \in DOMAIN batch : j # checking => told'[j] = told[j]
    BY <1>1, <1>2, <2>1 DEF Shapes
  <2> QED BY <2>2, <2>3
<1> HIDE DEF new
<1>4. Shapes'
  BY <1>1, <1>2, <1>3 DEF Shapes
<1>5. DirectIsOrdered'
  BY <1>1, UnmatchedStays DEF BatchInv, DirectIsOrdered
<1>6. LoopInv'
  <2>1. \A j \in DOMAIN batch : DealtWith(j)' <=> DealtWith(j)
    BY <1>1 DEF DealtWith, Aside, NextDirect
  <2>2. \A j \in DOMAIN batch : j # checking =>
          (Told(j)' <=> Told(j)) /\ (Untold(j)' <=> Untold(j))
    BY <1>1, <1>3 DEF Told, Untold
  <2>3. \A j \in DOMAIN batch : j = checking => Told(j)'
    BY <1>1, <1>3 DEF Told
  <2>4. \A j \in DOMAIN batch : j # 0
    BY <1>2, LoopNumbers
  <2>5. \A j \in DOMAIN batch :
          j # checking => IF DealtWith(j) THEN Told(j) ELSE Untold(j)
    BY <1>2 DEF BatchInv, LoopInv
  <2> QED BY <1>1, <1>2, <2>1, <2>2, <2>3, <2>4, <2>5 DEF BatchInv, LoopInv
<1> QED BY <1>1, <1>2, <1>4, <1>5, <1>6 DEF BatchInv, EndInv

\* Returning what the loops have stored.
LEMMA ReturnResultsKeeps == BatchInv /\ ReturnResults => BatchInv'
<1> SUFFICES ASSUME BatchInv, ReturnResults PROVE BatchInv'
  OBVIOUS
<1>1. /\ phase = "sorting" /\ checking = 0 /\ Sorted /\ Shapes
      /\ IF forwards THEN direct = <<>> ELSE NextDirect \notin DOMAIN direct
      /\ phase' = "returned" /\ results' = results
      /\ reply' = (IF entry = "BatchCheck" THEN DecisionsOrError(results') ELSE NoReply)
      /\ UNCHANGED <<vars, entry, forwards, batch, position, direct, checking, shifted, told>>
  BY DEF ReturnResults, Ends, Idle, BatchInv
<1>2. bindings' = bindings
  BY <1>1 DEF vars
<1>3. ASSUME NEW i \in DOMAIN batch PROVE Told(i)
  <2>1. i < position /\ i # 0
    BY <1>1, LoopNumbers DEF Sorted
  <2>2. ASSUME NEW k \in DOMAIN direct PROVE k < NextDirect
    <3>1. NextDirect \in Int /\ NextDirect >= 1 /\ NextDirect \notin DOMAIN direct
      BY <1>1, LoopNumbers DEF Sorted, NextDirect
    <3> QED BY <1>1, <3>1, LoopNumbers
  <2>3. DealtWith(i)
    BY <2>1, <2>2 DEF DealtWith, Aside
  <2> QED BY <1>1, <2>1, <2>3 DEF BatchInv, LoopInv
<1>4. \A i \in DOMAIN batch : Told(i)' <=> Told(i)
  BY <1>1 DEF Told
<1>5. Shapes' /\ DirectIsOrdered'
  BY <1>1, <1>2, UnmatchedStays DEF BatchInv, Shapes, DirectIsOrdered
<1>6. EndInv'
  BY <1>1, <1>3, <1>4 DEF EndInv, NoReply
<1> QED BY <1>1, <1>5, <1>6 DEF BatchInv, LoopInv

\* The base's answers reach the requests put aside, each its own.
LEMMA ForwardKeeps == BatchInv /\ Forward => BatchInv'
<1> SUFFICES ASSUME BatchInv, Forward PROVE BatchInv'
  OBVIOUS
<1>1. PICK surplus \in Surpluses :
      \E answers \in [1..(Len(direct) + surplus) -> BaseResults] :
       /\ told' = [i \in DOMAIN told |->
                     IF \E k \in DOMAIN answers \cap DOMAIN direct : direct[k] = i
                       THEN LET k == CHOOSE n \in DOMAIN direct : direct[n] = i
                            IN Append(told[i], Answered(Forwarded[k], answers[k]))
                       ELSE told[i]]
       /\ IF surplus > 0
            THEN phase' = "panicked" /\ UNCHANGED <<results, reply>>
            ELSE Ends(Merged(answers))
  BY DEF Forward
<1>2. PICK answers \in [1..(Len(direct) + surplus) -> BaseResults] :
       /\ told' = [i \in DOMAIN told |->
                     IF \E k \in DOMAIN answers \cap DOMAIN direct : direct[k] = i
                       THEN LET k == CHOOSE n \in DOMAIN direct : direct[n] = i
                            IN Append(told[i], Answered(Forwarded[k], answers[k]))
                       ELSE told[i]]
       /\ IF surplus > 0
            THEN phase' = "panicked" /\ UNCHANGED <<results, reply>>
            ELSE Ends(Merged(answers))
  BY <1>1
<1>3. /\ phase = "sorting" /\ checking = 0 /\ Sorted /\ Shapes /\ forwards
      /\ UNCHANGED <<vars, entry, forwards, batch, position, direct, checking, shifted>>
      /\ surplus \in Int /\ bindings' = bindings
  BY BatchAssumption DEF Forward, Idle, BatchInv, vars, BatchAssumption
<1>4. DirectIsOrdered'
  BY <1>3, UnmatchedStays DEF BatchInv, DirectIsOrdered
<1>5. DOMAIN told' = DOMAIN batch
  BY <1>2, <1>3 DEF Shapes
<1>6. CASE surplus > 0
  BY <1>2, <1>3, <1>4, <1>5, <1>6 DEF BatchInv, Shapes, LoopInv, EndInv
<1>7. CASE ~(surplus > 0)
  <2>1. /\ phase' = "returned" /\ results' = Merged(answers)
        /\ reply' = (IF entry = "BatchCheck" THEN DecisionsOrError(results') ELSE NoReply)
    BY <1>2, <1>7 DEF Ends
  <2>2. /\ DOMAIN answers = 1..(Len(direct) + surplus) /\ DOMAIN answers \subseteq DOMAIN direct
        /\ \A k \in DOMAIN direct : k \notin DOMAIN answers => surplus < 0
    BY <1>2, <1>3, <1>7, LoopNumbers
  <2>3. \A j, k \in DOMAIN direct : direct[j] = direct[k] => j = k
    BY <1>3, DirectIsInjective
  <2>4. ASSUME NEW k \in DOMAIN answers
        PROVE  /\ (CHOOSE n \in DOMAIN direct : direct[n] = direct[k]) = k
               /\ (CHOOSE n \in DOMAIN answers : Place(n) = direct[k]) = k
    BY <2>2, <2>3 DEF Place
  <2>5. ASSUME NEW k \in DOMAIN answers
        PROVE  /\ results'[direct[k]] = answers[k]
               /\ told'[direct[k]] =
                    Append(told[direct[k]], Answered(batch[direct[k]], answers[k]))
    <3>1. direct[k] \in DOMAIN batch /\ k \in DOMAIN direct
      BY <1>3, <2>2, LoopNumbers
    <3>2. results'[direct[k]] = answers[CHOOSE n \in DOMAIN answers : Place(n) = direct[k]]
      BY <1>3, <2>1, <3>1 DEF Merged, Place, Shapes
    <3>3. told'[direct[k]] =
            LET j == CHOOSE n \in DOMAIN direct : direct[n] = direct[k]
            IN Append(told[direct[k]], Answered(Forwarded[j], answers[j]))
      BY <1>2, <1>3, <3>1 DEF Shapes
    <3>4. Forwarded[k] = batch[direct[k]]
      BY <3>1 DEF Forwarded
    <3> QED BY <2>4, <3>2, <3>3, <3>4
  <2>6. ASSUME NEW i \in DOMAIN batch, \A k \in DOMAIN answers : direct[k] # i
        PROVE  results'[i] = results[i] /\ told'[i] = told[i]
    BY <1>2, <1>3, <2>1, <2>6 DEF Merged, Place, Shapes
  <2>7. ASSUME NEW i \in DOMAIN batch
        PROVE  IF Aside(i) THEN Untold(i) ELSE Told(i)
    <3>1. position \in Nat /\ position > Len(batch) /\ position <= Len(batch) + 1
      BY <1>3, LoopNumbers DEF Sorted, BatchInv, LoopInv
    <3>2. i < position /\ i # 0 /\ NextDirect = 1
      BY <1>3, <3>1, LoopNumbers DEF NextDirect
    <3>3. \A k \in DOMAIN direct : ~(k < 1)
      BY <1>3, LoopNumbers
    <3>4. DealtWith(i) <=> ~Aside(i)
      BY <3>2, <3>3 DEF DealtWith
    <3> QED BY <1>3, <3>2, <3>4 DEF BatchInv, LoopInv
  <2>8. ASSUME NEW i \in DOMAIN batch
        PROVE  \/ Told(i)'
               \/ Untold(i)' /\ \E s \in Surpluses : s < 0
    <3>1. CASE \E k \in DOMAIN answers : direct[k] = i
      <4>1. PICK k \in DOMAIN answers : direct[k] = i
        BY <3>1
      <4>2. told[i] = <<>>
        BY <2>2, <2>7, <4>1 DEF Aside, Untold
      <4>3. told'[i] = <<Answered(batch[i], answers[k])>> /\ results'[i] = answers[k]
        BY <2>5, <4>1, <4>2
      <4> QED BY <1>3, <4>3 DEF Told
    <3>2. CASE \A k \in DOMAIN answers : direct[k] # i
      <4>1. results'[i] = results[i] /\ told'[i] = told[i]
        BY <2>6, <3>2
      <4>2. CASE Aside(i)
        <5>1. Untold(i) /\ \E s \in Surpluses : s < 0
          BY <2>2, <2>7, <3>2, <4>2 DEF Aside
        <5> QED BY <1>3, <4>1, <5>1 DEF Untold, Shapes
      <4>3. CASE ~Aside(i)
        BY <1>3, <2>7, <4>1, <4>3 DEF Told, Shapes
      <4> QED BY <4>2, <4>3
    <3> QED BY <3>1, <3>2
  <2>9. DOMAIN results' = DOMAIN batch
    BY <1>3, <2>1 DEF Merged, Shapes
  <2>10. Shapes'
    BY <1>3, <1>5, <2>8, <2>9 DEF Shapes
  <2> QED BY <1>3, <1>4, <2>1, <2>8, <2>10 DEF BatchInv, LoopInv, EndInv, NoReply
<1> QED BY <1>6, <1>7

\* A matcher that changes its mind changes nothing that is stored.
LEMMA ShiftKeeps == BatchInv /\ Shift => BatchInv'
<1> SUFFICES ASSUME BatchInv, Shift PROVE BatchInv'
  OBVIOUS
<1>1. /\ phase = "sorting" /\ bindings' \in Chains /\ shifted' = TRUE
      /\ UNCHANGED <<entry, forwards, batch, phase, position, direct, results, checking,
                     reply, told>>
  BY DEF Shift
<1>2. \A i : DealtWith(i)' <=> DealtWith(i)
  BY <1>1 DEF DealtWith, Aside, NextDirect
<1>3. \A i : Told(i)' <=> Told(i)
  BY <1>1 DEF Told
<1>4. \A i : Untold(i)' <=> Untold(i)
  BY <1>1 DEF Untold
<1>5. LoopInv'
  <2>1. checking # 0 => DealtWith(checking)'
    BY <1>1, <1>2 DEF BatchInv, LoopInv
  <2> QED BY <1>1, <1>2, <1>3, <1>4, <2>1 DEF BatchInv, LoopInv, DealtWith, Aside, NextDirect
<1> QED BY <1>1, <1>3, <1>4, <1>5 DEF BatchInv, Shapes, DirectIsOrdered, EndInv

\* A step of an evaluation leaves the call as it is.
LEMMA RestKeeps ==
  ASSUME BatchInv, bindings' = bindings, UNCHANGED callVars
  PROVE  BatchInv'
BY UnmatchedStays DEF callVars, BatchInv, Shapes, DirectIsOrdered, LoopInv, EndInv,
   DealtWith, Aside, NextDirect, Told, Untold, NoReply

\* Every step keeps the invariant.
LEMMA NextBatchInv == BatchInv /\ [BatchNext]_batchVars => BatchInv'
<1> SUFFICES ASSUME BatchInv, [BatchNext]_batchVars PROVE BatchInv'
  OBVIOUS
<1>1. CASE EvaluationStep
  BY <1>1, ChainKeepsBindings, RestKeeps DEF EvaluationStep
<1>2. CASE UNCHANGED batchVars
  BY <1>2, RestKeeps DEF batchVars, vars
<1> QED BY <1>1, <1>2, PutAsideKeeps, CheckMatchedKeeps, CheckDirectKeeps, StoreKeeps,
           ForwardKeeps, ReturnResultsKeeps, ShiftKeeps
    DEF BatchNext, BatchDone

-----------------------------------------------------------------------------
(* Types.  Matchers that change their answers leave nothing of what           *)
(* PolicyChainProofs knows of an evaluation but the types.                    *)

EvaluationTypes ==
  /\ doing \in {"starting", "running", "returned"}
  /\ method = "CheckDecision"
  /\ doing = "starting" => asked \in [request : Requests, start : Nat]
  /\ doing = "running" => frames # <<>>
  /\ frames \in Seq(Frames)
  /\ result \in Outcomes

BatchTypes == BatchTypeOK /\ EvaluationTypes

ToldOf == [request : Requests, answer : BatchResults]

\* The outcomes a call starts with, and replies and errors, have their types.
LEMMA BatchValueTypes ==
  /\ NoOutcome \in Outcomes
  /\ PolicyErrors \subseteq Err
  /\ BaseResults \subseteq BatchResults
  /\ \A decision, err : Says(decision, err) \in Answer <=> decision \in Decision /\ err \in Err
<1>1. \A decision, err :
        Says(decision, err) \in Answer <=> decision \in Decision /\ err \in Err
  BY DEF Says, Answer
<1>2. NoOutcome \in Outcomes
  BY ChainTypes DEF NoOutcome, Outcome, Outcomes, Says
<1>3. PolicyErrors \subseteq Err
  BY DEF Err
<1>4. BaseResults \subseteq BatchResults
  BY <1>3, ChainTypes, ChainAssumption
     DEF ChainAssumption, BaseResults, BatchResults, BatchResult
<1> QED BY <1>1, <1>2, <1>3, <1>4

\* An outcome that is delivered is heard by a policy, or by the caller.
LEMMA DeliverTypes ==
  ASSUME EvaluationTypes, NEW stack \in Seq(Frames), NEW outcome \in Outcomes,
         Deliver(stack, outcome), method' = method
  PROVE  EvaluationTypes'
<1>1. CASE stack = <<>>
  BY <1>1 DEF Deliver, EvaluationTypes
<1>2. CASE stack # <<>>
  <2> DEFINE top == stack[Len(stack)]
             new == Hear(top, outcome)
  <2>1. /\ doing' = "running" /\ result' = result
        /\ frames' = [stack EXCEPT ![Len(stack)] = new]
    BY <1>2 DEF Deliver
  <2>2. Len(stack) \in DOMAIN stack /\ top \in Frames
    BY <1>2
  <2>3. new \in Frames
    <3>1. Says(outcome.decision, outcome.err) \in Answer /\ top.heard \in Seq(Answer)
      BY <2>2 DEF Says, Outcomes, Answer, Frames
    <3>2. Append(top.heard, Says(outcome.decision, outcome.err)) \in Seq(Answer)
      BY <3>1
    <3>3. new = [top EXCEPT !.heard = Append(@, Says(outcome.decision, outcome.err))]
      BY DEF EvaluationTypes, Hear, HearDecision
    <3> QED BY <2>2, <3>2, <3>3 DEF Frames
  <2> HIDE DEF new, top
  <2>4. frames' \in Seq(Frames) /\ frames' # <<>>
    BY <2>1, <2>2, <2>3
  <2> QED BY <2>1, <2>4 DEF EvaluationTypes
<1> QED BY <1>1, <1>2

\* A policy that returns an answer makes an outcome of it.
LEMMA ReturnTypes ==
  ASSUME EvaluationTypes, doing = "running", NEW says \in Answer, Return(says)
  PROVE  EvaluationTypes'
<1>1. Deliver(Outer(frames), Outcome(says, <<>>)) /\ method' = method
  BY DEF Return, ReturnDecision, ReturnTrace, EvaluationTypes
<1>2. Outcome(says, <<>>) \in Outcomes
  BY DEF Outcome, Outcomes, Answer
<1>3. Outer(frames) \in Seq(Frames)
  BY DEF EvaluationTypes, Outer
<1> QED BY <1>1, <1>2, <1>3, DeliverTypes

\* A step of an evaluation keeps the types.
LEMMA NextTypes ==
  ASSUME bindings \in Chains, EvaluationTypes, doing # "returned", Next
  PROVE  EvaluationTypes'
<1>1. bindings \in Seq(Binding) /\ frames \in Seq(Frames)
  BY ChainAssumption DEF ChainAssumption, EvaluationTypes
<1>2. CASE MissBase
  <2>1. Outcome(Says(NoDecision, MissingError("authorizer")), <<>>) \in Outcomes
    BY ChainTypes DEF Outcome, Outcomes, Says
  <2> QED BY <1>1, <1>2, <2>1, DeliverTypes DEF MissBase
<1>3. CASE RunPolicy \/ TracePolicy
  <2>1. Matching(asked) \subseteq Nat /\ Matching(asked) # {}
    BY <1>1, <1>3 DEF RunPolicy, TracePolicy, Matching
  <2>2. Min(Matching(asked)) \in Nat
    BY <2>1, MinIsLeast
  <2>3. NextNotCalled \in [called : BOOLEAN, decision : Decision, steps : Seq(TraceSteps)]
    BY ChainTypes DEF NextNotCalled
  <2>4. Frame(Min(Matching(asked)), asked.request) \in Frames
    BY <1>3, <2>2, <2>3 DEF RunPolicy, TracePolicy, EvaluationTypes, Frame, Frames
  <2> HIDE DEF Frame
  <2> QED BY <1>1, <1>3, <2>4 DEF RunPolicy, TracePolicy, EvaluationTypes
<1>4. ASSUME NEW decision \in Decision, NEW err \in Err, NEW steps,
             BaseReturns(Says(decision, err), steps)
      PROVE  EvaluationTypes'
  <2>1. /\ Deliver(frames, Outcome(Says(decision, err), <<>>))
        /\ method' = method
    BY <1>4 DEF BaseReturns, EvaluationTypes
  <2>2. Outcome(Says(decision, err), <<>>) \in Outcomes
    BY DEF Outcome, Outcomes, Says
  <2> QED BY <1>1, <2>1, <2>2, DeliverTypes
<1>5. ASSUME NEW request \in Requests, CallNext(request) PROVE EvaluationTypes'
  <2>1. Top.at \in Nat
    <3>1. Top \in Frames
      BY <1>1, <1>5 DEF CallNext, EvaluationTypes, Top
    <3> QED BY <3>1 DEF Frames
  <2> QED BY <1>5, <2>1 DEF CallNext, EvaluationTypes, Ask, NextDecision, NextTrace
<1>6. ASSUME NEW decision \in Decisions, Decide(decision) PROVE EvaluationTypes'
  <2>1. Says(decision, NoError) \in Answer
    BY ChainTypes, BatchValueTypes, ChainAssumption DEF ChainAssumption
  <2> QED BY <1>6, <2>1, ReturnTypes DEF Decide
<1>7. ASSUME NEW decision \in BesideErrors, NEW err \in PolicyErrors, Fail(decision, err)
      PROVE  EvaluationTypes'
  <2>1. Says(decision, err) \in Answer
    BY BatchValueTypes, ChainAssumption DEF ChainAssumption
  <2> QED BY <1>7, <2>1, ReturnTypes DEF Fail
<1>8. ASSUME NEW n \in Calls, PassOn(n) \/ Overlook(n)
      PROVE  EvaluationTypes'
  <2>1. doing = "running" /\ n \in DOMAIN Top.heard
    BY <1>8 DEF Calls
  <2>2. Top \in Frames
    BY <1>1, <2>1 DEF EvaluationTypes, Top
  <2>3. Top.heard \in Seq(Answer)
    BY <2>2 DEF Frames
  <2>4. Top.heard[n] \in Answer
    BY <2>1, <2>3
  <2>5. Says(Top.heard[n].decision, NoError) \in Answer
    BY <2>4, ChainTypes DEF Says, Answer
  <2> QED BY <1>8, <2>1, <2>4, <2>5, ReturnTypes DEF PassOn, Overlook
<1>9. ASSUME NEW decision \in BaseDecisions, BaseDecides(decision) PROVE EvaluationTypes'
  <2>1. decision \in Decision
    BY ChainAssumption DEF ChainAssumption, BaseDecisions
  <2> QED BY <1>4, <1>9, <2>1, ChainTypes DEF BaseDecides
<1>10. ASSUME NEW err \in PolicyErrors, NEW steps \in FailedSteps, BaseFails(err, steps)
       PROVE  EvaluationTypes'
  BY <1>4, <1>10, ChainTypes, BatchValueTypes DEF BaseFails
<1> QED BY <1>2, <1>3, <1>5, <1>6, <1>7, <1>8, <1>9, <1>10 DEF Next, Walk, Done

\* What BatchCheck makes of results is all decisions, or an index and an error.
LEMMA ReplyType ==
  ASSUME NEW size \in Nat, NEW final \in [1..size -> BatchResults]
  PROVE  DecisionsOrError(final)
           \in [decisions : Seq(Decision), index : (1..size) \cup {0}, err : Err]
<1> DEFINE failing == {i \in DOMAIN final : final[i].err # NoError}
           decisions == [i \in DOMAIN final |-> final[i].decision]
<1>1. DOMAIN final = 1..size
  OBVIOUS
<1>2. \A i \in DOMAIN final : final[i].decision \in Decision /\ final[i].err \in Err
  BY DEF BatchResults
<1>3. decisions \in Seq(Decision)
  BY <1>1, <1>2
<1>4. NoError \in Err /\ <<>> \in Seq(Decision)
  BY ChainTypes
<1>5. failing # {} => Min(failing) \in DOMAIN final
  <2>1. failing \subseteq Nat
    BY <1>1
  <2> QED BY <2>1, MinIsLeast
<1>6. CASE failing = {}
  <2>1. DecisionsOrError(final) = BatchReply(decisions, 0, NoError)
    BY <1>6, Zenon DEF DecisionsOrError
  <2> HIDE DEF decisions
  <2> QED BY <1>3, <1>4, <2>1 DEF BatchReply
<1>7. CASE failing # {}
  <2>1. DecisionsOrError(final) = BatchReply(<<>>, Min(failing), final[Min(failing)].err)
    BY <1>7, Zenon DEF DecisionsOrError
  <2>2. Min(failing) \in 1..size /\ final[Min(failing)].err \in Err
    BY <1>1, <1>2, <1>5, <1>7
  <2> HIDE DEF failing
  <2> QED BY <1>4, <2>1, <2>2 DEF BatchReply
<1> QED BY <1>6, <1>7

\* A call starts well typed.
LEMMA InitBatchTypes == BatchInit => BatchTypes
<1> SUFFICES ASSUME BatchInit PROVE BatchTypes
  OBVIOUS
<1>1. batch \in Batches /\ batch \in Seq(Requests)
  BY BatchAssumption DEF BatchAssumption, BatchInit
<1>2. Says(NoDecision, NoError) \in Answer
  BY ChainTypes, BatchValueTypes
<1>3. results \in [DOMAIN batch -> BatchResults]
  <2>1. \A i \in DOMAIN batch : batch[i] \in Requests
    BY <1>1
  <2>2. \A i \in DOMAIN batch : BatchResult(batch[i], NoDecision, NoError) \in BatchResults
    BY <2>1, ChainTypes DEF BatchResult, BatchResults
  <2> QED BY <2>2 DEF BatchInit
<1>4. /\ told \in [DOMAIN batch -> Seq(ToldOf)] /\ direct \in Seq(DOMAIN batch)
      /\ frames \in Seq(Frames)
  BY DEF BatchInit
<1>5. reply \in [decisions : Seq(Decision), index : DOMAIN batch \cup {0}, err : Err]
  BY ChainTypes DEF BatchInit, NoReply, BatchReply
<1>6. result \in Outcomes
  BY BatchValueTypes DEF BatchInit
<1>7. /\ hasBase \in BOOLEAN /\ forwards \in BOOLEAN /\ position \in Nat
      /\ checking = 0 /\ shifted \in BOOLEAN /\ doing = "returned" /\ phase = "sorting"
      /\ entry \in {"BatchCheckResults", "BatchCheck"} /\ method = "CheckDecision"
  BY DEF BatchInit
<1> QED BY <1>1, <1>3, <1>4, <1>5, <1>6, <1>7
        DEF BatchTypes, BatchTypeOK, EvaluationTypes, ToldOf

\* What every step leaves typed: all but results and told, given those of EndInv.
LEMMA StepTypes ==
  ASSUME BatchInv, BatchTypes, BatchInv', [BatchNext]_batchVars,
         results' \in [DOMAIN batch -> BatchResults], told' \in [DOMAIN batch -> Seq(ToldOf)],
         EvaluationTypes', checking' = 0 => doing' = "returned"
  PROVE  BatchTypes'
<1>1. batch' = batch /\ batch \in Batches
  BY DEF BatchNext, PutAside, CheckMatched, CheckDirect, Evaluate, EvaluationStep,
     Store, Forward, ReturnResults, Shift, BatchDone, batchVars, callVars, vars, BatchTypes,
     BatchTypeOK
<1>2. /\ entry' = entry /\ forwards' = forwards
      /\ hasBase' = hasBase /\ shifted' \in BOOLEAN
      /\ phase' \in {"sorting", "returned", "panicked"}
  BY DEF BatchNext, PutAside, CheckMatched, CheckDirect, Evaluate, EvaluationStep,
     Store, Forward, Ends, ReturnResults, Shift, BatchDone, batchVars, callVars, vars,
     BatchTypes, BatchTypeOK, Next, Walk, MissBase, RunPolicy, TracePolicy, BaseDecides,
     BaseFails, BaseReturns, CallNext, Decide, Fail, PassOn, Overlook, Return, Done
<1>3. position' \in Nat /\ direct' \in Seq(DOMAIN batch)
  BY <1>1 DEF BatchInv, Shapes
<1>4. checking' \in DOMAIN batch \cup {0}
  BY <1>1, <1>2 DEF BatchInv, LoopInv, EndInv
<1>5. reply' \in [decisions : Seq(Decision), index : DOMAIN batch \cup {0}, err : Err]
  <2>1. CASE phase' = "returned"
    <3>1. reply' = (IF entry' = "BatchCheck" THEN DecisionsOrError(results') ELSE NoReply)
      BY <2>1 DEF BatchInv, EndInv, NoReply
    <3>2. DOMAIN batch = 1..Len(batch) /\ Len(batch) \in Nat
      BY LoopNumbers DEF BatchInv
    <3>3. DecisionsOrError(results')
            \in [decisions : Seq(Decision), index : DOMAIN batch \cup {0}, err : Err]
      BY <3>2, ReplyType
    <3>4. NoReply \in [decisions : Seq(Decision), index : DOMAIN batch \cup {0}, err : Err]
      BY ChainTypes DEF NoReply, BatchReply
    <3> QED BY <3>1, <3>3, <3>4
  <2>2. CASE phase' # "returned"
    <3>1. reply' = reply
      BY <2>2 DEF BatchNext, PutAside, CheckMatched, CheckDirect, Evaluate,
         EvaluationStep, Store, Forward, Ends, ReturnResults, Shift, BatchDone, batchVars,
         callVars
    <3> QED BY <3>1 DEF BatchTypes, BatchTypeOK
  <2> QED BY <2>1, <2>2
<1> QED BY <1>1, <1>2, <1>3, <1>4, <1>5
        DEF BatchTypes, BatchTypeOK, EvaluationTypes, ToldOf

\* The results that a base returns are well typed in the places they get, and so
\* is what is told of them.
LEMMA ForwardTypes ==
  ASSUME BatchInv, Forward, results \in [DOMAIN batch -> BatchResults],
         told \in [DOMAIN batch -> Seq(ToldOf)]
  PROVE  /\ results' \in [DOMAIN batch -> BatchResults]
         /\ told' \in [DOMAIN batch -> Seq(ToldOf)]
<1>1. BaseResults \subseteq BatchResults
  BY BatchValueTypes
<1>2. PICK surplus \in Surpluses :
      \E answers \in [1..(Len(direct) + surplus) -> BaseResults] :
       /\ told' = [i \in DOMAIN told |->
                     IF \E k \in DOMAIN answers \cap DOMAIN direct : direct[k] = i
                       THEN LET k == CHOOSE n \in DOMAIN direct : direct[n] = i
                            IN Append(told[i], Answered(Forwarded[k], answers[k]))
                       ELSE told[i]]
       /\ IF surplus > 0
            THEN phase' = "panicked" /\ UNCHANGED <<results, reply>>
            ELSE Ends(Merged(answers))
  BY DEF Forward
<1>3. PICK answers \in [1..(Len(direct) + surplus) -> BaseResults] :
       /\ told' = [i \in DOMAIN told |->
                     IF \E k \in DOMAIN answers \cap DOMAIN direct : direct[k] = i
                       THEN LET k == CHOOSE n \in DOMAIN direct : direct[n] = i
                            IN Append(told[i], Answered(Forwarded[k], answers[k]))
                       ELSE told[i]]
       /\ IF surplus > 0
            THEN phase' = "panicked" /\ UNCHANGED <<results, reply>>
            ELSE Ends(Merged(answers))
  BY <1>2
<1>4. \A k \in DOMAIN answers : answers[k] \in BatchResults
  BY <1>1
<1>5. \A i \in DOMAIN batch : batch[i] \in Requests
  BY DEF BatchInv, Shapes
<1>6. results' \in [DOMAIN batch -> BatchResults]
  <2>1. CASE surplus > 0
    BY <1>3, <2>1
  <2>2. CASE ~(surplus > 0)
    <3>1. results' = Merged(answers)
      BY <1>3, <2>2 DEF Ends
    <3>2. ASSUME NEW i \in DOMAIN batch
          PROVE  Merged(answers)[i] \in BatchResults
      <4>1. CASE \E k \in DOMAIN answers : Place(k) = i
        <5>1. \E k \in DOMAIN answers : Merged(answers)[i] = answers[k]
          BY <4>1 DEF Merged
        <5> QED BY <1>4, <5>1
      <4>2. CASE ~\E k \in DOMAIN answers : Place(k) = i
        BY <4>2 DEF Merged
      <4> QED BY <4>1, <4>2
    <3>3. Merged(answers) = [i \in DOMAIN batch |-> Merged(answers)[i]]
      BY DEF Merged
    <3> QED BY <3>1, <3>2, <3>3
  <2> QED BY <2>1, <2>2
<1>7. told' \in [DOMAIN batch -> Seq(ToldOf)]
  <2>1. ASSUME NEW i \in DOMAIN batch
        PROVE  told'[i] \in Seq(ToldOf)
    <3>1. CASE \E k \in DOMAIN answers \cap DOMAIN direct : direct[k] = i
      <4>1. PICK k \in DOMAIN answers \cap DOMAIN direct : direct[k] = i
        BY <3>1
      <4>2. (CHOOSE n \in DOMAIN direct : direct[n] = i) = k
        BY <4>1, DirectIsInjective DEF BatchInv
      <4>3. told'[i] = Append(told[i], Answered(Forwarded[k], answers[k]))
        BY <1>3, <3>1, <4>2
      <4>4. Answered(Forwarded[k], answers[k]) \in ToldOf
        <5>1. Forwarded[k] \in Requests
          BY <1>5, <4>1 DEF Forwarded
        <5> QED BY <1>4, <4>1, <5>1 DEF Answered, ToldOf
      <4> QED BY <4>3, <4>4
    <3>2. CASE ~\E k \in DOMAIN answers \cap DOMAIN direct : direct[k] = i
      BY <1>3, <3>2
    <3> QED BY <3>1, <3>2
  <2>2. told' = [i \in DOMAIN batch |-> told'[i]]
    BY <1>3
  <2> QED BY <2>1, <2>2
<1> QED BY <1>6, <1>7

\* Every step of a call keeps the types.
LEMMA NextBatchTypes ==
  ASSUME BatchInv, BatchTypes, [BatchNext]_batchVars
  PROVE  BatchTypes'
<1>1. BatchInv'
  BY NextBatchInv
<1>2. /\ batch \in Seq(Requests) /\ bindings \in Chains
      /\ results \in [DOMAIN batch -> BatchResults] /\ told \in [DOMAIN batch -> Seq(ToldOf)]
  BY DEF BatchInv, Shapes, BatchTypes, BatchTypeOK, ToldOf
<1>3. \A i \in DOMAIN batch : batch[i] \in Requests
  BY <1>2
<1>4. CASE \/ PutAside \/ ReturnResults \/ Shift \/ BatchDone \/ UNCHANGED batchVars
  <2>1. /\ results' = results /\ told' = told /\ checking' = checking /\ doing' = doing
        /\ frames' = frames /\ result' = result /\ asked' = asked /\ method' = method
    BY <1>4 DEF PutAside, ReturnResults, Ends, Shift, BatchDone, batchVars, callVars, vars
  <2>2. EvaluationTypes' /\ (checking' = 0 => doing' = "returned")
    BY <2>1 DEF BatchTypes, BatchTypeOK, EvaluationTypes
  <2> QED BY <1>1, <1>2, <2>1, <2>2, StepTypes
<1>5. ASSUME NEW i \in DOMAIN batch, Evaluate(i), CheckMatched \/ CheckDirect
      PROVE  BatchTypes'
  <2>1. /\ results' = results /\ told' = told /\ checking' = i /\ doing' = "starting"
        /\ frames' = frames /\ result' = result /\ asked' = Ask(batch[i], 1)
        /\ method' = method
    BY <1>5 DEF Evaluate
  <2>2. i # 0
    BY <1>2, <1>5
  <2>3. EvaluationTypes'
    BY <1>3, <2>1 DEF BatchTypes, EvaluationTypes, Ask
  <2> QED BY <1>1, <1>2, <1>5, <2>1, <2>2, <2>3, StepTypes DEF BatchNext
<1>6. CASE CheckMatched
  <2>1. position \in DOMAIN batch
    BY <1>2, <1>6, LoopNumbers DEF CheckMatched, Sorted, BatchInv, Shapes
  <2> QED BY <1>5, <1>6, <2>1 DEF CheckMatched
<1>7. CASE CheckDirect
  <2>1. direct[NextDirect] \in DOMAIN batch
    BY <1>7 DEF CheckDirect, BatchTypes, BatchTypeOK
  <2> QED BY <1>5, <1>7, <2>1 DEF CheckDirect
<1>8. CASE EvaluationStep
  <2>1. results' = results /\ told' = told /\ checking' = checking /\ doing # "returned" /\ Next
    BY <1>8 DEF EvaluationStep, callVars
  <2>2. EvaluationTypes'
    BY <1>2, <2>1, NextTypes DEF BatchTypes
  <2>3. checking' # 0
    BY <2>1 DEF BatchTypes, BatchTypeOK
  <2> QED BY <1>1, <1>2, <1>8, <2>1, <2>2, <2>3, StepTypes DEF BatchNext
<1>9. CASE Store
  <2>2. result.decision \in Decision /\ result.err \in Err
    BY DEF BatchTypes, EvaluationTypes, Outcomes
  <2>4. checking \in DOMAIN batch
    BY <1>9 DEF Store, BatchTypes, BatchTypeOK
  <2> DEFINE new == BatchResult(batch[checking], result.decision, result.err)
  <2>3. Answered(batch[checking], new) \in ToldOf
    BY <1>3, <2>2, <2>4 DEF Answered, ToldOf, BatchResult, BatchResults
  <2> HIDE DEF new
  <2>5. /\ results' = [results EXCEPT ![checking].decision = result.decision,
                                      ![checking].err = result.err]
        /\ told' = [told EXCEPT ![checking] = Append(@, Answered(batch[checking], new))]
        /\ frames' = frames /\ asked' = asked /\ result' = NoOutcome /\ doing' = "returned"
        /\ method' = method
    BY <1>9 DEF Store, new
  <2>6. results' \in [DOMAIN batch -> BatchResults]
    BY <1>2, <2>2, <2>4, <2>5 DEF BatchResults
  <2>7. told' \in [DOMAIN batch -> Seq(ToldOf)]
    BY <1>2, <2>3, <2>4, <2>5
  <2>8. EvaluationTypes'
    BY <2>5, BatchValueTypes DEF BatchTypes, EvaluationTypes
  <2> QED BY <1>1, <1>9, <2>5, <2>6, <2>7, <2>8, StepTypes DEF BatchNext
<1>10. CASE Forward
  <2>1. /\ checking' = checking /\ doing' = doing /\ frames' = frames
        /\ result' = result /\ asked' = asked /\ method' = method
    BY <1>10 DEF Forward, vars
  <2>2. EvaluationTypes' /\ (checking' = 0 => doing' = "returned")
    BY <2>1 DEF BatchTypes, BatchTypeOK, EvaluationTypes
  <2>3. results' \in [DOMAIN batch -> BatchResults] /\ told' \in [DOMAIN batch -> Seq(ToldOf)]
    BY <1>2, <1>10, ForwardTypes DEF BatchTypes, BatchTypeOK
  <2> QED BY <1>1, <1>10, <2>2, <2>3, StepTypes DEF BatchNext
<1> QED BY <1>4, <1>6, <1>7, <1>8, <1>9, <1>10 DEF BatchNext

-----------------------------------------------------------------------------
(* The theorems. *)

\* The invariant holds throughout every batch call.
THEOREM BatchInvariant == BatchSpec => []BatchInv
<1> QED BY InitBatchInv, NextBatchInv, PTL DEF BatchSpec

\* The variables of a batch call keep their types: every result is one of a
\* request of the batch, every index one of the batch, and no evaluation runs
\* that is not of a request of the batch.
THEOREM BatchTypeCorrect == BatchSpec => []BatchTypeOK
<1>1. BatchTypes => BatchTypeOK
  BY DEF BatchTypes
<1>2. BatchInit => BatchTypes
  BY InitBatchTypes
<1>3. BatchInv /\ BatchTypes /\ [BatchNext]_batchVars => BatchTypes'
  BY NextBatchTypes
<1> QED BY <1>1, <1>2, <1>3, BatchInvariant, PTL DEF BatchSpec

\* Every request has the one answer given about it, in its own place, unless
\* a base returned too few results.
THEOREM ResultsInPlace == BatchSpec => []ResultsKeepTheirPlace
<1>1. BatchInv => ResultsKeepTheirPlace
  BY DEF BatchInv, Shapes, EndInv, ResultsKeepTheirPlace, Told, Untold
<1> QED BY <1>1, BatchInvariant, PTL

\* The failures among the answers are those among the results.
LEMMA FailuresAreStored ==
  ASSUME BatchInv, phase = "returned", NEW i \in DOMAIN batch
  PROVE  /\ Failing(i) <=> results[i].err # NoError
         /\ told[i] # <<>> => /\ told[i][1].answer.decision = results[i].decision
                             /\ told[i][1].answer.err = results[i].err
<1>1. Told(i) \/ Untold(i)
  BY DEF BatchInv, EndInv
<1>2. CASE Told(i)
  BY <1>2 DEF Told, Failing, Answered
<1>3. CASE Untold(i)
  BY <1>3 DEF Untold, Failing, BatchResult
<1> QED BY <1>1, <1>2, <1>3

\* BatchCheck gives every decision, or the failure of the first request that
\* failed and nothing else.
THEOREM AllOrNothing == BatchSpec => []BatchCheckIsAllOrNothing
<1>1. ASSUME BatchInv, phase = "returned", entry = "BatchCheck"
      PROVE  IF \E i \in DOMAIN batch : Failing(i)
               THEN /\ reply.decisions = <<>>
                    /\ Failing(reply.index) /\ reply.err = told[reply.index][1].answer.err
                    /\ \A i \in DOMAIN batch : i < reply.index => ~Failing(i)
               ELSE /\ reply.err = NoError
                    /\ DOMAIN reply.decisions = DOMAIN batch
                    /\ \A i \in DOMAIN batch :
                         told[i] # <<>> => reply.decisions[i] = told[i][1].answer.decision
  <2> DEFINE failing == {i \in DOMAIN results : results[i].err # NoError}
             first == Min(failing)
  <2>1. reply = DecisionsOrError(results) /\ DOMAIN results = DOMAIN batch
    BY <1>1 DEF BatchInv, EndInv, Shapes
  <2>2. failing \subseteq Nat
    BY <1>1, <2>1, LoopNumbers DEF BatchInv
  <2>3. \A i \in DOMAIN batch : Failing(i) <=> i \in failing
    BY <1>1, <2>1, FailuresAreStored
  <2>4. CASE failing = {}
    <3>1. reply = BatchReply([i \in DOMAIN results |-> results[i].decision], 0, NoError)
      BY <2>1, <2>4 DEF DecisionsOrError
    <3> QED BY <1>1, <2>1, <2>3, <2>4, <3>1, FailuresAreStored DEF BatchReply
  <2>5. CASE failing # {}
    <3>1. reply = BatchReply(<<>>, first, results[first].err)
      BY <2>1, <2>5 DEF DecisionsOrError
    <3>2. first \in failing /\ \A i \in failing : first <= i
      BY <2>2, <2>5, MinIsLeast
    <3>3. first \in DOMAIN batch
      BY <2>1, <3>2
    <3> HIDE DEF first, failing
    <3>4. \A i \in failing : ~(i < first)
      BY <2>2, <3>2
    <3>5. reply.decisions = <<>> /\ reply.index = first /\ reply.err = results[first].err
      BY <3>1 DEF BatchReply
    <3>6. Failing(first) /\ told[first] # <<>>
      BY <2>3, <3>2, <3>3 DEF Failing
    <3>7. results[first].err = told[first][1].answer.err
      BY <1>1, <3>3, <3>6, FailuresAreStored
    <3>8. \A i \in DOMAIN batch : i < first => ~Failing(i)
      BY <2>3, <3>4
    <3> QED BY <3>3, <3>5, <3>6, <3>7, <3>8
  <2> QED BY <2>4, <2>5
<1>2. BatchInv => BatchCheckIsAllOrNothing
  BY <1>1 DEF BatchCheckIsAllOrNothing
<1> QED BY <1>2, BatchInvariant, PTL

\* What a base is given as a batch, no policy accepts.
THEOREM PoliciesComeFirst == BatchSpec => NoPolicyIsLeftOut
<1>1. ASSUME BatchInv, [BatchNext]_batchVars, ~shifted, checking = 0,
             NEW i \in DOMAIN batch, told'[i] # told[i]
      PROVE  \A n \in DOMAIN bindings : ~Accepts(bindings[n], batch[i])
  <2>1. Forward
    BY <1>1 DEF BatchNext, PutAside, CheckMatched, CheckDirect, Evaluate,
       EvaluationStep, Store, ReturnResults, Shift, BatchDone, batchVars, callVars
  <2>2. PICK k \in DOMAIN direct : direct[k] = i
    BY <1>1, <2>1 DEF Forward, BatchInv, Shapes
  <2>3. Unmatched(i)
    BY <1>1, <2>2 DEF BatchInv, DirectIsOrdered
  <2>4. bindings \in Seq(Binding)
    BY <1>1, ChainAssumption DEF BatchInv, Shapes, ChainAssumption
  <2>5. \A n \in DOMAIN bindings : n >= 1
    BY <2>4
  <2> QED BY <2>3, <2>5 DEF Unmatched, Matching, Ask
<1>2. /\ BatchInv /\ [BatchNext]_batchVars
      => [~shifted /\ checking = 0 =>
            \A i \in DOMAIN batch :
              told'[i] # told[i] =>
                \A n \in DOMAIN bindings : ~Accepts(bindings[n], batch[i])]_batchVars
  BY <1>1
<1> QED BY <1>2, BatchInvariant, PTL DEF BatchSpec, NoPolicyIsLeftOut

=============================================================================
