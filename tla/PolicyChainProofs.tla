-------------------------- MODULE PolicyChainProofs --------------------------
(***************************************************************************)
(* Proofs about a chain of policies, for every list of bindings and every  *)
(* behaviour of the policies.  The inductive invariant says two things: of  *)
(* every trace on its way, that it accounts for the decision it comes with; *)
(* and of the chain, that the bindings between a policy and the one outside *)
(* it do not accept the request it was given.                               *)
(***************************************************************************)
EXTENDS PolicyChainProperties, NaturalLemmas

\* The last step that names a source names s.
LastNamed(steps, s) ==
  \E m \in DOMAIN steps :
    /\ steps[m].source = s
    /\ s # "unset"
    /\ \A n \in DOMAIN steps : n > m => steps[n].source = "unset"

Marked(steps) ==
  \A n \in DOMAIN steps :
    steps[n].result = "error" =>
      \E m \in DOMAIN steps : m > n /\ steps[m].result = "overridden"

\* The trace of an outcome, or of a continuation, accounts for its decision.
Accountable(traced) ==
  /\ traced.decision.source # "unset" =>
       LastNamed(traced.steps, traced.decision.source)
  /\ traced.decision # NoDecision => Marked(traced.steps)

\* Where the chain goes on from the innermost policy.
Onward(stack) == IF stack = <<>> THEN 1 ELSE stack[Len(stack)].at + 1

\* Policies nest in order, and none in between accepts the request.
Nested(stack) ==
  /\ \A m, n \in DOMAIN stack : m < n => stack[m].at < stack[n].at
  /\ \A k \in DOMAIN stack : \A n \in DOMAIN bindings :
       n < stack[k].at /\ (\A j \in DOMAIN stack : j < k => stack[j].at < n) =>
         ~Accepts(bindings[n], stack[k].request)

Stack(stack) ==
  /\ stack \in Seq(Frames)
  /\ \A n \in DOMAIN stack :
       stack[n].at \in DOMAIN bindings /\ ~bindings[stack[n].at].isNil
  /\ \A n \in DOMAIN stack : Accountable(stack[n].next)
  /\ Nested(stack)

ChainInv ==
  /\ ChainTypeOK
  /\ Stack(frames)
  /\ doing = "starting" => asked.start = Onward(frames)
  /\ method = "CheckTrace" => Accountable(result)

-----------------------------------------------------------------------------
(* Traces. *)

\* The types of the values the chain makes itself.
LEMMA ChainTypes ==
  /\ NoDecision \in Decision /\ NoPrincipal \in {NoPrincipal}
  /\ NoError \in Err /\ MissingError("authorizer") \in Err
  /\ MissingError("authorizer") # NoError
  /\ NoDecision.source = "unset" /\ "unset" \in DecisionSource
<1>1. NoPrincipal \in PrincipalRef
  BY TextAssumption DEF TextAssumption, NoPrincipal, PrincipalRef
<1>2. MissingError("authorizer") # NoError
  BY DEF MissingError, NoError, Error
<1> QED
  BY <1>1, <1>2 DEF NoDecision, Decision, DecisionReason, DecisionSource, Err

\* A policy's own step is a trace of one step.
LEMMA PolicyStepType ==
  ASSUME NEW mark \in {"delegated", "handled", "overridden", "error"},
         NEW source \in DecisionSource
  PROVE  /\ PolicyStep(mark, source) \in Seq(TraceSteps)
         /\ Len(PolicyStep(mark, source)) = 1
         /\ PolicyStep(mark, source)[1].source = source
         /\ PolicyStep(mark, source)[1].result = mark
  BY DEF PolicyStep, TraceSteps, TraceStep

\* One trace after another.
LEMMA Joined ==
  ASSUME NEW S, NEW a \in Seq(S), NEW b \in Seq(S)
  PROVE  /\ a \o b \in Seq(S)
         /\ Len(a \o b) = Len(a) + Len(b)
         /\ \A n \in 1..Len(a) : (a \o b)[n] = a[n]
         /\ \A n \in 1..Len(b) : (a \o b)[n + Len(a)] = b[n]
  OBVIOUS

\* The shape of the trace of a policy: its step, the steps of the last call
\* of next, and an override of what that call decided.
LEMMA StepsShape ==
  ASSUME NEW frame \in Frames, NEW says \in Answer
  PROVE  /\ Steps(frame, says) \in Seq(TraceSteps)
         /\ says.err = NoError /\ ~frame.next.called =>
              Steps(frame, says) = PolicyStep("handled", says.decision.source)
         /\ says.err = NoError /\ frame.next.called =>
              Steps(frame, says) =
                PolicyStep("delegated", "unset") \o frame.next.steps \o
                (IF says.decision # frame.next.decision
                   THEN PolicyStep("overridden", says.decision.source) ELSE <<>>)
<1>1. /\ says.decision.source \in DecisionSource
      /\ "unset" \in DecisionSource
  BY DEF Answer, Decision, DecisionSource
<1>2. frame.next.steps \in Seq(TraceSteps)
  BY DEF Frames
<1>3. /\ PolicyStep("handled", says.decision.source) \in Seq(TraceSteps)
      /\ PolicyStep("overridden", says.decision.source) \in Seq(TraceSteps)
      /\ PolicyStep("delegated", "unset") \in Seq(TraceSteps)
      /\ PolicyStep("error", "unset") \in Seq(TraceSteps)
  BY <1>1, PolicyStepType
<1>4. CASE says.err # NoError
  <2> DEFINE rest == IF frame.next.called THEN frame.next.steps ELSE <<>>
  <2>1. Steps(frame, says) = PolicyStep("error", "unset") \o rest
    BY <1>4 DEF Steps
  <2>2. rest \in Seq(TraceSteps)
    BY <1>2
  <2> HIDE DEF rest
  <2>3. PolicyStep("error", "unset") \o rest \in Seq(TraceSteps)
    BY <1>3, <2>2, Joined
  <2> QED BY <1>4, <2>1, <2>3
<1>5. CASE says.err = NoError /\ ~frame.next.called
  <2>1. Steps(frame, says) = PolicyStep("handled", says.decision.source)
    BY <1>5 DEF Steps
  <2> QED BY <1>3, <1>5, <2>1
<1>6. CASE says.err = NoError /\ frame.next.called
  <2>1. Steps(frame, says) = PolicyStep("delegated", "unset") \o frame.next.steps \o
          (IF says.decision # frame.next.decision
             THEN PolicyStep("overridden", says.decision.source) ELSE <<>>)
    BY <1>6 DEF Steps, Overrides
  <2>2. PolicyStep("delegated", "unset") \o frame.next.steps \in Seq(TraceSteps)
    BY <1>2, <1>3, Joined
  <2>3. <<>> \in Seq(TraceSteps)
    OBVIOUS
  <2>4. CASE says.decision # frame.next.decision
    BY <1>3, <1>6, <2>1, <2>2, <2>4, Joined
  <2>5. CASE says.decision = frame.next.decision
    BY <1>6, <2>1, <2>2, <2>3, <2>5, Joined
  <2> QED BY <2>4, <2>5
<1> QED BY <1>4, <1>5, <1>6

\* A trace enclosed in a delegating step and, perhaps, an overriding one.
LEMMA Enclosed ==
  ASSUME NEW steps \in Seq(TraceSteps), NEW source \in DecisionSource
  PROVE  LET head == PolicyStep("delegated", "unset")
             tail == PolicyStep("overridden", source)
         IN /\ source # "unset" => LastNamed(head \o steps \o tail, source)
            /\ Marked(head \o steps \o tail)
            /\ LastNamed(steps, source) => LastNamed(head \o steps \o <<>>, source)
            /\ Marked(steps) => Marked(head \o steps \o <<>>)
<1> DEFINE head == PolicyStep("delegated", "unset")
           tail == PolicyStep("overridden", source)
           closed == head \o steps \o tail
           open == head \o steps \o <<>>
<1>1. /\ head \in Seq(TraceSteps) /\ tail \in Seq(TraceSteps)
      /\ Len(head) = 1 /\ Len(tail) = 1
      /\ head[1].source = "unset" /\ head[1].result = "delegated"
      /\ tail[1].source = source /\ tail[1].result = "overridden"
  BY PolicyStepType DEF DecisionSource
<1> HIDE DEF head, tail
<1>0. /\ <<>> \in Seq(TraceSteps) /\ Len(<<>>) = 0
      /\ head \o steps \in Seq(TraceSteps) /\ Len(head \o steps) = Len(steps) + 1
      /\ (head \o steps)[1] = head[1]
      /\ \A n \in 1..Len(steps) : (head \o steps)[n + 1] = steps[n]
  BY <1>1, Joined
<1>2. /\ Len(closed) = Len(steps) + 2 /\ DOMAIN closed = 1..(Len(steps) + 2)
      /\ closed[Len(steps) + 2] = tail[1]
      /\ closed[1] = head[1]
      /\ \A n \in 1..Len(steps) : closed[n + 1] = steps[n]
  <2>1. /\ closed \in Seq(TraceSteps) /\ Len(closed) = Len(steps) + 2
        /\ \A n \in 1..(Len(steps) + 1) : closed[n] = (head \o steps)[n]
        /\ closed[1 + (Len(steps) + 1)] = tail[1]
    BY <1>0, <1>1, Joined
  <2> HIDE DEF closed
  <2>2. \A n \in 1..Len(steps) : n + 1 \in 1..(Len(steps) + 1)
    OBVIOUS
  <2>3. /\ 1 + (Len(steps) + 1) = Len(steps) + 2
        /\ 1 \in 1..(Len(steps) + 1)
    OBVIOUS
  <2>4. closed[1] = head[1]
    BY <1>0, <2>1, <2>3
  <2>5. \A n \in 1..Len(steps) : closed[n + 1] = steps[n]
    BY <1>0, <2>1, <2>2
  <2>6. DOMAIN closed = 1..(Len(steps) + 2)
    BY <2>1
  <2>7. closed[Len(steps) + 2] = tail[1]
    BY <2>1, <2>3
  <2> QED BY <2>1, <2>4, <2>5, <2>6, <2>7
<1>3. /\ Len(open) = Len(steps) + 1 /\ DOMAIN open = 1..(Len(steps) + 1)
      /\ open[1] = head[1]
      /\ \A n \in 1..Len(steps) : open[n + 1] = steps[n]
  <2>1. /\ open \in Seq(TraceSteps) /\ Len(open) = Len(steps) + 1
        /\ \A n \in 1..(Len(steps) + 1) : open[n] = (head \o steps)[n]
    BY <1>0, <1>1, Joined
  <2> HIDE DEF open
  <2>2. \A n \in 1..Len(steps) : n + 1 \in 1..(Len(steps) + 1)
    OBVIOUS
  <2>3. 1 \in 1..(Len(steps) + 1)
    OBVIOUS
  <2>4. open[1] = head[1]
    BY <1>0, <2>1, <2>3
  <2>5. \A n \in 1..Len(steps) : open[n + 1] = steps[n]
    BY <1>0, <2>1, <2>2
  <2>6. DOMAIN open = 1..(Len(steps) + 1)
    BY <2>1
  <2> QED BY <2>1, <2>4, <2>5, <2>6
<1>4. Len(steps) \in Nat /\ DOMAIN steps = 1..Len(steps)
  OBVIOUS
<1> HIDE DEF closed, open
<1>5. source # "unset" => LastNamed(closed, source)
  BY <1>1, <1>2, <1>4 DEF LastNamed
<1>6. Marked(closed)
  <2>1. \A n \in DOMAIN closed :
          closed[n].result = "error" => n # Len(steps) + 2
    BY <1>1, <1>2
  <2> QED BY <1>1, <1>2, <1>4, <2>1 DEF Marked
<1>7. ASSUME LastNamed(steps, source) PROVE LastNamed(open, source)
  <2>1. PICK m \in DOMAIN steps :
          /\ steps[m].source = source
          /\ source # "unset"
          /\ \A n \in DOMAIN steps : n > m => steps[n].source = "unset"
    BY <1>7 DEF LastNamed
  <2>2. \A n \in DOMAIN open : n > m + 1 => open[n] = steps[n - 1] /\ n - 1 \in DOMAIN steps
    BY <1>3, <1>4
  <2>3. m + 1 \in DOMAIN open /\ open[m + 1] = steps[m]
    BY <1>3, <1>4
  <2>4. \A n \in DOMAIN open : n > m + 1 => open[n].source = "unset"
    BY <1>3, <1>4, <2>1, <2>2
  <2> QED BY <2>1, <2>3, <2>4 DEF LastNamed
<1>8. ASSUME Marked(steps) PROVE Marked(open)
  <2>1. SUFFICES ASSUME NEW n \in DOMAIN open, open[n].result = "error"
                 PROVE  \E m \in DOMAIN open : m > n /\ open[m].result = "overridden"
    BY DEF Marked
  <2>2. n # 1
    BY <1>1, <1>3, <2>1
  <2>3. n - 1 \in DOMAIN steps /\ open[n] = steps[n - 1]
    BY <1>3, <1>4, <2>2
  <2>4. PICK m \in DOMAIN steps : m > n - 1 /\ steps[m].result = "overridden"
    BY <1>8, <2>1, <2>3 DEF Marked
  <2>5. m + 1 \in DOMAIN open /\ m + 1 > n /\ open[m + 1].result = "overridden"
    BY <1>3, <1>4, <2>4
  <2> QED BY <2>5
<1> QED BY <1>5, <1>6, <1>7, <1>8 DEF closed, open, head, tail

-----------------------------------------------------------------------------
(* Outcomes. *)

\* What CheckTrace makes of a policy's return accounts for the decision when
\* what its last call of next left does.
LEMMA TracedSound ==
  ASSUME NEW frame \in Frames, Accountable(frame.next), NEW says \in Answer
  PROVE  /\ Traced(frame, says) \in Outcomes
         /\ Accountable(Traced(frame, says))
<1> DEFINE new == Traced(frame, says)
           source == says.decision.source
           last == frame.next
<1>1. /\ Steps(frame, says) \in Seq(TraceSteps)
      /\ says.err = NoError /\ ~last.called =>
           Steps(frame, says) = PolicyStep("handled", source)
      /\ says.err = NoError /\ last.called =>
           Steps(frame, says) =
             PolicyStep("delegated", "unset") \o last.steps \o
             (IF says.decision # last.decision
                THEN PolicyStep("overridden", source) ELSE <<>>)
  BY StepsShape
<1>2. /\ says.err \in Err /\ says.decision \in Decision
      /\ source \in DecisionSource /\ "unset" \in DecisionSource
  BY DEF Answer, Decision, DecisionSource
<1>3. /\ new.steps = Steps(frame, says) /\ new.err = says.err
      /\ new.decision = IF says.err # NoError THEN NoDecision ELSE says.decision
  BY DEF Traced, Outcome, Says
<1>4. new \in Outcomes
  <2>1. new.decision \in Decision
    BY <1>2, <1>3, ChainTypes
  <2>2. new = [decision |-> new.decision, err |-> new.err, steps |-> new.steps]
    BY DEF Traced, Outcome
  <2> HIDE DEF new
  <2> QED BY <1>1, <1>2, <1>3, <2>1, <2>2 DEF Outcomes
<1>5. CASE says.err # NoError
  BY <1>3, <1>4, <1>5, ChainTypes DEF Accountable
<1>6. CASE says.err = NoError /\ ~last.called
  <2>1. new.decision = says.decision /\ new.steps = PolicyStep("handled", source)
    BY <1>1, <1>3, <1>6
  <2>2. /\ Len(new.steps) = 1 /\ DOMAIN new.steps = {1}
        /\ new.steps[1].source = source /\ new.steps[1].result = "handled"
    BY <1>2, <2>1, PolicyStepType
  <2>3. source # "unset" => LastNamed(new.steps, source)
    BY <2>2 DEF LastNamed
  <2>4. Marked(new.steps)
    BY <2>2 DEF Marked
  <2> QED BY <1>4, <2>1, <2>3, <2>4 DEF Accountable
<1>7. CASE says.err = NoError /\ last.called
  <2>1. last.steps \in Seq(TraceSteps)
    BY DEF Frames
  <2>2. new.decision = says.decision
    BY <1>3, <1>7
  <2>3. CASE says.decision # last.decision
    <3>1. new.steps = PolicyStep("delegated", "unset") \o last.steps
                      \o PolicyStep("overridden", source)
      BY <1>1, <1>3, <1>7, <2>3
    <3>2. (source # "unset" => LastNamed(new.steps, source)) /\ Marked(new.steps)
      BY <1>2, <2>1, <3>1, Enclosed
    <3> QED BY <1>4, <2>2, <3>2 DEF Accountable
  <2>4. CASE says.decision = last.decision
    <3>1. new.steps = PolicyStep("delegated", "unset") \o last.steps \o <<>>
      BY <1>1, <1>3, <1>7, <2>4
    <3>2. /\ LastNamed(last.steps, source) => LastNamed(new.steps, source)
          /\ Marked(last.steps) => Marked(new.steps)
      BY <1>2, <2>1, <3>1, Enclosed
    <3> QED BY <1>4, <2>2, <2>4, <3>2 DEF Accountable
  <2> QED BY <2>3, <2>4
<1> QED BY <1>5, <1>6, <1>7

-----------------------------------------------------------------------------
(* The chain. *)

\* Dropping the innermost policy leaves a chain.
LEMMA OuterStack ==
  ASSUME NEW stack, Stack(stack), stack # <<>>
  PROVE  Stack(SubSeq(stack, 1, Len(stack) - 1))
<1> DEFINE outer == SubSeq(stack, 1, Len(stack) - 1)
<1>1. /\ stack \in Seq(Frames) /\ Len(stack) \in Nat /\ Len(stack) >= 1
      /\ DOMAIN stack = 1..Len(stack)
  BY DEF Stack
<1>2. /\ outer \in Seq(Frames)
      /\ DOMAIN outer = 1..(Len(stack) - 1)
      /\ \A n \in DOMAIN outer : n \in DOMAIN stack /\ outer[n] = stack[n]
  BY <1>1
<1>3. \A k \in DOMAIN outer : \A j \in DOMAIN stack : j < k => j \in DOMAIN outer
  BY <1>1, <1>2
<1> HIDE DEF outer
<1>4. Nested(outer)
  <2>1. Nested(stack)
    BY DEF Stack
  <2>2. \A m, n \in DOMAIN outer : m < n => outer[m].at < outer[n].at
    BY <1>2, <2>1 DEF Nested
  <2>3. ASSUME NEW k \in DOMAIN outer, NEW n \in DOMAIN bindings,
               n < outer[k].at,
               \A j \in DOMAIN outer : j < k => outer[j].at < n
        PROVE  ~Accepts(bindings[n], outer[k].request)
    <3>1. \A j \in DOMAIN stack : j < k => stack[j].at < n
      BY <1>2, <1>3, <2>3
    <3> QED BY <1>2, <2>1, <2>3, <3>1 DEF Nested
  <2> QED BY <2>2, <2>3 DEF Nested
<1> QED BY <1>2, <1>4 DEF Stack, outer

\* A policy that hears an outcome is still the same policy.
LEMMA HearSound ==
  ASSUME NEW frame \in Frames, Accountable(frame.next),
         NEW outcome \in Outcomes, method = "CheckTrace" => Accountable(outcome)
  PROVE  /\ Hear(frame, outcome) \in Frames
         /\ Hear(frame, outcome).at = frame.at
         /\ Hear(frame, outcome).request = frame.request
         /\ Accountable(Hear(frame, outcome).next)
<1> DEFINE says == Says(outcome.decision, outcome.err)
           heard == Append(frame.heard, says)
<1>1. says \in Answer /\ frame.heard \in Seq(Answer)
  BY DEF Says, Outcomes, Answer, Frames
<1> HIDE DEF says
<1>2. heard \in Seq(Answer)
  BY <1>1
<1>3. /\ NextCalled(outcome) \in [called : BOOLEAN, decision : Decision, steps : Seq(TraceSteps)]
      /\ NextCalled(outcome).decision = outcome.decision
      /\ NextCalled(outcome).steps = outcome.steps
  BY DEF NextCalled, Outcomes
<1> HIDE DEF heard
<1>4. CASE method = "CheckTrace"
  <2>1. Hear(frame, outcome) =
          [frame EXCEPT !.heard = heard, !.next = NextCalled(outcome)]
    BY <1>4 DEF Hear, HearTrace, heard, says
  <2>2. /\ Hear(frame, outcome) \in Frames
        /\ Hear(frame, outcome).at = frame.at
        /\ Hear(frame, outcome).request = frame.request
        /\ Hear(frame, outcome).next = NextCalled(outcome)
    BY <1>2, <1>3, <2>1 DEF Frames
  <2> QED BY <1>3, <1>4, <2>2 DEF Accountable
<1>5. CASE method # "CheckTrace"
  <2>1. Hear(frame, outcome) = [frame EXCEPT !.heard = heard]
    BY <1>5 DEF Hear, HearDecision, heard, says
  <2>2. /\ Hear(frame, outcome) \in Frames
        /\ Hear(frame, outcome).at = frame.at
        /\ Hear(frame, outcome).request = frame.request
        /\ Hear(frame, outcome).next = frame.next
    BY <1>2, <2>1 DEF Frames
  <2> QED BY <2>2
<1> QED BY <1>4, <1>5

\* Delivering an accounted outcome keeps the invariant.
LEMMA DeliverKeeps ==
  ASSUME ChainInv, NEW stack, Stack(stack), NEW outcome \in Outcomes,
         method = "CheckTrace" => Accountable(outcome),
         Deliver(stack, outcome), UNCHANGED <<method, bindings, hasBase, asked>>
  PROVE  ChainInv'
<1>1. /\ stack \in Seq(Frames) /\ Len(stack) \in Nat
      /\ DOMAIN stack = 1..Len(stack)
  BY DEF Stack
<1>2. CASE stack = <<>>
  <2>1. doing' = "returned" /\ frames' = stack /\ result' = outcome
    BY <1>2 DEF Deliver
  <2>2. Stack(frames)'
    BY <1>2, <2>1 DEF Stack, Nested
  <2>3. ChainTypeOK'
    BY <1>1, <1>2, <2>1 DEF ChainInv, ChainTypeOK
  <2> QED BY <2>1, <2>2, <2>3 DEF ChainInv, Accountable, LastNamed, Marked
<1>3. CASE stack # <<>>
  <2> DEFINE top == stack[Len(stack)]
             new == Hear(top, outcome)
  <2>1. /\ doing' = "running" /\ result' = result
        /\ frames' = [stack EXCEPT ![Len(stack)] = new]
    BY <1>3 DEF Deliver
  <2>2. Len(stack) \in DOMAIN stack /\ top \in Frames /\ Accountable(top.next)
    BY <1>1, <1>3 DEF Stack
  <2>3. /\ new \in Frames /\ new.at = top.at /\ new.request = top.request
        /\ Accountable(new.next)
    BY <2>2, HearSound
  <2> HIDE DEF new, top
  <2>5. /\ frames' \in Seq(Frames) /\ DOMAIN frames' = DOMAIN stack
        /\ frames'[Len(stack)] = new
        /\ \A n \in DOMAIN stack : n # Len(stack) => frames'[n] = stack[n]
    BY <1>1, <2>1, <2>2, <2>3
  <2>6. \A n \in DOMAIN stack : /\ frames'[n].at = stack[n].at
                                /\ frames'[n].request = stack[n].request
    BY <2>3, <2>5 DEF top
  <2>7. /\ \A n \in DOMAIN frames' :
             frames'[n].at \in DOMAIN bindings /\ ~bindings[frames'[n].at].isNil
        /\ \A n \in DOMAIN frames' : Accountable(frames'[n].next)
    BY <2>3, <2>5, <2>6 DEF Stack
  <2>8. Stack(frames)'
    <3>1. Nested(stack)
      BY DEF Stack
    <3>2. Nested(frames)'
      BY <2>5, <2>6, <3>1 DEF Nested, Accepts
    <3> QED BY <2>5, <2>7, <3>2 DEF Stack, Accountable, LastNamed, Marked
  <2>9. frames' # <<>>
    BY <2>2, <2>5
  <2>10. ChainTypeOK'
    BY <2>1, <2>5, <2>7, <2>9 DEF ChainInv, ChainTypeOK
  <2> QED BY <2>1, <2>8, <2>10 DEF ChainInv, Accountable, LastNamed, Marked
<1> QED BY <1>2, <1>3

\* An evaluation starts in the invariant.
LEMMA InitChainInv == Init => ChainInv
<1> SUFFICES ASSUME Init PROVE ChainInv
  OBVIOUS
<1>1. NoOutcome \in Outcomes /\ Accountable(NoOutcome)
  <2>1. NoDecision \in Decision /\ NoError \in Err /\ NoDecision.source = "unset"
    BY ChainTypes
  <2> QED BY <2>1 DEF NoOutcome, Outcome, Outcomes, Says, Accountable
<1>2. ChainTypeOK
  <2>1. hasBase \in BOOLEAN /\ method \in {"CheckDecision", "CheckTrace"}
    BY DEF Init
  <2>2. asked \in [request : Requests, start : Nat]
    BY DEF Init, Ask
  <2>3. frames = <<>> /\ doing = "starting" /\ result = NoOutcome /\ bindings \in Chains
    BY DEF Init
  <2>4. <<>> \in Seq(Frames)
    OBVIOUS
  <2> QED BY <1>1, <2>1, <2>2, <2>3, <2>4 DEF ChainTypeOK
<1>3. Stack(frames)
  BY DEF Init, Stack, Nested
<1> QED BY <1>1, <1>2, <1>3 DEF Init, ChainInv, Onward, Ask

\* The bindings a chain can go on to are bindings with a policy.
LEMMA MatchingTypes ==
  ASSUME ChainInv
  PROVE  /\ DOMAIN bindings \subseteq Nat
         /\ Matching(asked) \subseteq DOMAIN bindings
         /\ \A n \in Matching(asked) :
              n >= asked.start /\ Accepts(bindings[n], asked.request)
<1>1. bindings \in Seq(Binding)
  BY ChainAssumption DEF ChainAssumption, ChainInv, ChainTypeOK
<1> QED BY <1>1 DEF Matching

\* The innermost policy of a chain.
LEMMA TopFrame ==
  ASSUME ChainInv, frames # <<>>
  PROVE  /\ Len(frames) \in DOMAIN frames /\ DOMAIN frames = 1..Len(frames)
         /\ Len(frames) \in Nat /\ Top \in Frames /\ Top.at \in Nat
         /\ Accountable(Top.next)
         /\ \A n \in DOMAIN frames : frames[n].at \in Nat /\ frames[n].at <= Top.at
<1>1. /\ frames \in Seq(Frames) /\ Len(frames) \in Nat
      /\ DOMAIN frames = 1..Len(frames) /\ Len(frames) \in DOMAIN frames
  BY DEF ChainInv, ChainTypeOK
<1>2. Top \in Frames /\ Top = frames[Len(frames)]
  BY <1>1 DEF Top
<1>3. \A n \in DOMAIN frames : frames[n].at \in Nat
  <2>1. \A n \in DOMAIN frames : frames[n] \in Frames
    BY <1>1
  <2> QED BY <2>1 DEF Frames
<1>4. \A m, n \in DOMAIN frames : m < n => frames[m].at < frames[n].at
  BY DEF ChainInv, Stack, Nested
<1>5. \A n \in DOMAIN frames : n < Len(frames) \/ n = Len(frames)
  BY <1>1
<1>6. \A n \in DOMAIN frames : frames[n].at <= Top.at
  BY <1>1, <1>2, <1>3, <1>4, <1>5
<1>7. Accountable(Top.next)
  BY <1>1, <1>2 DEF ChainInv, Stack
<1> QED BY <1>1, <1>2, <1>3, <1>6, <1>7

\* What a nil base leaves is an error.
LEMMA MissBaseStep == ChainInv /\ MissBase => ChainInv'
<1> SUFFICES ASSUME ChainInv, MissBase PROVE ChainInv'
  OBVIOUS
<1> DEFINE outcome == Outcome(Says(NoDecision, MissingError("authorizer")), <<>>)
<1>1. outcome \in Outcomes /\ Accountable(outcome)
  BY ChainTypes DEF Outcome, Outcomes, Says, Accountable
<1>2. Deliver(frames, outcome) /\ UNCHANGED <<method, bindings, hasBase, asked>>
  BY DEF MissBase
<1>3. Stack(frames)
  BY DEF ChainInv
<1> QED BY <1>1, <1>2, <1>3, DeliverKeeps

\* What the wrapped authorizer returns is passed to the innermost policy.
LEMMA BaseReturnsKeeps ==
  ASSUME ChainInv, NEW decision \in Decision, NEW err \in Err,
         NEW steps \in Seq(TraceSteps),
         Accountable(Outcome(Says(decision, err), steps)),
         BaseReturns(Says(decision, err), steps)
  PROVE  ChainInv'
<1> DEFINE kept == IF method = "CheckTrace" THEN steps ELSE <<>>
           outcome == Outcome(Says(decision, err), kept)
<1>1. Deliver(frames, outcome) /\ UNCHANGED <<method, bindings, hasBase, asked>>
  BY DEF BaseReturns
<1>2. kept \in Seq(TraceSteps)
  OBVIOUS
<1>3. method = "CheckTrace" => Accountable(outcome)
  OBVIOUS
<1> HIDE DEF kept
<1>4. outcome \in Outcomes
  BY <1>2 DEF Outcome, Outcomes, Says
<1>5. Stack(frames)
  BY DEF ChainInv
<1> HIDE DEF outcome
<1> QED BY <1>1, <1>3, <1>4, <1>5, DeliverKeeps

\* Its decision is accounted for by its last step.
LEMMA BaseDecidesStep ==
  ASSUME NEW decision \in BaseDecisions
  PROVE  ChainInv /\ BaseDecides(decision) => ChainInv'
<1> SUFFICES ASSUME ChainInv, BaseDecides(decision) PROVE ChainInv'
  OBVIOUS
<1> DEFINE steps == <<TraceStep("base", "decided", NoPrincipal, decision.source)>>
<1>1. /\ decision \in Decision /\ decision.source \in DecisionSource
      /\ decision.source # "unset"
  BY ChainAssumption DEF ChainAssumption, Decision, BaseDecisions
<1>2. steps \in Seq(TraceSteps)
  BY <1>1 DEF TraceStep, TraceSteps
<1>3. DOMAIN steps = {1} /\ steps[1].source = decision.source
      /\ steps[1].result = "decided"
  BY DEF TraceStep
<1>4. BaseReturns(Says(decision, NoError), steps)
  BY DEF BaseDecides
<1> HIDE DEF steps
<1>5. LastNamed(steps, decision.source) /\ Marked(steps)
  BY <1>1, <1>3 DEF LastNamed, Marked
<1>6. Accountable(Outcome(Says(decision, NoError), steps))
  BY <1>5 DEF Outcome, Says, Accountable
<1> QED BY <1>1, <1>2, <1>4, <1>6, ChainTypes, BaseReturnsKeeps

\* Its error comes with no decision to account for.
LEMMA BaseFailsStep ==
  ASSUME NEW err \in PolicyErrors, NEW steps \in FailedSteps
  PROVE  ChainInv /\ BaseFails(err, steps) => ChainInv'
<1> SUFFICES ASSUME ChainInv, BaseFails(err, steps) PROVE ChainInv'
  OBVIOUS
<1>1. steps \in Seq(TraceSteps) /\ err \in Err
  <2>1. /\ <<>> \in Seq(TraceSteps)
        /\ <<TraceStep("base", "error", NoPrincipal, "unset")>> \in Seq(TraceSteps)
    BY ChainTypes DEF TraceStep, TraceSteps
  <2> QED BY <2>1 DEF FailedSteps, Err
<1>2. Accountable(Outcome(Says(NoDecision, err), steps))
  BY ChainTypes DEF Outcome, Says, Accountable
<1>3. BaseReturns(Says(NoDecision, err), steps)
  BY DEF BaseFails
<1> QED BY <1>1, <1>2, <1>3, ChainTypes, BaseReturnsKeeps

\* The next policy to run is the first that accepts the request, beyond every
\* policy already under way.
LEMMA RunPolicyStep == ChainInv /\ (RunPolicy \/ TracePolicy) => ChainInv'
<1> SUFFICES ASSUME ChainInv, RunPolicy \/ TracePolicy PROVE ChainInv'
  OBVIOUS
<1> DEFINE n == Min(Matching(asked))
           new == Frame(n, asked.request)
<1>1. /\ n \in Matching(asked) /\ n \in DOMAIN bindings /\ n \in Nat
      /\ n >= asked.start /\ Accepts(bindings[n], asked.request)
      /\ \A m \in Matching(asked) : n <= m
  BY MatchingTypes, MinIsLeast DEF RunPolicy, TracePolicy
<1>2. /\ frames' = Append(frames, new) /\ doing' = "running"
      /\ UNCHANGED <<method, bindings, hasBase, asked, result>>
      /\ asked.start = Onward(frames) /\ asked \in [request : Requests, start : Nat]
  BY DEF RunPolicy, TracePolicy, ChainInv, ChainTypeOK
<1>3. /\ new \in Frames /\ new.at = n /\ new.request = asked.request
      /\ Accountable(new.next)
  <2>1. /\ NextNotCalled \in [called : BOOLEAN, decision : Decision, steps : Seq(TraceSteps)]
        /\ Accountable(NextNotCalled)
    BY ChainTypes DEF NextNotCalled, Accountable
  <2> QED BY <1>1, <1>2, <2>1 DEF Frame, Frames
<1> HIDE DEF n, new
<1>4. frames \in Seq(Frames) /\ Len(frames) \in Nat /\ DOMAIN frames = 1..Len(frames)
  BY DEF ChainInv, ChainTypeOK
<1>5. /\ frames' \in Seq(Frames) /\ DOMAIN frames' = 1..(Len(frames) + 1)
      /\ frames'[Len(frames) + 1] = new /\ frames' # <<>>
      /\ \A k \in DOMAIN frames : frames'[k] = frames[k]
  BY <1>2, <1>3, <1>4
<1>6. \A k \in DOMAIN frames' : k \in DOMAIN frames \/ k = Len(frames) + 1
  BY <1>4, <1>5
<1>7. \A k \in DOMAIN frames : frames[k].at \in Nat /\ frames[k].at < n
  <2>1. CASE frames = <<>>
    BY <1>4, <2>1
  <2>2. CASE frames # <<>>
    <3>1. asked.start = Top.at + 1
      BY <1>2, <2>2 DEF Onward, Top
    <3> QED BY <1>1, <2>2, <3>1, TopFrame
  <2> QED BY <2>1, <2>2
<1>8. Nested(frames)'
  <2>1. Nested(frames)
    BY DEF ChainInv, Stack
  <2>2. \A j, k \in DOMAIN frames' : j < k => frames'[j].at < frames'[k].at
    <3> SUFFICES ASSUME NEW j \in DOMAIN frames', NEW k \in DOMAIN frames', j < k
                 PROVE  frames'[j].at < frames'[k].at
      OBVIOUS
    <3>1. j \in DOMAIN frames
      BY <1>4, <1>5
    <3> QED BY <1>3, <1>5, <1>6, <1>7, <2>1, <3>1 DEF Nested
  <2>3. ASSUME NEW k \in DOMAIN frames', NEW m \in DOMAIN bindings,
               m < frames'[k].at,
               \A j \in DOMAIN frames' : j < k => frames'[j].at < m
        PROVE  ~Accepts(bindings[m], frames'[k].request)
    <3>1. CASE k \in DOMAIN frames
      <4>1. \A j \in DOMAIN frames : j < k => frames[j].at < m
        BY <1>4, <1>5, <2>3
      <4> QED BY <1>5, <2>1, <2>3, <3>1, <4>1 DEF Nested
    <3>2. CASE k = Len(frames) + 1
      <4>1. m < n /\ m \in Nat
        BY <1>3, <1>5, <2>3, <3>2, MatchingTypes
      <4>2. m >= asked.start
        <5>1. CASE frames = <<>>
          <6>1. asked.start = 1
            BY <1>2, <5>1 DEF Onward
          <6>2. bindings \in Seq(Binding)
            BY ChainAssumption DEF ChainAssumption, ChainInv, ChainTypeOK
          <6> QED BY <6>1, <6>2
        <5>2. CASE frames # <<>>
          <6>1. asked.start = Top.at + 1 /\ Top = frames[Len(frames)]
            BY <1>2, <5>2 DEF Onward, Top
          <6>2. Len(frames) \in DOMAIN frames /\ Len(frames) < k /\ Top.at \in Nat
            BY <1>4, <3>2, <5>2, TopFrame
          <6>3. Top.at < m
            BY <1>4, <1>5, <2>3, <6>1, <6>2
          <6> QED BY <4>1, <6>1, <6>2, <6>3
        <5> QED BY <5>1, <5>2
      <4>3. m \notin Matching(asked)
        BY <1>1, <4>1, MatchingTypes
      <4> QED BY <1>3, <1>5, <3>2, <4>2, <4>3 DEF Matching
    <3> QED BY <1>6, <3>1, <3>2
  <2> QED BY <1>2, <2>2, <2>3 DEF Nested
<1>9. \A k \in DOMAIN frames' :
        frames'[k].at \in DOMAIN bindings /\ ~bindings[frames'[k].at].isNil
  <2>1. ~bindings[n].isNil
    BY <1>1 DEF Accepts
  <2> QED BY <1>1, <1>3, <1>5, <1>6, <2>1 DEF ChainInv, ChainTypeOK
<1>10. \A k \in DOMAIN frames' : Accountable(frames'[k].next)
  BY <1>3, <1>5, <1>6 DEF ChainInv, Stack
<1>11. Stack(frames)'
  BY <1>2, <1>5, <1>8, <1>9, <1>10 DEF Stack, Accountable, LastNamed, Marked
<1>12. ChainTypeOK'
  BY <1>2, <1>5, <1>9 DEF ChainInv, ChainTypeOK
<1> QED BY <1>2, <1>11, <1>12 DEF ChainInv, Accountable, LastNamed, Marked

\* A call of next goes on with the binding after the policy's.
LEMMA CallNextStep ==
  ASSUME NEW request \in Requests
  PROVE  ChainInv /\ CallNext(request) => ChainInv'
<1> SUFFICES ASSUME ChainInv, CallNext(request) PROVE ChainInv'
  OBVIOUS
<1>1. /\ doing' = "starting"
      /\ asked' = Ask(request, IF method = "CheckTrace" THEN NextTrace(Top)
                                                        ELSE NextDecision(Top))
      /\ UNCHANGED <<method, bindings, hasBase, frames, result>> /\ frames # <<>>
  BY DEF CallNext, ChainInv, ChainTypeOK
<1>2. /\ asked' \in [request : Requests, start : Nat]
      /\ asked'.start = frames[Len(frames)].at + 1
  <2>1. asked' = Ask(request, Top.at + 1)
    BY <1>1 DEF NextTrace, NextDecision
  <2>2. Top.at \in Nat /\ Top = frames[Len(frames)]
    BY <1>1, TopFrame DEF Top
  <2> QED BY <2>1, <2>2 DEF Ask
<1>3. ChainTypeOK'
  BY <1>1, <1>2 DEF ChainInv, ChainTypeOK
<1>4. Stack(frames)' /\ (method = "CheckTrace" => Accountable(result))'
  BY <1>1 DEF ChainInv, Stack, Nested, Accountable, LastNamed, Marked
<1> QED BY <1>1, <1>2, <1>3, <1>4 DEF ChainInv, Onward

\* A policy that returns leaves its caller with an accounted outcome.
LEMMA ReturnKeeps ==
  ASSUME ChainInv, doing = "running", NEW says \in Answer, Return(says)
  PROVE  ChainInv'
<1>1. frames # <<>>
  BY DEF ChainInv, ChainTypeOK
<1>2. Stack(Outer(frames))
  BY <1>1, OuterStack DEF ChainInv, Outer
<1>3. UNCHANGED <<method, bindings, hasBase, asked>>
  BY DEF Return
<1>4. CASE ReturnDecision(says)
  <2>1. method # "CheckTrace" /\ Deliver(Outer(frames), Outcome(says, <<>>))
    BY <1>4 DEF ReturnDecision
  <2>2. Outcome(says, <<>>) \in Outcomes
    BY DEF Outcome, Outcomes, Answer
  <2> QED BY <1>2, <1>3, <2>1, <2>2, DeliverKeeps
<1>5. CASE ReturnTrace(says)
  <2>1. Deliver(Outer(frames), Traced(Top, says))
    BY <1>5 DEF ReturnTrace
  <2>2. Traced(Top, says) \in Outcomes /\ Accountable(Traced(Top, says))
    BY <1>1, TopFrame, TracedSound
  <2> QED BY <1>2, <1>3, <2>1, <2>2, DeliverKeeps
<1> QED BY <1>4, <1>5 DEF Return

\* A policy decides for itself, fails, or uses what it heard.
LEMMA ReturnSteps ==
  ASSUME ChainInv
  PROVE  /\ \A decision \in Decisions : Decide(decision) => ChainInv'
         /\ \A decision \in BesideErrors, err \in PolicyErrors :
              Fail(decision, err) => ChainInv'
         /\ \A n \in Calls : PassOn(n) \/ Overlook(n) => ChainInv'
<1>1. ASSUME NEW decision \in Decisions, Decide(decision) PROVE ChainInv'
  <2>1. Says(decision, NoError) \in Answer
    BY ChainAssumption DEF ChainAssumption, Says, Answer, Err
  <2> QED BY <1>1, <2>1, ReturnKeeps DEF Decide
<1>2. ASSUME NEW decision \in BesideErrors, NEW err \in PolicyErrors,
             Fail(decision, err)
      PROVE  ChainInv'
  <2>1. Says(decision, err) \in Answer
    BY ChainAssumption DEF ChainAssumption, Says, Answer, Err
  <2> QED BY <1>2, <2>1, ReturnKeeps DEF Fail
<1>3. ASSUME NEW n \in Calls PROVE doing = "running" /\ Top.heard[n] \in Answer
  <2>1. doing = "running" /\ n \in DOMAIN Top.heard
    BY <1>3 DEF Calls
  <2>2. frames # <<>>
    BY <2>1 DEF ChainInv, ChainTypeOK
  <2>3. Top.heard \in Seq(Answer)
    BY <2>2, TopFrame DEF Frames
  <2> QED BY <2>1, <2>3
<1>4. ASSUME NEW n \in Calls, PassOn(n) PROVE ChainInv'
  BY <1>3, <1>4, ReturnKeeps DEF PassOn
<1>5. ASSUME NEW n \in Calls, Overlook(n) PROVE ChainInv'
  <2>1. Says(Top.heard[n].decision, NoError) \in Answer
    BY <1>3, ChainTypes DEF Says, Answer
  <2> QED BY <1>3, <1>5, <2>1, ReturnKeeps DEF Overlook
<1> QED BY <1>1, <1>2, <1>4, <1>5

\* Every step keeps the invariant.
LEMMA NextChainInv == ChainInv /\ [Next]_vars => ChainInv'
<1> SUFFICES ASSUME ChainInv, [Next]_vars PROVE ChainInv'
  OBVIOUS
<1>1. CASE Walk
  BY <1>1, MissBaseStep, RunPolicyStep DEF Walk
<1>2. CASE \E decision \in BaseDecisions : BaseDecides(decision)
  BY <1>2, BaseDecidesStep
<1>3. CASE \E err \in PolicyErrors, steps \in FailedSteps : BaseFails(err, steps)
  BY <1>3, BaseFailsStep
<1>4. CASE \E request \in Requests : CallNext(request)
  BY <1>4, CallNextStep
<1>5. CASE \E decision \in Decisions : Decide(decision)
  BY <1>5, ReturnSteps
<1>6. CASE \E decision \in BesideErrors, err \in PolicyErrors : Fail(decision, err)
  BY <1>6, ReturnSteps
<1>7. CASE \E n \in Calls : PassOn(n) \/ Overlook(n)
  BY <1>7, ReturnSteps
<1>8. CASE UNCHANGED vars
  BY <1>8 DEF vars, ChainInv, ChainTypeOK, Stack, Nested, Accountable, LastNamed, Marked
<1> QED BY <1>1, <1>2, <1>3, <1>4, <1>5, <1>6, <1>7, <1>8 DEF Next, Done

-----------------------------------------------------------------------------
(* The theorems. *)

\* The invariant holds throughout every evaluation.
THEOREM ChainInvariant == Spec => []ChainInv
<1> QED BY InitChainInv, NextChainInv, PTL DEF Spec

\* Every variable keeps its type, whatever the policies do.
THEOREM ChainTypeCorrect == Spec => []ChainTypeOK
<1>1. ChainInv => ChainTypeOK
  BY DEF ChainInv
<1> QED BY <1>1, ChainInvariant, PTL

\* The last step that names a source is the one LastSourceIsTheDecisions reads.
LEMMA LastNamedIsMax ==
  ASSUME NEW steps \in Seq(TraceSteps), NEW s, LastNamed(steps, s)
  PROVE  Named(steps) # {} /\ steps[Max(Named(steps))].source = s
<1>1. PICK m \in DOMAIN steps :
        /\ steps[m].source = s
        /\ s # "unset"
        /\ \A n \in DOMAIN steps : n > m => steps[n].source = "unset"
  BY DEF LastNamed
<1>2. /\ Named(steps) \subseteq Nat /\ m \in Named(steps)
      /\ \A n \in Named(steps) : n <= m
  BY <1>1 DEF Named
<1>3. Max(Named(steps)) = m
  BY <1>2, MaxIsGreatest
<1> QED BY <1>1, <1>2, <1>3

\* A trace always ends by naming the source of the decision, if it has one.
THEOREM LastSourceNamed == Spec => []LastSourceIsTheDecisions
<1>1. ChainInv => LastSourceIsTheDecisions
  <2> SUFFICES ASSUME ChainInv, TraceReturned, result.decision.source # "unset"
               PROVE  /\ Named(result.steps) # {}
                      /\ result.steps[Max(Named(result.steps))].source
                           = result.decision.source
    BY DEF LastSourceIsTheDecisions
  <2>1. result.steps \in Seq(TraceSteps)
    BY DEF ChainInv, ChainTypeOK, Outcomes
  <2>2. LastNamed(result.steps, result.decision.source)
    BY DEF ChainInv, Accountable, TraceReturned
  <2> QED BY <2>1, <2>2, LastNamedIsMax
<1> QED BY <1>1, ChainInvariant, PTL

\* An error that a policy swallowed never goes unmarked.
THEOREM SwallowedErrorsShow == Spec => []SwallowedErrorsAreMarked
<1>1. ChainInv => SwallowedErrorsAreMarked
  BY DEF ChainInv, Accountable, Marked, TraceReturned, SwallowedErrorsAreMarked
<1> QED BY <1>1, ChainInvariant, PTL

\* No chain is ever bypassed, whatever requests its policies pass on.
THEOREM NoBypass == Spec => []NoPolicyIsBypassed
<1>1. ChainInv => NoPolicyIsBypassed
  <2> SUFFICES ASSUME ChainInv PROVE NoPolicyIsBypassed
    OBVIOUS
  <2>1. Nested(frames) /\ frames \in Seq(Frames)
    BY DEF ChainInv, Stack
  <2>2. ASSUME ReachesBase, NEW n \in DOMAIN bindings,
               \A k \in DOMAIN frames : frames[k].at # n
        PROVE  ~Accepts(bindings[n], RequestAt(n))
    <3> DEFINE Beyond == {k \in DOMAIN frames : frames[k].at > n}
    <3>0. /\ n \in Nat /\ n >= 1
          /\ \A k \in DOMAIN frames : k \in Nat /\ frames[k].at \in Nat
      <4>1. bindings \in Seq(Binding)
        BY ChainAssumption DEF ChainAssumption, ChainInv, ChainTypeOK
      <4>2. \A k \in DOMAIN frames : k \in Nat /\ frames[k] \in Frames
        BY <2>1
      <4> QED BY <4>1, <4>2 DEF Frames
    <3>1. CASE Beyond = {}
      <4>1. RequestAt(n) = asked.request
        BY <3>1 DEF RequestAt
      <4>2. n >= asked.start
        <5>1. CASE frames = <<>>
          BY <2>2, <3>0, <5>1 DEF ChainInv, Onward, ReachesBase
        <5>2. CASE frames # <<>>
          <6>1. asked.start = Top.at + 1
            BY <2>2, <5>2 DEF ChainInv, Onward, ReachesBase, Top
          <6>2. Top.at < n
            BY <2>2, <3>0, <3>1, <5>2, TopFrame DEF Top
          <6> QED BY <3>0, <5>2, <6>1, <6>2, TopFrame
        <5> QED BY <5>1, <5>2
      <4> QED BY <2>2, <4>1, <4>2 DEF ReachesBase, Matching
    <3>2. CASE Beyond # {}
      <4> DEFINE k == Min(Beyond)
      <4>1. /\ k \in DOMAIN frames /\ frames[k].at > n
            /\ \A j \in Beyond : k <= j
        BY <3>0, <3>2, MinIsLeast
      <4>2. RequestAt(n) = frames[k].request
        BY <3>2 DEF RequestAt
      <4> HIDE DEF k
      <4>3. \A j \in DOMAIN frames : j < k => frames[j].at < n
        BY <2>2, <3>0, <4>1
      <4> QED BY <2>1, <3>0, <4>1, <4>2, <4>3 DEF Nested
    <3> QED BY <3>1, <3>2
  <2> QED BY <2>1, <2>2 DEF Nested, NoPolicyIsBypassed, Accepts
<1> QED BY <1>1, ChainInvariant, PTL

=============================================================================
