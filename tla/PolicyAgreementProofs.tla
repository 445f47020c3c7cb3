------------------------ MODULE PolicyAgreementProofs ------------------------
(***************************************************************************)
(* CheckDecision and CheckTrace agree, for every list of bindings and every *)
(* behaviour of the policies.  As long as no policy has used a decision     *)
(* that only CheckDecision keeps, the two evaluations are alike: the same   *)
(* policies are under way, and have been told the same.  The decisions they *)
(* heard beside errors, and the traces, may differ.                        *)
(***************************************************************************)
EXTENDS PolicyAgreement, TLAPS

\* A sequence, of whatever elements.
IsSeq(s) == Len(s) \in Nat /\ s = [n \in 1..Len(s) |-> s[n]]

Shape(frames) ==
  /\ IsSeq(frames)
  /\ \A k \in DOMAIN frames :
       /\ DOMAIN frames[k] = {"at", "request", "heard", "next"}
       /\ IsSeq(frames[k].heard)

\* The frames of the two evaluations, one by one.
SameViews(dStack, tStack) ==
  /\ Shape(dStack) /\ Shape(tStack)
  /\ Len(dStack) = Len(tStack)
  /\ \A k \in 1..Len(dStack) : View(dStack[k]) = View(tStack[k])

AgreeInv ==
  ~overlooked =>
    /\ dDoing = tDoing /\ dAsked = tAsked
    /\ SameViews(dFrames, tFrames)
    /\ dDoing = "running" => Len(dFrames) # 0
    /\ Told(dResult) = Told(tResult)

-----------------------------------------------------------------------------
(* Sequences. *)

\* What is a sequence of some set is a sequence.
LEMMA SeqIsSeq ==
  ASSUME NEW S, NEW s \in Seq(S)
  PROVE  IsSeq(s) /\ DOMAIN s = 1..Len(s)
BY DEF IsSeq

\* A sequence of whatever elements is a sequence of those it has.
LEMMA SeqOfItsOwn ==
  ASSUME NEW s, IsSeq(s), NEW e
  PROVE  LET S == {s[n] : n \in 1..Len(s)} \cup {e} IN s \in Seq(S)
<1> DEFINE S == {s[n] : n \in 1..Len(s)} \cup {e}
           k == Len(s)
<1>1. k \in Nat /\ s = [n \in 1..k |-> s[n]]
  BY DEF IsSeq
<1>2. \A n \in 1..k : s[n] \in S
  OBVIOUS
<1> HIDE DEF S, k
<1>3. s \in [1..k -> S]
  BY <1>1, <1>2
<1> QED BY <1>1, <1>3 DEF S

\* A sequence grows by one, and loses its last.
LEMMA SeqGrows ==
  ASSUME NEW s, IsSeq(s), NEW e
  PROVE  /\ IsSeq(Append(s, e)) /\ Len(Append(s, e)) = Len(s) + 1
         /\ DOMAIN s = 1..Len(s)
         /\ Append(s, e)[Len(s) + 1] = e
         /\ \A n \in 1..Len(s) : Append(s, e)[n] = s[n]
<1> DEFINE S == {s[n] : n \in 1..Len(s)} \cup {e}
<1>1. s \in Seq(S) /\ e \in S
  BY SeqOfItsOwn
<1> HIDE DEF S
<1>2. /\ Append(s, e) \in Seq(S) /\ Len(Append(s, e)) = Len(s) + 1
      /\ Append(s, e)[Len(s) + 1] = e
      /\ \A n \in 1..Len(s) : Append(s, e)[n] = s[n]
  BY <1>1
<1> QED BY <1>1, <1>2, SeqIsSeq

LEMMA SeqShrinks ==
  ASSUME NEW s, IsSeq(s)
  PROVE  LET outer == SubSeq(s, 1, Len(s) - 1)
         IN /\ IsSeq(outer)
            /\ Len(outer) = IF Len(s) = 0 THEN 0 ELSE Len(s) - 1
            /\ \A n \in 1..Len(outer) : outer[n] = s[n]
<1> DEFINE S == {s[n] : n \in 1..Len(s)} \cup {s}
<1>1. s \in Seq(S)
  BY SeqOfItsOwn
<1> HIDE DEF S
<1> DEFINE outer == SubSeq(s, 1, Len(s) - 1)
<1>2. /\ outer \in Seq(S)
      /\ Len(outer) = IF Len(s) = 0 THEN 0 ELSE Len(s) - 1
      /\ \A n \in 1..Len(outer) : outer[n] = s[n]
  BY <1>1
<1> HIDE DEF outer
<1> QED BY <1>2, SeqIsSeq DEF outer

-----------------------------------------------------------------------------
(* What the two evaluations are told. *)

\* The values that have names mean the same in both evaluations.
LEMMA SameNames ==
  /\ Plain!NoDecision = NoDecision /\ Tracing!NoDecision = NoDecision
  /\ Plain!NoError = NoError /\ Tracing!NoError = NoError
  /\ Plain!MissingError("authorizer") = Tracing!MissingError("authorizer")
  /\ Plain!NoOutcome = Tracing!NoOutcome
  /\ Plain!NextNotCalled = Tracing!NextNotCalled
  /\ \A decision, err : Plain!Says(decision, err) = Tracing!Says(decision, err)
  /\ \A says, steps : Plain!Outcome(says, steps) = Tracing!Outcome(says, steps)
  /\ \A request, start : Plain!Ask(request, start) = Tracing!Ask(request, start)
  /\ \A S : Plain!Min(S) = Tracing!Min(S)
<1>1. /\ Plain!NoDecision = NoDecision /\ Tracing!NoDecision = NoDecision
      /\ Plain!NoError = NoError /\ Tracing!NoError = NoError
  BY DEF Plain!NoDecision, Tracing!NoDecision, NoDecision, Plain!NoPrincipal,
     Tracing!NoPrincipal, NoPrincipal, Plain!NoError, Tracing!NoError, NoError,
     Plain!Error, Tracing!Error, Error, Plain!Nil, Tracing!Nil, Nil
<1>2. Plain!MissingError("authorizer") = Tracing!MissingError("authorizer")
  BY DEF Plain!MissingError, Tracing!MissingError, Plain!Error, Tracing!Error, Plain!Nil,
     Tracing!Nil
<1>3. /\ \A decision, err : Plain!Says(decision, err) = Tracing!Says(decision, err)
      /\ \A says, steps : Plain!Outcome(says, steps) = Tracing!Outcome(says, steps)
      /\ \A request, start : Plain!Ask(request, start) = Tracing!Ask(request, start)
  BY DEF Plain!Says, Tracing!Says, Plain!Outcome, Tracing!Outcome, Plain!Ask, Tracing!Ask
<1>4. Plain!NoOutcome = Tracing!NoOutcome
  BY <1>1, <1>3 DEF Plain!NoOutcome, Tracing!NoOutcome
<1>5. Plain!NextNotCalled = Tracing!NextNotCalled
  BY <1>1 DEF Plain!NextNotCalled, Tracing!NextNotCalled
<1>6. \A S : Plain!Min(S) = Tracing!Min(S)
  BY DEF Plain!Min, Tracing!Min
<1> QED BY <1>1, <1>2, <1>3, <1>4, <1>5, <1>6

\* Two frames that are alike stay so when they hear what counts as the same.
LEMMA HearAlike ==
  ASSUME NEW d, NEW t, NEW dOut, NEW tOut,
         View(d) = View(t), Told(dOut) = Told(tOut),
         DOMAIN d = {"at", "request", "heard", "next"}, IsSeq(d.heard),
         DOMAIN t = {"at", "request", "heard", "next"}, IsSeq(t.heard)
  PROVE  /\ View(Plain!HearDecision(d, dOut)) = View(Tracing!HearTrace(t, tOut))
         /\ DOMAIN Plain!HearDecision(d, dOut) = {"at", "request", "heard", "next"}
         /\ IsSeq(Plain!HearDecision(d, dOut).heard)
         /\ DOMAIN Tracing!HearTrace(t, tOut) = {"at", "request", "heard", "next"}
         /\ IsSeq(Tracing!HearTrace(t, tOut).heard)
<1> DEFINE dSays == Plain!Says(dOut.decision, dOut.err)
           tSays == Tracing!Says(tOut.decision, tOut.err)
           dHeard == Append(d.heard, dSays)
           tHeard == Append(t.heard, tSays)
           dNew == Plain!HearDecision(d, dOut)
           tNew == Tracing!HearTrace(t, tOut)
           k == Len(d.heard)
<1>1. Told(dSays) = Told(tSays)
  BY DEF Told, Plain!Says, Tracing!Says
<1> HIDE DEF dSays, tSays
<1>2. /\ IsSeq(dHeard) /\ IsSeq(tHeard)
      /\ Len(dHeard) = Len(d.heard) + 1 /\ Len(tHeard) = Len(t.heard) + 1
      /\ dHeard[Len(d.heard) + 1] = dSays /\ tHeard[Len(t.heard) + 1] = tSays
      /\ \A n \in 1..Len(d.heard) : dHeard[n] = d.heard[n]
      /\ \A n \in 1..Len(t.heard) : tHeard[n] = t.heard[n]
      /\ DOMAIN d.heard = 1..Len(d.heard) /\ DOMAIN t.heard = 1..Len(t.heard)
  BY SeqGrows
<1> HIDE DEF dHeard, tHeard
<1>3. /\ dNew.at = d.at /\ dNew.request = d.request /\ dNew.heard = dHeard
      /\ DOMAIN dNew = {"at", "request", "heard", "next"}
  BY DEF Plain!HearDecision, dHeard, dSays
<1>4. /\ tNew.at = t.at /\ tNew.request = t.request /\ tNew.heard = tHeard
      /\ DOMAIN tNew = {"at", "request", "heard", "next"}
  BY DEF Tracing!HearTrace, tHeard, tSays
<1> HIDE DEF dNew, tNew
<1>5. /\ d.at = t.at /\ d.request = t.request
      /\ [n \in DOMAIN d.heard |-> Told(d.heard[n])]
           = [n \in DOMAIN t.heard |-> Told(t.heard[n])]
  BY DEF View
<1>6. /\ DOMAIN d.heard = DOMAIN t.heard
      /\ \A n \in DOMAIN d.heard : Told(d.heard[n]) = Told(t.heard[n])
  BY <1>5
<1>7. Len(t.heard) = k /\ k \in Nat
  BY <1>2, <1>6 DEF IsSeq
<1>8. /\ DOMAIN dHeard = 1..(k + 1) /\ DOMAIN tHeard = 1..(k + 1)
  BY <1>2, <1>7 DEF IsSeq
<1>9. \A n \in 1..(k + 1) : Told(dHeard[n]) = Told(tHeard[n])
  <2>1. \A n \in 1..(k + 1) : n \in 1..k \/ n = k + 1
    BY <1>7
  <2> QED BY <1>1, <1>2, <1>6, <1>7, <2>1
<1>10. [n \in DOMAIN dHeard |-> Told(dHeard[n])] = [n \in DOMAIN tHeard |-> Told(tHeard[n])]
  BY <1>8, <1>9
<1> QED BY <1>2, <1>3, <1>4, <1>5, <1>10 DEF View, dNew, tNew

\* A sequence is empty when it has no elements.
LEMMA EmptySeq ==
  ASSUME NEW s, IsSeq(s)
  PROVE  s = <<>> <=> Len(s) = 0
<1> DEFINE S == {s[n] : n \in 1..Len(s)} \cup {s}
<1>1. s \in Seq(S)
  BY SeqOfItsOwn
<1> HIDE DEF S
<1> QED BY <1>1

\* What is left of the stacks when the innermost policies have returned.
LEMMA OuterAlike ==
  ASSUME NEW dStack, NEW tStack, SameViews(dStack, tStack)
  PROVE  SameViews(Plain!Outer(dStack), Tracing!Outer(tStack))
<1> DEFINE d == SubSeq(dStack, 1, Len(dStack) - 1)
           t == SubSeq(tStack, 1, Len(tStack) - 1)
           k == Len(dStack)
<1>1. /\ IsSeq(dStack) /\ IsSeq(tStack) /\ Len(tStack) = k /\ k \in Nat
      /\ DOMAIN dStack = 1..k /\ DOMAIN tStack = 1..k
  <2>1. IsSeq(dStack) /\ IsSeq(tStack) /\ Len(tStack) = k
    BY DEF SameViews, Shape
  <2> QED BY <2>1 DEF IsSeq
<1>2. /\ IsSeq(d) /\ IsSeq(t)
      /\ Len(d) = IF k = 0 THEN 0 ELSE k - 1
      /\ Len(t) = IF k = 0 THEN 0 ELSE k - 1
      /\ \A n \in 1..Len(d) : d[n] = dStack[n]
      /\ \A n \in 1..Len(t) : t[n] = tStack[n]
  BY <1>1, SeqShrinks
<1> HIDE DEF d, t, k
<1>3. /\ Len(d) = Len(t) /\ DOMAIN d = 1..Len(d) /\ DOMAIN t = 1..Len(d)
      /\ \A n \in 1..Len(d) : n \in 1..k
  BY <1>1, <1>2 DEF IsSeq
<1>4. Shape(d) /\ Shape(t)
  BY <1>1, <1>2, <1>3 DEF SameViews, Shape
<1>5. \A n \in 1..Len(d) : View(d[n]) = View(t[n])
  BY <1>1, <1>2, <1>3 DEF SameViews, k
<1> QED BY <1>3, <1>4, <1>5 DEF SameViews, Plain!Outer, Tracing!Outer, d, t

\* Stacks that differ in their last elements, if at all.
LEMMA ReplaceLast ==
  ASSUME NEW stack, Shape(stack), Len(stack) # 0, NEW new,
         DOMAIN new = {"at", "request", "heard", "next"}, IsSeq(new.heard)
  PROVE  LET replaced == [stack EXCEPT ![Len(stack)] = new]
         IN /\ Shape(replaced) /\ Len(replaced) = Len(stack)
            /\ replaced[Len(stack)] = new
            /\ \A n \in 1..Len(stack) : n # Len(stack) => replaced[n] = stack[n]
<1> DEFINE S == {stack[n] : n \in 1..Len(stack)} \cup {new}
           replaced == [stack EXCEPT ![Len(stack)] = new]
<1>1. IsSeq(stack)
  BY DEF Shape
<1>2. stack \in Seq(S) /\ new \in S
  BY <1>1, SeqOfItsOwn
<1> HIDE DEF S
<1>3. Len(stack) \in Nat /\ DOMAIN stack = 1..Len(stack)
  BY <1>2
<1>4. /\ replaced \in Seq(S) /\ Len(replaced) = Len(stack)
      /\ replaced[Len(stack)] = new
      /\ \A n \in 1..Len(stack) : n # Len(stack) => replaced[n] = stack[n]
  BY <1>2
<1> HIDE DEF replaced
<1>5. IsSeq(replaced) /\ DOMAIN replaced = 1..Len(stack)
  BY <1>4, SeqIsSeq
<1>6. Shape(replaced)
  BY <1>3, <1>4, <1>5 DEF Shape
<1> QED BY <1>4, <1>6 DEF replaced

\* One policy more, the same in both.
LEMMA PushAlike ==
  ASSUME NEW dStack, NEW tStack, SameViews(dStack, tStack), NEW new,
         DOMAIN new = {"at", "request", "heard", "next"}, IsSeq(new.heard)
  PROVE  SameViews(Append(dStack, new), Append(tStack, new))
<1> DEFINE d == Append(dStack, new)
           t == Append(tStack, new)
           k == Len(dStack)
<1>1. /\ IsSeq(dStack) /\ IsSeq(tStack) /\ Len(tStack) = k
  BY DEF SameViews, Shape
<1>2. /\ IsSeq(d) /\ IsSeq(t) /\ Len(d) = k + 1 /\ Len(t) = k + 1
      /\ DOMAIN dStack = 1..k /\ DOMAIN tStack = 1..k
      /\ d[k + 1] = new /\ t[k + 1] = new
      /\ \A n \in 1..k : d[n] = dStack[n] /\ t[n] = tStack[n]
  BY <1>1, SeqGrows
<1> HIDE DEF d, t
<1>3. /\ k \in Nat /\ DOMAIN d = 1..(k + 1) /\ DOMAIN t = 1..(k + 1)
      /\ \A n \in 1..(k + 1) : n \in 1..k \/ n = k + 1
  BY <1>1, <1>2 DEF IsSeq
<1>4. \A n \in 1..k : View(dStack[n]) = View(tStack[n])
  BY DEF SameViews
<1> HIDE DEF k
<1>5. \A n \in 1..(k + 1) : View(d[n]) = View(t[n])
  BY <1>2, <1>3, <1>4
<1>6. Shape(d) /\ Shape(t)
  <2>1. /\ \A n \in DOMAIN dStack : /\ DOMAIN dStack[n] = {"at", "request", "heard", "next"}
                                   /\ IsSeq(dStack[n].heard)
        /\ \A n \in DOMAIN tStack : /\ DOMAIN tStack[n] = {"at", "request", "heard", "next"}
                                   /\ IsSeq(tStack[n].heard)
    BY DEF SameViews, Shape
  <2> HIDE DEF IsSeq
  <2> QED BY <1>2, <1>3, <2>1 DEF Shape
<1> QED BY <1>2, <1>5, <1>6 DEF SameViews, d, t

\* Outcomes that count as the same, delivered to stacks that are alike, leave
\* the evaluations alike.
LEMMA DeliverBoth ==
  ASSUME NEW dStack, NEW tStack, SameViews(dStack, tStack),
         NEW dOut, NEW tOut, Told(dOut) = Told(tOut), Told(dResult) = Told(tResult),
         Plain!Deliver(dStack, dOut), Tracing!Deliver(tStack, tOut)
  PROVE  /\ dDoing' = tDoing' /\ dDoing' # "starting"
         /\ SameViews(dFrames', tFrames')
         /\ dDoing' = "running" => Len(dFrames') # 0
         /\ Told(dResult') = Told(tResult')
<1>1. /\ Shape(dStack) /\ Shape(tStack) /\ IsSeq(dStack) /\ IsSeq(tStack)
      /\ Len(dStack) = Len(tStack) /\ Len(dStack) \in Nat
      /\ DOMAIN dStack = 1..Len(dStack) /\ DOMAIN tStack = 1..Len(dStack)
      /\ \A k \in 1..Len(dStack) : View(dStack[k]) = View(tStack[k])
  <2>1. /\ Shape(dStack) /\ Shape(tStack) /\ IsSeq(dStack) /\ IsSeq(tStack)
        /\ Len(dStack) = Len(tStack)
    BY DEF SameViews, Shape
  <2>2. \A k \in 1..Len(dStack) : View(dStack[k]) = View(tStack[k])
    BY DEF SameViews
  <2> QED BY <2>1, <2>2 DEF IsSeq
<1>2. CASE Len(dStack) = 0
  <2>1. dStack = <<>> /\ tStack = <<>>
    BY <1>1, <1>2, EmptySeq
  <2>2. /\ dDoing' = "returned" /\ dFrames' = dStack /\ dResult' = dOut
        /\ tDoing' = "returned" /\ tFrames' = tStack /\ tResult' = tOut
    BY <2>1 DEF Plain!Deliver, Tracing!Deliver
  <2> QED BY <2>2
<1>3. CASE Len(dStack) # 0
  <2> DEFINE k == Len(dStack)
             d == dStack[k]
             t == tStack[k]
             dNew == Plain!HearDecision(d, dOut)
             tNew == Tracing!HearTrace(t, tOut)
  <2>1. dStack # <<>> /\ tStack # <<>>
    BY <1>1, <1>3, EmptySeq
  <2>2. /\ dDoing' = "running" /\ dResult' = dResult
        /\ dFrames' = [dStack EXCEPT ![k] = dNew]
    <3>1. Plain!Hear(d, dOut) = dNew
      BY DEF Plain!Hear
    <3>2. dFrames' = [dStack EXCEPT ![k] = Plain!Hear(d, dOut)]
      BY <2>1 DEF Plain!Deliver
    <3> QED BY <2>1, <3>1, <3>2 DEF Plain!Deliver
  <2>3. /\ tDoing' = "running" /\ tResult' = tResult
        /\ tFrames' = [tStack EXCEPT ![k] = tNew]
    <3>1. Tracing!Hear(t, tOut) = tNew
      BY DEF Tracing!Hear
    <3>2. tFrames' = [tStack EXCEPT ![k] = Tracing!Hear(t, tOut)]
      BY <1>1, <2>1 DEF Tracing!Deliver
    <3> QED BY <2>1, <3>1, <3>2 DEF Tracing!Deliver
  <2>4. /\ View(d) = View(t)
        /\ DOMAIN d = {"at", "request", "heard", "next"} /\ IsSeq(d.heard)
        /\ DOMAIN t = {"at", "request", "heard", "next"} /\ IsSeq(t.heard)
    BY <1>1, <1>3 DEF Shape
  <2>5. /\ View(dNew) = View(tNew)
        /\ DOMAIN dNew = {"at", "request", "heard", "next"} /\ IsSeq(dNew.heard)
        /\ DOMAIN tNew = {"at", "request", "heard", "next"} /\ IsSeq(tNew.heard)
    <3>1. Told(dOut) = Told(tOut)
      OBVIOUS
    <3> HIDE DEF d, t
    <3> QED BY <2>4, <3>1, HearAlike
  <2> HIDE DEF dNew, tNew
  <2>6. /\ Shape(dFrames') /\ Len(dFrames') = k
        /\ dFrames'[k] = dNew
        /\ \A n \in 1..k : n # k => dFrames'[n] = dStack[n]
    BY <1>1, <1>3, <2>2, <2>5, ReplaceLast
  <2>7. /\ Shape(tFrames') /\ Len(tFrames') = k
        /\ tFrames'[k] = tNew
        /\ \A n \in 1..k : n # k => tFrames'[n] = tStack[n]
    <3>1. k = Len(tStack)
      BY <1>1
    <3> HIDE DEF k
    <3>2. tFrames' = [tStack EXCEPT ![Len(tStack)] = tNew]
      BY <2>3, <3>1
    <3>3. Len(tStack) # 0
      BY <1>1, <1>3
    <3> QED BY <1>1, <2>5, <3>1, <3>2, <3>3, ReplaceLast
  <2>8. \A n \in 1..k : View(dFrames'[n]) = View(tFrames'[n])
    BY <1>1, <2>5, <2>6, <2>7
  <2> QED BY <1>3, <2>2, <2>3, <2>6, <2>7, <2>8 DEF SameViews
<1> QED BY <1>2, <1>3

-----------------------------------------------------------------------------
(* The steps. *)

\* The innermost policies of evaluations that are alike.
LEMMA TopsAlike ==
  ASSUME SameViews(dFrames, tFrames), Len(dFrames) # 0
  PROVE  /\ Plain!Top.at = Tracing!Top.at
         /\ DOMAIN Plain!Top.heard = DOMAIN Tracing!Top.heard
         /\ \A n \in DOMAIN Plain!Top.heard :
              Told(Plain!Top.heard[n]) = Told(Tracing!Top.heard[n])
<1>1. /\ Len(dFrames) \in 1..Len(dFrames) /\ Len(dFrames) = Len(tFrames)
      /\ Plain!Top = dFrames[Len(dFrames)] /\ Tracing!Top = tFrames[Len(dFrames)]
  BY DEF SameViews, Shape, IsSeq, Plain!Top, Tracing!Top
<1>2. View(Plain!Top) = View(Tracing!Top)
  BY <1>1 DEF SameViews
<1> HIDE DEF Plain!Top, Tracing!Top
<1>3. /\ Plain!Top.at = Tracing!Top.at
      /\ [n \in DOMAIN Plain!Top.heard |-> Told(Plain!Top.heard[n])]
           = [n \in DOMAIN Tracing!Top.heard |-> Told(Tracing!Top.heard[n])]
  BY <1>2 DEF View
<1> QED BY <1>3

\* Policies that return what counts as the same leave the evaluations alike.
LEMMA ReturnBoth ==
  ASSUME AgreeInv, ~overlooked, NEW dSays, NEW tSays, Told(dSays) = Told(tSays),
         Plain!Return(dSays), Tracing!Return(tSays)
  PROVE  AgreeInv'
<1> DEFINE dOut == Plain!Outcome(dSays, <<>>)
           tOut == Tracing!Traced(Tracing!Top, tSays)
<1>1. /\ dAsked = tAsked /\ SameViews(dFrames, tFrames) /\ Told(dResult) = Told(tResult)
  BY DEF AgreeInv
<1>2. /\ Plain!Deliver(Plain!Outer(dFrames), dOut) /\ dAsked' = dAsked
      /\ Tracing!Deliver(Tracing!Outer(tFrames), tOut) /\ tAsked' = tAsked
  BY DEF Plain!Return, Plain!ReturnDecision, Plain!ReturnTrace,
         Tracing!Return, Tracing!ReturnDecision, Tracing!ReturnTrace
<1>3. Told(dOut) = Told(tOut)
  <2>1. dOut.err = dSays.err /\ dOut.decision = dSays.decision
    BY DEF Plain!Outcome
  <2>2. /\ tOut.err = tSays.err
        /\ tSays.err = NoError => tOut.decision = tSays.decision
    BY SameNames DEF Tracing!Traced, Tracing!Outcome, Tracing!Says
  <2>3. Told(dOut) = Told(dSays)
    BY <2>1 DEF Told
  <2>4. Told(tOut) = Told(tSays)
    BY <2>2 DEF Told
  <2> QED BY <2>3, <2>4
<1> HIDE DEF dOut, tOut
<1>4. SameViews(Plain!Outer(dFrames), Tracing!Outer(tFrames))
  BY <1>1, OuterAlike
<1>5. /\ dDoing' = tDoing' /\ SameViews(dFrames', tFrames')
      /\ dDoing' = "running" => Len(dFrames') # 0
      /\ Told(dResult') = Told(tResult')
  BY <1>1, <1>2, <1>3, <1>4, DeliverBoth
<1>6. SameViews(dFrames, tFrames)' /\ (Told(dResult) = Told(tResult))'
  BY <1>5 DEF SameViews, Shape, IsSeq, View, Told, Plain!Says
<1> QED BY <1>1, <1>2, <1>5, <1>6 DEF AgreeInv

\* What the base returns reaches both evaluations.
LEMMA BaseBoth ==
  ASSUME AgreeInv, ~overlooked, NEW says, NEW dSteps, NEW tSteps,
         Plain!BaseReturns(says, dSteps), Tracing!BaseReturns(says, tSteps)
  PROVE  AgreeInv'
<1> DEFINE dOut == Plain!Outcome(says, <<>>)
           tOut == Tracing!Outcome(says, tSteps)
<1>1. /\ dAsked = tAsked /\ SameViews(dFrames, tFrames) /\ Told(dResult) = Told(tResult)
  BY DEF AgreeInv
<1>2. /\ Plain!Deliver(dFrames, dOut) /\ dAsked' = dAsked
      /\ Tracing!Deliver(tFrames, tOut) /\ tAsked' = tAsked
  BY DEF Plain!BaseReturns, Tracing!BaseReturns
<1>3. Told(dOut) = Told(tOut)
  BY DEF Told, Plain!Outcome, Tracing!Outcome
<1> HIDE DEF dOut, tOut
<1>4. /\ dDoing' = tDoing' /\ SameViews(dFrames', tFrames')
      /\ dDoing' = "running" => Len(dFrames') # 0
      /\ Told(dResult') = Told(tResult')
  BY <1>1, <1>2, <1>3, DeliverBoth
<1>5. SameViews(dFrames, tFrames)' /\ (Told(dResult) = Told(tResult))'
  BY <1>4 DEF SameViews, Shape, IsSeq, View, Told, Plain!Says
<1> QED BY <1>1, <1>2, <1>4, <1>5 DEF AgreeInv

\* The two recursions choose the same policy, or both miss their base.
LEMMA WalkKeeps ==
  ASSUME AgreeInv, ~overlooked, Plain!Walk, Tracing!Walk
  PROVE  AgreeInv'
<1>1. /\ dAsked = tAsked /\ SameViews(dFrames, tFrames) /\ Told(dResult) = Told(tResult)
  BY DEF AgreeInv
<1>2. CASE Plain!MissBase
  <2> DEFINE out ==
        Plain!Outcome(Plain!Says(NoDecision, Plain!MissingError("authorizer")), <<>>)
  <2>1. Tracing!MissBase
    BY <1>2 DEF Plain!MissBase, Tracing!Walk, Tracing!RunPolicy, Tracing!TracePolicy
  <2>2. Tracing!Outcome(Tracing!Says(NoDecision, Tracing!MissingError("authorizer")), <<>>)
          = out
    BY SameNames
  <2>3. /\ Plain!Deliver(dFrames, out) /\ dAsked' = dAsked
        /\ Tracing!Deliver(tFrames, out) /\ tAsked' = tAsked
    BY <1>2, <2>1, <2>2, SameNames DEF Plain!MissBase, Tracing!MissBase
  <2> HIDE DEF out
  <2>4. /\ dDoing' = tDoing' /\ SameViews(dFrames', tFrames')
        /\ dDoing' = "running" => Len(dFrames') # 0
        /\ Told(dResult') = Told(tResult')
    BY <1>1, <2>3, DeliverBoth
  <2>5. SameViews(dFrames, tFrames)' /\ (Told(dResult) = Told(tResult))'
    BY <2>4 DEF SameViews, Shape, IsSeq, View, Told, Plain!Says
  <2> QED BY <1>1, <2>3, <2>4, <2>5 DEF AgreeInv
<1>3. CASE Plain!RunPolicy
  <2>1. Tracing!TracePolicy
    BY <1>3 DEF Plain!RunPolicy, Tracing!Walk, Tracing!RunPolicy, Tracing!MissBase
  <2> DEFINE n == Plain!Min(Plain!Matching(dAsked))
             new == Plain!Frame(n, dAsked.request)
  <2>2. Tracing!Matching(tAsked) = Plain!Matching(dAsked)
    BY <1>1 DEF Plain!Matching, Tracing!Matching, Plain!Accepts, Tracing!Accepts
  <2>3. Tracing!Frame(Tracing!Min(Tracing!Matching(tAsked)), tAsked.request) = new
    BY <1>1, <2>2, SameNames DEF Plain!Frame, Tracing!Frame
  <2>4. /\ dFrames' = Append(dFrames, new) /\ tFrames' = Append(tFrames, new)
        /\ dDoing' = "running" /\ tDoing' = "running"
        /\ UNCHANGED <<dAsked, tAsked, dResult, tResult>>
    BY <1>3, <2>1, <2>3 DEF Plain!RunPolicy, Tracing!TracePolicy
  <2>5. /\ DOMAIN new = {"at", "request", "heard", "next"} /\ IsSeq(new.heard)
    BY DEF Plain!Frame, IsSeq
  <2> HIDE DEF new
  <2>6. SameViews(Append(dFrames, new), Append(tFrames, new))
    BY <1>1, <2>5, PushAlike
  <2>7. Len(Append(dFrames, new)) # 0
    BY <1>1, SeqGrows DEF SameViews, Shape, IsSeq
  <2>8. SameViews(dFrames', tFrames') /\ Told(dResult') = Told(tResult')
    BY <1>1, <2>4, <2>6
  <2>9. SameViews(dFrames, tFrames)' /\ (Told(dResult) = Told(tResult))'
    BY <2>8 DEF SameViews, Shape, IsSeq, View, Told, Plain!Says
  <2> QED BY <1>1, <2>4, <2>7, <2>9 DEF AgreeInv
<1>4. ~Plain!TracePolicy
  BY DEF Plain!TracePolicy
<1> QED BY <1>2, <1>3, <1>4 DEF Plain!Walk

\* Both policies call next, with the same request.
LEMMA CallNextKeeps ==
  ASSUME AgreeInv, ~overlooked, NEW request,
         Plain!CallNext(request), Tracing!CallNext(request)
  PROVE  AgreeInv'
<1>1. /\ dAsked = tAsked /\ SameViews(dFrames, tFrames) /\ Told(dResult) = Told(tResult)
      /\ Len(dFrames) # 0
  BY DEF AgreeInv, Plain!CallNext
<1>2. /\ dDoing' = "starting" /\ tDoing' = "starting"
      /\ dAsked' = Plain!Ask(request, Plain!NextDecision(Plain!Top))
      /\ tAsked' = Tracing!Ask(request, Tracing!NextTrace(Tracing!Top))
      /\ UNCHANGED <<dFrames, tFrames, dResult, tResult>>
  BY DEF Plain!CallNext, Tracing!CallNext
<1>3. dAsked' = tAsked'
  BY <1>1, <1>2, TopsAlike, SameNames DEF Plain!NextDecision, Tracing!NextTrace
<1>4. SameViews(dFrames', tFrames') /\ Told(dResult') = Told(tResult')
  BY <1>1, <1>2
<1>5. SameViews(dFrames, tFrames)' /\ (Told(dResult) = Told(tResult))'
  BY <1>4 DEF SameViews, Shape, IsSeq, View, Told, Plain!Says
<1> QED BY <1>2, <1>3, <1>5 DEF AgreeInv

\* Whatever the two policies return, told the same.
LEMMA ReturnsKeep ==
  ASSUME AgreeInv, ~overlooked
  PROVE  /\ \A decision : DecideBoth(decision) => AgreeInv'
         /\ \A decision, err : FailBoth(decision, err) => AgreeInv'
         /\ \A n : PassOnBoth(n) => AgreeInv'
         /\ \A n : OverlookBoth(n) /\ ~overlooked' => AgreeInv'
<1>1. ASSUME NEW decision, DecideBoth(decision) PROVE AgreeInv'
  <2> DEFINE says == Plain!Says(decision, NoError)
  <2>1. Plain!Return(says) /\ Tracing!Return(says)
    BY <1>1, SameNames DEF DecideBoth, Plain!Decide, Tracing!Decide
  <2> QED BY <2>1, ReturnBoth
<1>2. ASSUME NEW decision, NEW err, FailBoth(decision, err) PROVE AgreeInv'
  <2> DEFINE says == Plain!Says(decision, err)
  <2>1. Plain!Return(says) /\ Tracing!Return(says)
    BY <1>2, SameNames DEF FailBoth, Plain!Fail, Tracing!Fail
  <2> QED BY <2>1, ReturnBoth
<1>3. ASSUME NEW n \in Plain!Calls
      PROVE  Told(Plain!Top.heard[n]) = Told(Tracing!Top.heard[n])
  <2>1. dDoing = "running" /\ n \in DOMAIN Plain!Top.heard
    BY <1>3 DEF Plain!Calls
  <2>2. SameViews(dFrames, tFrames) /\ Len(dFrames) # 0
    BY <2>1 DEF AgreeInv
  <2> QED BY <2>1, <2>2, TopsAlike
<1>4. ASSUME NEW n, PassOnBoth(n) PROVE AgreeInv'
  <2>1. /\ n \in Plain!Calls
        /\ Plain!Return(Plain!Top.heard[n]) /\ Tracing!Return(Tracing!Top.heard[n])
    BY <1>4 DEF PassOnBoth, Plain!PassOn, Tracing!PassOn
  <2> QED BY <1>3, <2>1, ReturnBoth
<1>5. ASSUME NEW n, OverlookBoth(n), ~overlooked' PROVE AgreeInv'
  <2> DEFINE says == Plain!Says(Plain!Top.heard[n].decision, NoError)
  <2>1. Plain!Top.heard[n].decision = Tracing!Top.heard[n].decision
    BY <1>5 DEF OverlookBoth
  <2>2. Plain!Return(says) /\ Tracing!Return(says)
    BY <1>5, <2>1, SameNames DEF OverlookBoth, Plain!Overlook, Tracing!Overlook
  <2> HIDE DEF says
  <2> QED BY <2>2, ReturnBoth
<1> QED BY <1>1, <1>2, <1>4, <1>5

\* Two evaluations of one request start alike.
LEMMA InitAgrees == Init => AgreeInv
<1> SUFFICES ASSUME Init PROVE AgreeInv
  OBVIOUS
<1>1. /\ dDoing = "starting" /\ tDoing = "starting" /\ dAsked = tAsked
      /\ dFrames = <<>> /\ tFrames = <<>>
      /\ dResult = Plain!NoOutcome /\ tResult = Tracing!NoOutcome
  BY DEF Init, Plain!Init, Tracing!Init
<1>2. Plain!NoOutcome = Tracing!NoOutcome
  BY SameNames
<1>3. SameViews(<<>>, <<>>)
  BY DEF SameViews, Shape, IsSeq
<1> QED BY <1>1, <1>2, <1>3 DEF AgreeInv

\* Evaluations that are alike stay so, until a decision is overlooked.
LEMMA NextAgrees == AgreeInv /\ [Next]_vars => AgreeInv'
<1> SUFFICES ASSUME AgreeInv, [Next]_vars, ~overlooked' PROVE AgreeInv'
  BY DEF AgreeInv
<1>1. ~overlooked
  BY DEF Next, Together, WalkBoth, BaseDecidesBoth, BaseFailsBoth, CallNextBoth, DecideBoth,
     FailBoth, PassOnBoth, OverlookBoth, Apart, Done, vars
<1>2. CASE Together
  <2>1. CASE WalkBoth
    BY <1>1, <2>1, WalkKeeps DEF WalkBoth
  <2>2. ASSUME NEW decision, BaseDecidesBoth(decision) PROVE AgreeInv'
    <3> DEFINE says == Plain!Says(decision, NoError)
    <3>1. \E dSteps, tSteps :
            Plain!BaseReturns(says, dSteps) /\ Tracing!BaseReturns(says, tSteps)
      BY <2>2, SameNames DEF BaseDecidesBoth, Plain!BaseDecides, Tracing!BaseDecides
    <3> QED BY <1>1, <3>1, BaseBoth
  <2>3. ASSUME NEW err, NEW steps, BaseFailsBoth(err, steps) PROVE AgreeInv'
    <3> DEFINE says == Plain!Says(NoDecision, err)
    <3>1. Plain!BaseReturns(says, steps) /\ Tracing!BaseReturns(says, steps)
      BY <2>3, SameNames DEF BaseFailsBoth, Plain!BaseFails, Tracing!BaseFails
    <3> QED BY <1>1, <3>1, BaseBoth
  <2>4. ASSUME NEW request, CallNextBoth(request) PROVE AgreeInv'
    BY <1>1, <2>4, CallNextKeeps DEF CallNextBoth
  <2> QED BY <1>1, <1>2, <2>1, <2>2, <2>3, <2>4, ReturnsKeep DEF Together
<1>3. CASE Apart
  <2>1. Views(dFrames) = Views(tFrames)
    BY <1>1 DEF AgreeInv, SameViews, Shape, IsSeq, Views
  <2> QED BY <1>1, <1>3, <2>1 DEF AgreeInv, Apart, Alike
<1>4. CASE UNCHANGED vars
  <2>1. /\ dDoing' = dDoing /\ dAsked' = dAsked /\ dFrames' = dFrames /\ dResult' = dResult
        /\ tDoing' = tDoing /\ tAsked' = tAsked /\ tFrames' = tFrames /\ tResult' = tResult
    BY <1>4 DEF vars, dVars, tVars
  <2>2. SameViews(dFrames', tFrames') /\ Told(dResult') = Told(tResult')
    BY <1>1, <2>1 DEF AgreeInv
  <2> QED BY <1>1, <2>1, <2>2 DEF AgreeInv, SameViews, Shape, IsSeq, View, Told, Plain!Says
<1> QED BY <1>2, <1>3, <1>4 DEF Next, Done

-----------------------------------------------------------------------------
(* The theorem. *)

\* CheckDecision and CheckTrace return the same, for every list of bindings and
\* every behaviour of policies and base, unless some policy used a decision that
\* it heard beside an error and that only CheckDecision had for it.
THEOREM CallsAgree == Spec => []CheckAndTraceAgree
<1>1. AgreeInv => CheckAndTraceAgree
  BY DEF AgreeInv, CheckAndTraceAgree
<1> QED BY <1>1, InitAgrees, NextAgrees, PTL DEF Spec

=============================================================================
