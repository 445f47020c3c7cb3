---------------------------- MODULE BuilderProofs ----------------------------
(***************************************************************************)
(* Proofs about builders, for any number of them and calls of any kind in   *)
(* any order.  The heap of context nodes only grows, and a node points to    *)
(* an older one: so a walk from a context ends, and finds the same values    *)
(* for ever.  A check keeps to the builder it was called on.                *)
(***************************************************************************)
EXTENDS BuilderProperties, NaturalLemmas

-----------------------------------------------------------------------------
(* The walk through a heap. *)

\* Every node points to an older one, or is the last.
WellFormed(heap) ==
  /\ Len(heap) \in Nat
  /\ \A n \in 1..Len(heap) : heap[n].parent \in 0..(n - 1)

\* What a walk finds from a context, given what it finds from an older one.
Visit(node, context, older) ==
  [key \in Keys |->
     IF context = NoContext THEN Absent
     ELSE IF node.key = key THEN node.value
     ELSE older[key]]

\* What walks find from each of the contexts up to m, given f.
Walk(f, heap, m) ==
  [context \in 0..m |-> Visit(heap[context], context, f[heap[context].parent])]

FindIn(heap) == CHOOSE f : f = Walk(f, heap, Len(heap))

\* Find is the walk through the nodes, before a step and after it.
LEMMA FindIsFindIn == Find = FindIn(nodes) /\ Find' = FindIn(nodes')
<1>1. Find = FindIn(nodes)
  BY Zenon DEF Find, FindIn, Walk, Visit
<1>2. Find' = FindIn(nodes')
  BY Zenon DEF Find, FindIn, Walk, Visit
<1> QED BY <1>1, <1>2

\* From the zero context a walk finds nothing.
LEMMA VisitFirst == \A node, older : Visit(node, NoContext, older) = [key \in Keys |-> Absent]
BY DEF Visit

\* The walks from the first m contexts are defined by one another.
LEMMA WalkExists ==
  ASSUME NEW heap, WellFormed(heap)
  PROVE  \A m \in 0..Len(heap) : \E f : f = Walk(f, heap, m)
<1> DEFINE T == {m \in 0..Len(heap) : ~ \E f : f = Walk(f, heap, m)}
<1> SUFFICES ASSUME T # {} PROVE FALSE
  OBVIOUS
<1>1. T \subseteq Nat
  BY DEF WellFormed
<1>2. PICK m \in T : \A n \in T : m <= n
  <2> HIDE DEF T
  <2> QED BY <1>1, LeastNat
<1>3. m \in 0..Len(heap) /\ m \in Nat
  BY <1>1
<1>4. CASE m = 0
  <2> DEFINE f == [context \in 0..0 |-> [key \in Keys |-> Absent]]
  <2>1. f = Walk(f, heap, 0)
    <3>1. \A context \in 0..0 : context = NoContext
      BY DEF NoContext
    <3> QED BY <3>1, VisitFirst DEF Walk
  <2> QED BY <1>4, <2>1
<1>5. CASE m # 0
  <2>1. m - 1 \in 0..Len(heap) /\ m - 1 \notin T
    BY <1>2, <1>3, <1>5 DEF WellFormed
  <2>2. PICK g : g = Walk(g, heap, m - 1)
    BY <2>1
  <2> DEFINE f == [context \in 0..m |->
                     IF context = m THEN Visit(heap[m], m, g[heap[m].parent])
                     ELSE g[context]]
  <2>3. \A context \in 0..m : context # NoContext => heap[context].parent \in 0..(context - 1)
    BY <1>3 DEF WellFormed, NoContext
  <2>4. \A n \in 0..(m - 1) : f[n] = g[n]
    BY <1>3
  <2>5. \A context \in 0..m :
          Visit(heap[context], context, f[heap[context].parent])
            = Visit(heap[context], context, g[heap[context].parent])
    <3>1. ASSUME NEW context \in 0..m, context # NoContext
          PROVE  f[heap[context].parent] = g[heap[context].parent]
      BY <1>3, <2>3, <2>4, <3>1
    <3> QED BY <3>1, VisitFirst
  <2>6. \A context \in 0..m : f[context] = Visit(heap[context], context, g[heap[context].parent])
    <3>1. \A context \in 0..(m - 1) :
            g[context] = Visit(heap[context], context, g[heap[context].parent])
      BY <2>2 DEF Walk
    <3> QED BY <1>3, <3>1
  <2>7. \A context \in 0..m : f[context] = Walk(f, heap, m)[context]
    BY <2>5, <2>6 DEF Walk
  <2>8. f = Walk(f, heap, m)
    BY <2>7 DEF Walk
  <2> QED BY <2>8
<1> QED BY <1>4, <1>5

\* What a walk finds depends on the nodes it comes by, and on nothing else.
LEMMA WalkIsOne ==
  ASSUME NEW old, WellFormed(old), NEW new, WellFormed(new), Len(old) <= Len(new),
         \A n \in 1..Len(old) : new[n] = old[n],
         NEW f, f = Walk(f, old, Len(old)),
         NEW g, g = Walk(g, new, Len(new))
  PROVE  \A context \in 0..Len(old) : g[context] = f[context]
<1> DEFINE T == {context \in 0..Len(old) : g[context] # f[context]}
<1> SUFFICES ASSUME T # {} PROVE FALSE
  OBVIOUS
<1>1. T \subseteq Nat
  BY DEF WellFormed
<1>2. PICK c \in T : \A n \in T : c <= n
  <2> HIDE DEF T
  <2> QED BY <1>1, LeastNat
<1>3. c \in 0..Len(old) /\ c \in 0..Len(new)
  BY DEF WellFormed
<1>4. /\ f[c] = Walk(f, old, Len(old))[c]
      /\ g[c] = Walk(g, new, Len(new))[c]
  OBVIOUS
<1>5. CASE c = NoContext
  BY <1>3, <1>4, <1>5, VisitFirst DEF Walk
<1>6. CASE c # NoContext
  <2>1. new[c] = old[c] /\ old[c].parent \in 0..(c - 1)
    BY <1>3, <1>6 DEF WellFormed, NoContext
  <2>2. g[old[c].parent] = f[old[c].parent]
    <3>1. old[c].parent \in 0..Len(old) /\ ~(c <= old[c].parent)
      BY <1>3, <2>1 DEF WellFormed, NoContext
    <3>2. old[c].parent \notin T
      BY <1>2, <3>1
    <3> QED BY <3>1, <3>2
  <2>3. g[c] = f[c]
    BY <1>3, <1>4, <2>1, <2>2 DEF Walk
  <2> QED BY <2>3
<1> QED BY <1>5, <1>6

\* FindIn is the walk it is meant to be.
LEMMA FindInWalks ==
  ASSUME NEW heap, WellFormed(heap)
  PROVE  FindIn(heap) = Walk(FindIn(heap), heap, Len(heap))
<1>1. \E f : f = Walk(f, heap, Len(heap))
  BY WalkExists DEF WellFormed
<1> QED BY <1>1 DEF FindIn

\* What a walk finds from the zero context, and from any other.
LEMMA FindInUnfolds ==
  ASSUME NEW heap, WellFormed(heap)
  PROVE  /\ FindIn(heap)[NoContext] = [key \in Keys |-> Absent]
         /\ \A n \in 1..Len(heap) :
              FindIn(heap)[n] = [key \in Keys |->
                IF heap[n].key = key THEN heap[n].value
                ELSE FindIn(heap)[heap[n].parent][key]]
<1> DEFINE find == FindIn(heap)
<1>1. find = Walk(find, heap, Len(heap))
  BY FindInWalks
<1>2. 0 \in 0..Len(heap) /\ \A n \in 1..Len(heap) : n \in 0..Len(heap) /\ n # 0
  BY DEF WellFormed
<1> HIDE DEF find
<1>3. \A context \in 0..Len(heap) :
        find[context] = Visit(heap[context], context, find[heap[context].parent])
  BY <1>1 DEF Walk
<1>4. find[NoContext] = [key \in Keys |-> Absent]
  BY <1>2, <1>3, VisitFirst DEF NoContext
<1>5. ASSUME NEW n \in 1..Len(heap)
      PROVE  find[n] = [key \in Keys |-> IF heap[n].key = key THEN heap[n].value
                                        ELSE find[heap[n].parent][key]]
  <2>1. find[n] = Visit(heap[n], n, find[heap[n].parent])
    BY <1>2, <1>3
  <2> QED BY <1>2, <2>1 DEF Visit, NoContext
<1> QED BY <1>4, <1>5 DEF find

\* Nodes that are added change nothing for the contexts there were.
LEMMA FindInKept ==
  ASSUME NEW old, WellFormed(old), NEW new, WellFormed(new), Len(old) <= Len(new),
         \A n \in 1..Len(old) : new[n] = old[n]
  PROVE  \A context \in 0..Len(old) : FindIn(new)[context] = FindIn(old)[context]
BY FindInWalks, WalkIsOne

-----------------------------------------------------------------------------
(* The inductive invariant. *)

Builders == [many : BOOLEAN, request : Requests, actions : ActionLists \cup {<<>>}]

HeapInv ==
  /\ nodes \in Seq([parent : Nat, key : Keys, value : Values])
  /\ WellFormed(nodes)

\* An action's report agrees with what the authorizer said.
Tells(decided, says) ==
  /\ decided.err = says.err
  /\ decided.err = "none" => decided.decision = says.decision
  /\ decided.allowed <=> says.err = "none" /\ says.decision = "allow"

\* What is reported of the first k results.
Reported(decisions, results, k) ==
  /\ DOMAIN decisions = {results[n].action : n \in 1..k}
  /\ \A n \in 1..k :
       (\A m \in (n + 1)..k : results[m].action # results[n].action) =>
         Tells(decisions[results[n].action], results[n].says)

AskedAbout(values) == [request : Requests, found : {values}]

CheckInv ==
  /\ DOMAIN check = DOMAIN NoCheck
  /\ check.builder \in 0..Len(builders)
  /\ ~Underway => check = NoCheck
  /\ Underway =>
       /\ check.values = Contents(builders[check.builder].request.context)
       /\ check.requests = RequestsOf(builders[check.builder])
       /\ check.asked \in Seq(AskedAbout(check.values))
       /\ Len(check.asked) <= Len(check.requests)
       /\ \A n \in 1..Len(check.asked) : check.asked[n].request = check.requests[n]
       /\ check.results \in Seq(Results)
       /\ check.reported \in 0..Len(check.results)
       /\ Reported(check.decisions, check.results, check.reported)
       /\ authorizer = "batch" /\ ~check.answered => check.reported = 0
       /\ Many /\ authorizer = "plain" =>
            /\ Len(check.asked) = check.reported /\ Len(check.results) = check.reported
            /\ \A n \in 1..check.reported :
                 check.results[n].action = check.requests[n].action

BuilderInv ==
  /\ authorizer \in {"nil", "plain", "batch"}
  /\ HeapInv
  /\ builders \in Seq(Builders)
  /\ CheckInv

-----------------------------------------------------------------------------
(* What a step does to the heap and to the builders there are. *)

\* Calls leave the nodes there are as they are.
LEMMA HeapGrows ==
  ASSUME BuilderInv, [Next]_vars
  PROVE  /\ HeapInv'
         /\ Len(nodes) <= Len(nodes')
         /\ \A n \in 1..Len(nodes) : nodes'[n] = nodes[n]
<1>1. CASE UNCHANGED nodes
  BY <1>1 DEF BuilderInv, HeapInv, WellFormed
<1>2. ASSUME NEW n \in DOMAIN builders, NEW key \in Keys, NEW value \in Values,
             WithValue(n, key, value)
      PROVE  /\ HeapInv'
             /\ Len(nodes) <= Len(nodes')
             /\ \A k \in 1..Len(nodes) : nodes'[k] = nodes[k]
  <2> DEFINE context == builders[n].request.context
             node == Node(context, key, value)
  <2>1. builders[n] \in Builders
    BY DEF BuilderInv
  <2>2. context \in 0..Len(nodes)
    BY <2>1 DEF Builders, Requests
  <2>3. nodes' = Append(nodes, node)
    BY <1>2 DEF WithValue, With
  <2>4. node \in [parent : Nat, key : Keys, value : Values] /\ node.parent = context
    BY <2>2 DEF Node, BuilderInv, HeapInv, WellFormed
  <2> HIDE DEF node, context
  <2> QED BY <2>2, <2>3, <2>4 DEF BuilderInv, HeapInv, WellFormed
<1> QED BY <1>1, <1>2 DEF Next, For, DeriveFrom, Can, CanMany, On, Within, WithContext,
   StartCheck, AskSingle, AskOne, AskAll, ReportOne, EndCheck, vars

\* What a context holds it holds for ever.
LEMMA ContentsKept ==
  ASSUME BuilderInv, [Next]_vars
  PROVE  \A context \in 0..Len(nodes) : Contents(context)' = Contents(context)
<1>1. \A context \in 0..Len(nodes) : FindIn(nodes')[context] = FindIn(nodes)[context]
  BY HeapGrows, FindInKept DEF BuilderInv, HeapInv
<1> QED BY <1>1, FindIsFindIn DEF Contents

\* A request is one for ever.
LEMMA RequestsGrow ==
  ASSUME BuilderInv, [Next]_vars
  PROVE  Requests \subseteq Requests' /\ Builders \subseteq Builders'
<1>1. 0..Len(nodes) \subseteq 0..Len(nodes')
  BY HeapGrows DEF BuilderInv, HeapInv, WellFormed
<1> QED BY <1>1 DEF Requests, Builders

Deriving ==
  \/ \E subject \in Subjects : For(subject)
  \/ \E n \in DOMAIN builders : DeriveFrom(n)

\* A call makes one more builder, and does nothing to a check.
LEMMA DerivingAppends ==
  ASSUME BuilderInv, Deriving
  PROVE  /\ \E b \in Builders' : builders' = Append(builders, b)
         /\ UNCHANGED <<authorizer, check>>
<1>1. [Next]_vars
  BY DEF Deriving, Next
<1>2. 0 \in 0..Len(nodes') /\ 0..Len(nodes) \subseteq 0..Len(nodes')
  BY <1>1, HeapGrows DEF BuilderInv, HeapInv, WellFormed
<1>3. CASE \E subject \in Subjects : For(subject)
  <2>1. \A subject \in Subjects : NewBuilder(subject) \in Builders'
    BY <1>2 DEF NewBuilder, Request, Builders, Requests, NoContext
  <2> QED BY <1>3, <2>1 DEF For, Derive
<1>4. ASSUME NEW n \in DOMAIN builders, DeriveFrom(n)
      PROVE  /\ \E b \in Builders' : builders' = Append(builders, b)
             /\ UNCHANGED <<authorizer, check>>
  <2>1. builders[n] \in Builders /\ builders[n] \in Builders'
    BY <1>1, RequestsGrow DEF BuilderInv
  <2>2. ASSUME NEW action \in Actions, Can(n, action)
        PROVE  [builders[n] EXCEPT !.request.action = action] \in Builders'
    BY <2>1 DEF Builders, Requests
  <2>3. ASSUME NEW actions \in ActionLists, CanMany(n, actions)
        PROVE  [builders[n] EXCEPT !.many = TRUE, !.actions = actions] \in Builders'
    BY <2>1 DEF Builders
  <2>4. ASSUME NEW resource \in Resources
        PROVE  [builders[n] EXCEPT !.request.resource = resource] \in Builders'
    BY <2>1 DEF Builders, Requests
  <2>5. ASSUME NEW scope \in Scopes
        PROVE  [builders[n] EXCEPT !.request.scope = scope] \in Builders'
    BY <2>1 DEF Builders, Requests
  <2>6. ASSUME NEW other \in {0} \cup DOMAIN builders
        PROVE  [builders[n] EXCEPT !.request.context =
                  IF other = 0 THEN NoContext ELSE builders[other].request.context]
                 \in Builders'
    <3>1. other # 0 => builders[other] \in Builders'
      BY <1>1, RequestsGrow DEF BuilderInv
    <3>2. (IF other = 0 THEN NoContext ELSE builders[other].request.context)
            \in 0..Len(nodes')
      BY <1>2, <3>1 DEF Builders, Requests, NoContext
    <3> QED BY <2>1, <3>2 DEF Builders, Requests
  <2>7. ASSUME NEW key \in Keys, NEW value \in Values, WithValue(n, key, value)
        PROVE  LET with == With(builders[n].request.context, key, value)
               IN [builders[n] EXCEPT !.request.context = with.context] \in Builders'
    <3>1. nodes' = Append(nodes, Node(builders[n].request.context, key, value))
      BY <2>7 DEF WithValue, With
    <3>2. Len(nodes) + 1 \in 0..Len(nodes')
      BY <3>1 DEF BuilderInv, HeapInv
    <3> QED BY <2>1, <3>2 DEF Builders, Requests, With
  <2> QED BY <1>4, <2>2, <2>3, <2>4, <2>5, <2>6, <2>7
    DEF DeriveFrom, Can, CanMany, On, Within, WithContext, WithValue, Derive
<1> QED BY <1>3, <1>4 DEF Deriving

\* A check goes on as it was when more builders are made.
LEMMA DerivingKeeps == BuilderInv /\ Deriving => BuilderInv'
<1> SUFFICES ASSUME BuilderInv, Deriving PROVE BuilderInv'
  OBVIOUS
<1>1. [Next]_vars
  BY DEF Deriving, Next
<1>2. PICK b \in Builders' : builders' = Append(builders, b)
  BY DerivingAppends
<1>3. UNCHANGED <<authorizer, check>>
  BY DerivingAppends
<1>4. builders \in Seq(Builders')
  BY <1>1, RequestsGrow DEF BuilderInv
<1>5. builders' \in Seq(Builders') /\ Len(builders') = Len(builders) + 1
  BY <1>2, <1>4
<1>6. \A n \in 1..Len(builders) : builders'[n] = builders[n]
  BY <1>2, <1>4
<1>7. CheckInv'
  <2>1. CASE ~Underway
    BY <1>3, <1>5, <2>1 DEF BuilderInv, CheckInv, Underway, NoCheck
  <2>2. CASE Underway
    <3>1. check.builder \in 1..Len(builders)
      BY <2>2 DEF BuilderInv, CheckInv, Underway
    <3>2. builders[check.builder].request.context \in 0..Len(nodes)
      <4>1. builders[check.builder] \in Builders
        BY <3>1 DEF BuilderInv
      <4> QED BY <4>1 DEF Builders, Requests
    <3>3. check.values = Contents(builders[check.builder].request.context)'
      BY <1>1, <1>3, <1>6, <2>2, <3>1, <3>2, ContentsKept DEF BuilderInv, CheckInv
    <3>4. check.requests = RequestsOf(builders[check.builder])'
      BY <1>3, <1>6, <2>2, <3>1 DEF BuilderInv, CheckInv, RequestsOf
    <3>5. check'.asked \in Seq(AskedAbout(check.values)')
      <4>1. AskedAbout(check.values) \subseteq AskedAbout(check.values)'
        BY <1>1, <1>3, RequestsGrow DEF AskedAbout
      <4>2. check'.asked \in Seq(AskedAbout(check.values))
        BY <1>3, <2>2 DEF BuilderInv, CheckInv
      <4> HIDE DEF AskedAbout
      <4> QED BY <4>1, <4>2
    <3>6. check.builder \in 0..Len(builders') /\ Underway'
      BY <1>3, <1>5, <2>2, <3>1 DEF Underway
    <3>7. builders[check.builder]' = builders[check.builder]
      BY <1>3, <1>6, <3>1
    <3>8. Reported(check.decisions, check.results, check.reported)'
      BY <1>3, <2>2 DEF BuilderInv, CheckInv, Reported, Tells
    <3>9. /\ DOMAIN check' = DOMAIN NoCheck'
          /\ Len(check'.asked) <= Len(check'.requests)
          /\ \A n \in 1..Len(check'.asked) : check'.asked[n].request = check'.requests[n]
          /\ check'.results \in Seq(Results')
          /\ check'.reported \in 0..Len(check'.results)
      BY <1>3, <2>2 DEF BuilderInv, CheckInv, NoCheck, Results, Answer
    <3>10. Many' /\ authorizer' = "plain" =>
             /\ Len(check'.asked) = check'.reported /\ Len(check'.results) = check'.reported
             /\ \A n \in 1..check'.reported :
                  check'.results[n].action = check'.requests[n].action
      BY <1>3, <2>2, <3>7 DEF BuilderInv, CheckInv, Many
    <3>11. authorizer' = "batch" /\ ~check'.answered => check'.reported = 0
      BY <1>3, <2>2 DEF BuilderInv, CheckInv
    <3> HIDE DEF AskedAbout
    <3> QED BY <1>3, <3>3, <3>4, <3>5, <3>6, <3>7, <3>8, <3>9, <3>10, <3>11 DEF CheckInv
  <2> QED BY <2>1, <2>2
<1> QED BY <1>1, <1>3, <1>5, <1>7, HeapGrows DEF BuilderInv

-----------------------------------------------------------------------------
(* The steps of a check. *)

\* A sequence and one more element.
LEMMA Longer ==
  ASSUME NEW S, NEW s \in Seq(S), NEW e \in S
  PROVE  LET k == Len(s)
             longer == Append(s, e)
         IN /\ longer \in Seq(S) /\ Len(longer) = k + 1
            /\ longer[k + 1] = e /\ \A n \in 1..k : longer[n] = s[n]
OBVIOUS

\* The actions of a builder.
LEMMA ActionsType ==
  ASSUME NEW b \in Builders
  PROVE  /\ b.actions \in Seq(Actions)
         /\ DOMAIN b.actions = 1..Len(b.actions)
         /\ \A n \in 1..Len(b.actions) : b.actions[n] \in Actions
<1>1. b.actions \in ActionLists \cup {<<>>}
  BY DEF Builders
<1>2. <<>> \in Seq(Actions)
  OBVIOUS
<1>3. b.actions \in Seq(Actions)
  BY <1>1, <1>2, BuilderAssumption DEF BuilderAssumption
<1> QED BY <1>3

\* A builder stands for as many requests as it has actions, or for one.
LEMMA RequestsOfType ==
  ASSUME NEW b \in Builders
  PROVE  /\ RequestsOf(b) \in Seq(Requests)
         /\ b.many => /\ Len(RequestsOf(b)) = Len(b.actions)
                      /\ \A n \in 1..Len(b.actions) :
                           RequestsOf(b)[n] = [b.request EXCEPT !.action = b.actions[n]]
         /\ ~b.many => RequestsOf(b) = <<b.request>>
         /\ \A n \in 1..Len(RequestsOf(b)) :
              [RequestsOf(b)[n] EXCEPT !.action = b.request.action] = b.request
<1>1. b.request \in Requests /\ b.actions \in Seq(Actions) /\ b.many \in BOOLEAN
  <2>1. b.actions \in ActionLists \cup {<<>>}
    BY DEF Builders
  <2>2. b.actions \in Seq(Actions)
    <3>1. CASE b.actions = <<>>
      BY <3>1
    <3>2. CASE b.actions \in ActionLists
      BY <3>2, BuilderAssumption DEF BuilderAssumption
    <3> QED BY <2>1, <3>1, <3>2
  <2> QED BY <2>2 DEF Builders
<1>2. \A action \in Actions :
        /\ [b.request EXCEPT !.action = action] \in Requests
        /\ [[b.request EXCEPT !.action = action] EXCEPT !.action = b.request.action]
             = b.request
  BY <1>1 DEF Requests
<1>3. [b.request EXCEPT !.action = b.request.action] = b.request
  BY <1>1 DEF Requests
<1>4. CASE b.many
  <2>1. RequestsOf(b) = [n \in 1..Len(b.actions) |->
                           [b.request EXCEPT !.action = b.actions[n]]]
    BY <1>1, <1>4 DEF RequestsOf
  <2>2. \A n \in 1..Len(b.actions) : b.actions[n] \in Actions
    BY <1>1
  <2>3. RequestsOf(b) \in Seq(Requests) /\ Len(RequestsOf(b)) = Len(b.actions)
    <3>1. \A n \in 1..Len(b.actions) : [b.request EXCEPT !.action = b.actions[n]] \in Requests
      BY <1>2, <2>2
    <3>2. RequestsOf(b) \in [1..Len(b.actions) -> Requests]
      BY <2>1, <3>1 DEF Requests
    <3>3. Len(b.actions) \in Nat
      BY <1>1
    <3> QED BY <3>2, <3>3
  <2>4. \A n \in 1..Len(b.actions) :
          RequestsOf(b)[n] = [b.request EXCEPT !.action = b.actions[n]]
    BY <2>1
  <2> QED BY <1>2, <1>4, <2>2, <2>3, <2>4
<1>5. CASE ~b.many
  BY <1>1, <1>3, <1>5 DEF RequestsOf
<1> QED BY <1>1, <1>4, <1>5

\* What is reported of results is reported of any that agree with them so far.
LEMMA ReportedAlike ==
  ASSUME NEW decisions, NEW old, NEW results, NEW k \in Nat,
         Reported(decisions, old, k), \A n \in 1..k : results[n] = old[n]
  PROVE  Reported(decisions, results, k)
<1>1. {results[n].action : n \in 1..k} = {old[n].action : n \in 1..k}
  OBVIOUS
<1>2. DOMAIN decisions = {results[n].action : n \in 1..k}
  BY <1>1 DEF Reported
<1>3. ASSUME NEW n \in 1..k, \A m \in (n + 1)..k : results[m].action # results[n].action
      PROVE  Tells(decisions[results[n].action], results[n].says)
  <2>1. \A m \in (n + 1)..k : m \in 1..k
    OBVIOUS
  <2>2. \A m \in (n + 1)..k : old[m].action # old[n].action
    BY <1>3, <2>1
  <2>3. Tells(decisions[old[n].action], old[n].says)
    BY <2>2 DEF Reported
  <2> QED BY <2>3
<1> QED BY <1>2, <1>3 DEF Reported

\* One more result is reported, in place of an older one for the same action.
LEMMA ReportTells ==
  ASSUME NEW decisions, NEW results, NEW k \in Nat, Reported(decisions, results, k),
         NEW decision, Tells(decision, results[k + 1].says)
  PROVE  Reported(Report(decisions, results[k + 1].action, decision), results, k + 1)
<1> DEFINE Action(n) == results[n].action
           new == Report(decisions, Action(k + 1), decision)
<1>1. 1..(k + 1) = 1..k \cup {k + 1}
  OBVIOUS
<1>2. DOMAIN new = {Action(n) : n \in 1..(k + 1)}
  BY <1>1 DEF Report, Reported
<1>3. ASSUME NEW n \in 1..(k + 1),
             \A m \in (n + 1)..(k + 1) : Action(m) # Action(n)
      PROVE  Tells(new[Action(n)], results[n].says)
  <2>1. Action(n) \in DOMAIN new
    BY <1>2
  <2>2. CASE n = k + 1
    BY <2>1, <2>2 DEF Report
  <2>3. CASE n # k + 1
    <3>1. n \in 1..k /\ Action(k + 1) # Action(n)
      BY <1>3, <2>3
    <3>2. \A m \in (n + 1)..k : Action(m) # Action(n)
      BY <1>3
    <3>3. Tells(decisions[Action(n)], results[n].says)
      BY <3>1, <3>2 DEF Reported
    <3>4. new[Action(n)] = decisions[Action(n)]
      BY <2>1, <3>1 DEF Report
    <3> QED BY <3>3, <3>4
  <2> QED BY <2>2, <2>3
<1> QED BY <1>2, <1>3 DEF Reported

\* What is reported of an answer agrees with it.
LEMMA DecisionsTell ==
  \A says \in Answer : /\ Tells(ActionDecision(says), says)
                       /\ Tells(ActionDecision(WithoutDecision(says)), says)
BY DEF Answer, Tells, ActionDecision, WithoutDecision

\* A check that starts has nothing to report.
LEMMA StartCheckKeeps ==
  ASSUME BuilderInv, NEW n \in DOMAIN builders, StartCheck(n)
  PROVE  CheckInv'
<1>1. /\ check' = Checking(n) /\ builders' = builders /\ authorizer' = authorizer
      /\ nodes' = nodes
  BY DEF StartCheck
<1>2. n \in 1..Len(builders) /\ builders[n] \in Builders
  BY DEF BuilderInv
<1>3. Contents(builders[n].request.context)' = Contents(builders[n].request.context)
  BY <1>1 DEF Contents, Find
<1>4. RequestsOf(builders[n])' = RequestsOf(builders[n])
  BY <1>1 DEF RequestsOf
<1>5. Len(RequestsOf(builders[n])) \in Nat
  BY <1>2, RequestsOfType
<1>6. Reported(<<>>, <<>>, 0)
  BY DEF Reported
<1>7. DOMAIN check' = DOMAIN NoCheck'
  BY <1>1 DEF Checking, NoCheck
<1> QED BY <1>1, <1>2, <1>3, <1>4, <1>5, <1>6, <1>7 DEF CheckInv, Checking, Underway, Many

\* What has to hold of the results and the report when a check goes on.
LEMMA CheckGoesOn ==
  ASSUME BuilderInv, Underway, UNCHANGED <<authorizer, nodes, builders>>,
         DOMAIN check' = DOMAIN check,
         UNCHANGED <<check.builder, check.values, check.requests>>,
         check'.asked \in Seq(AskedAbout(check.values)),
         Len(check'.asked) <= Len(check.requests),
         \A n \in 1..Len(check'.asked) : check'.asked[n].request = check.requests[n],
         check'.results \in Seq(Results),
         check'.reported \in 0..Len(check'.results),
         Reported(check'.decisions, check'.results, check'.reported),
         authorizer # "batch" \/ check'.answered,
         Many /\ authorizer = "plain" =>
           /\ Len(check'.asked) = check'.reported /\ Len(check'.results) = check'.reported
           /\ \A n \in 1..check'.reported :
                check'.results[n].action = check.requests[n].action
  PROVE  CheckInv'
<1>1. /\ Contents(builders[check.builder].request.context)'
           = Contents(builders[check.builder].request.context)
      /\ RequestsOf(builders[check.builder])' = RequestsOf(builders[check.builder])
      /\ AskedAbout(check.values)' = AskedAbout(check.values)
      /\ Many' = Many
  <2>1. builders[check.builder]' = builders[check.builder]
    OBVIOUS
  <2>2. Find' = Find /\ Requests' = Requests
    BY DEF Find, Requests
  <2> QED BY <2>1, <2>2 DEF Contents, RequestsOf, AskedAbout, Many
<1>2. check'.builder \in 0..Len(builders') /\ Underway'
  BY DEF BuilderInv, CheckInv, Underway
<1>3. /\ check.values = Contents(builders[check.builder].request.context)
      /\ check.requests = RequestsOf(builders[check.builder])
      /\ DOMAIN check' = DOMAIN NoCheck'
  BY DEF BuilderInv, CheckInv, NoCheck
<1>4. /\ Reported(check.decisions, check.results, check.reported)'
      /\ check'.results \in Seq(Results')
  BY DEF Reported, Tells, Results, Answer
<1> HIDE DEF AskedAbout
<1> QED BY <1>1, <1>2, <1>3, <1>4 DEF CheckInv

\* The requests of a check under way, and what the authorizer finds in them.
LEMMA AskingFinds ==
  ASSUME BuilderInv, Underway
  PROVE  LET b == builders[check.builder]
         IN /\ b \in Builders /\ b.many \in BOOLEAN
            /\ check.requests = RequestsOf(b) /\ check.requests \in Seq(Requests)
            /\ Len(check.requests) \in Nat
            /\ DOMAIN check.requests = 1..Len(check.requests)
            /\ \A n \in 1..Len(check.requests) :
                 Asking(check.requests[n]) \in AskedAbout(check.values)
<1> DEFINE b == builders[check.builder]
<1>1. b \in Builders /\ check.requests = RequestsOf(b)
  BY DEF BuilderInv, CheckInv, Underway
<1>2. check.requests \in Seq(Requests)
  BY <1>1, RequestsOfType
<1>3. /\ Len(check.requests) \in Nat /\ DOMAIN check.requests = 1..Len(check.requests)
      /\ \A n \in 1..Len(check.requests) : check.requests[n] \in Requests
  BY <1>2
<1>4. b.request \in Requests /\ b.many \in BOOLEAN
  BY <1>1 DEF Builders
<1>5. ASSUME NEW n \in 1..Len(check.requests)
      PROVE  Asking(check.requests[n]) \in AskedAbout(check.values)
  <2>1. [check.requests[n] EXCEPT !.action = b.request.action] = b.request
    <3> HIDE DEF b
    <3> QED BY <1>1, RequestsOfType
  <2>2. check.requests[n].context = b.request.context
    BY <1>3, <1>4, <2>1 DEF Requests
  <2>3. Contents(check.requests[n].context) = check.values
    BY <2>2 DEF BuilderInv, CheckInv
  <2> QED BY <1>3, <2>3 DEF AskedAbout, Asking
<1> QED BY <1>1, <1>2, <1>3, <1>4, <1>5

\* All requests are put to the authorizer at once.
LEMMA AskingAllFinds ==
  ASSUME BuilderInv, Underway
  PROVE  /\ AskingAll \in Seq(AskedAbout(check.values))
         /\ Len(AskingAll) = Len(check.requests)
         /\ \A n \in 1..Len(AskingAll) : AskingAll[n].request = check.requests[n]
<1> DEFINE L == Len(check.requests)
<1>1. /\ L \in Nat /\ AskingAll = [n \in 1..L |-> Asking(check.requests[n])]
      /\ \A n \in 1..L : Asking(check.requests[n]) \in AskedAbout(check.values)
  BY AskingFinds DEF AskingAll
<1> HIDE DEF L
<1>2. AskingAll \in [1..L -> AskedAbout(check.values)]
  <2> HIDE DEF AskedAbout
  <2> QED BY <1>1
<1>3. AskingAll \in Seq(AskedAbout(check.values)) /\ Len(AskingAll) = L
  <2> HIDE DEF AskedAbout
  <2>1. PICK all : all = AskingAll
    OBVIOUS
  <2>2. all \in Seq(AskedAbout(check.values)) /\ Len(all) = L
    BY <1>1, <1>2, <2>1
  <2> QED BY <2>1, <2>2
<1>4. \A n \in 1..L : AskingAll[n].request = check.requests[n]
  BY <1>1 DEF Asking
<1> QED BY <1>3, <1>4 DEF L

\* The answer to a Builder has no results to report.
LEMMA AskSingleKeeps == BuilderInv /\ AskSingle => CheckInv'
<1> SUFFICES ASSUME BuilderInv, AskSingle PROVE CheckInv'
  OBVIOUS
<1>1. PICK says \in YesOrNo :
        check' = [check EXCEPT !.asked = AskingAll, !.answered = TRUE, !.returned = says]
  BY DEF AskSingle
<1>2. UNCHANGED <<authorizer, nodes, builders>> /\ Underway /\ ~Many
  BY DEF AskSingle
<1>3. /\ DOMAIN check' = DOMAIN check
      /\ UNCHANGED <<check.builder, check.values, check.requests>>
      /\ check'.asked = AskingAll /\ check'.answered
      /\ UNCHANGED <<check.results, check.reported, check.decisions>>
  BY <1>1 DEF BuilderInv, CheckInv, NoCheck
<1>4. /\ check.results \in Seq(Results)
      /\ check.reported \in 0..Len(check.results)
      /\ Reported(check.decisions, check.results, check.reported)
  BY <1>2 DEF BuilderInv, CheckInv
<1>5. Len(check'.asked) <= Len(check.requests)
  BY <1>2, <1>3, AskingFinds, AskingAllFinds
<1> QED BY <1>2, <1>3, <1>4, <1>5, AskingAllFinds, CheckGoesOn

\* The next request is put to a plain authorizer.
LEMMA AskOneKeeps == BuilderInv /\ AskOne => CheckInv'
<1> SUFFICES ASSUME BuilderInv, AskOne PROVE CheckInv'
  OBVIOUS
<1>1. PICK says \in Answer :
        LET request == check.requests[check.reported + 1]
        IN check' = [check EXCEPT
             !.asked = Append(@, Asking(request)),
             !.results = Append(@, Result(request.action, says)),
             !.reported = @ + 1,
             !.decisions =
               Report(@, request.action, ActionDecision(WithoutDecision(says)))]
  BY DEF AskOne
<1> DEFINE k == check.reported
           request == check.requests[k + 1]
           asked == Append(check.asked, Asking(request))
           result == Result(request.action, says)
           results == Append(check.results, result)
           decisions == Report(check.decisions, request.action,
                               ActionDecision(WithoutDecision(says)))
<1>2. /\ UNCHANGED <<authorizer, nodes, builders>> /\ Underway
      /\ Many /\ authorizer = "plain" /\ k # Len(check.requests)
  BY DEF AskOne, Complete
<1>3. /\ check.asked \in Seq(AskedAbout(check.values)) /\ check.results \in Seq(Results)
      /\ Len(check.asked) = k /\ Len(check.results) = k
      /\ Len(check.asked) <= Len(check.requests)
      /\ Reported(check.decisions, check.results, k)
      /\ \A n \in 1..k : check.asked[n].request = check.requests[n]
      /\ \A n \in 1..k : check.results[n].action = check.requests[n].action
  BY <1>2 DEF BuilderInv, CheckInv
<1>4. k \in Nat /\ k + 1 \in 1..Len(check.requests)
  <2>1. k \in Nat
    BY <1>3
  <2> QED BY <1>2, <1>3, <2>1, AskingFinds
<1>5. /\ DOMAIN check' = DOMAIN check
      /\ UNCHANGED <<check.builder, check.values, check.requests>>
      /\ check'.asked = asked /\ check'.results = results
      /\ check'.reported = k + 1 /\ check'.decisions = decisions
  BY <1>1 DEF BuilderInv, CheckInv, NoCheck
<1>6. /\ asked \in Seq(AskedAbout(check.values)) /\ Len(asked) = k + 1
      /\ asked[k + 1] = Asking(request) /\ \A n \in 1..k : asked[n] = check.asked[n]
  <2>1. Asking(request) \in AskedAbout(check.values)
    BY <1>2, <1>4, AskingFinds
  <2> HIDE DEF AskedAbout
  <2> QED BY <1>3, <2>1, Longer
<1>7. /\ results \in Seq(Results) /\ Len(results) = k + 1
      /\ results[k + 1] = result /\ \A n \in 1..k : results[n] = check.results[n]
  <2>1. request.action \in Actions
    <3> DEFINE b == builders[check.builder]
    <3>1. /\ b \in Builders /\ b.many /\ check.requests = RequestsOf(b)
      BY <1>2, AskingFinds DEF Many
    <3>2. /\ Len(b.actions) = Len(check.requests)
          /\ request = [b.request EXCEPT !.action = b.actions[k + 1]]
      BY <1>4, <3>1, RequestsOfType
    <3>3. b.actions[k + 1] \in Actions
      BY <1>4, <3>1, <3>2, ActionsType
    <3> QED BY <3>1, <3>2, <3>3 DEF Builders, Requests
  <2>2. result \in Results
    BY <2>1 DEF Result, Results
  <2> HIDE DEF result
  <2> QED BY <1>3, <2>2, Longer
<1>8. \A n \in 1..(k + 1) : n \in 1..k \/ n = k + 1
  BY <1>4
<1>9. /\ \A n \in 1..(k + 1) : asked[n].request = check.requests[n]
      /\ \A n \in 1..(k + 1) : results[n].action = check.requests[n].action
  <2>1. Asking(request).request = request /\ result.action = request.action
    BY DEF Asking, Result
  <2> HIDE DEF asked, results, result
  <2> QED BY <1>3, <1>6, <1>7, <1>8, <2>1
<1>10. Reported(decisions, results, k + 1)
  <2>1. result.action = request.action /\ result.says = says
    BY DEF Result
  <2>2. Tells(ActionDecision(WithoutDecision(says)), says)
    BY DecisionsTell
  <2> HIDE DEF results, result, k
  <2>3. k \in Nat
    BY <1>4
  <2>4. Reported(check.decisions, results, k)
    BY <1>3, <1>7, <2>3, ReportedAlike
  <2> QED BY <1>4, <1>7, <2>1, <2>2, <2>4, ReportTells
<1>11. k + 1 \in 0..Len(results) /\ Len(asked) <= Len(check.requests)
  BY <1>4, <1>6, <1>7
<1> HIDE DEF asked, results, decisions, k, AskedAbout
<1> QED BY <1>2, <1>5, <1>6, <1>7, <1>9, <1>10, <1>11, CheckGoesOn

\* All requests are put to a batch authorizer; nothing is reported yet.
LEMMA AskAllKeeps == BuilderInv /\ AskAll => CheckInv'
<1> SUFFICES ASSUME BuilderInv, AskAll PROVE CheckInv'
  OBVIOUS
<1>1. PICK results \in BatchResults :
        check' = [check EXCEPT !.asked = AskingAll, !.answered = TRUE, !.results = results]
  BY DEF AskAll
<1>2. /\ UNCHANGED <<authorizer, nodes, builders>> /\ Underway
      /\ authorizer = "batch" /\ ~check.answered
  BY DEF AskAll
<1>3. /\ DOMAIN check' = DOMAIN check
      /\ UNCHANGED <<check.builder, check.values, check.requests>>
      /\ check'.asked = AskingAll /\ check'.results = results /\ check'.answered
      /\ UNCHANGED <<check.reported, check.decisions>>
  BY <1>1 DEF BuilderInv, CheckInv, NoCheck
<1>4. results \in Seq(Results) /\ Len(results) \in Nat
  <2>1. PICK n \in 0..MaxResults : results \in [1..n -> Results]
    BY DEF BatchResults
  <2>2. n \in Nat
    BY BuilderAssumption DEF BuilderAssumption
  <2> QED BY <2>1, <2>2
<1>5. check.reported = 0 /\ Reported(check.decisions, check.results, 0)
  BY <1>2 DEF BuilderInv, CheckInv
<1>6. Reported(check.decisions, results, 0)
  BY <1>5 DEF Reported
<1>7. Len(check'.asked) <= Len(check.requests) /\ 0 \in 0..Len(results)
  BY <1>2, <1>3, <1>4, AskingFinds, AskingAllFinds
<1> QED BY <1>2, <1>3, <1>4, <1>5, <1>6, <1>7, AskingAllFinds, CheckGoesOn

\* The next result of a batch is reported.
LEMMA ReportOneKeeps == BuilderInv /\ ReportOne => CheckInv'
<1> SUFFICES ASSUME BuilderInv, ReportOne PROVE CheckInv'
  OBVIOUS
<1> DEFINE k == check.reported
           result == check.results[k + 1]
           decisions == Report(check.decisions, result.action, ActionDecision(result.says))
<1>1. /\ UNCHANGED <<authorizer, nodes, builders>> /\ Underway
      /\ authorizer = "batch" /\ k # Len(check.results) /\ check.answered
  BY DEF ReportOne, Complete
<1>2. /\ check.results \in Seq(Results) /\ k \in 0..Len(check.results)
      /\ Reported(check.decisions, check.results, k)
  BY <1>1 DEF BuilderInv, CheckInv
<1>3. k \in Nat /\ k + 1 \in 1..Len(check.results) /\ k + 1 \in 0..Len(check.results)
  BY <1>1, <1>2
<1>4. /\ DOMAIN check' = DOMAIN check
      /\ UNCHANGED <<check.builder, check.values, check.requests, check.asked, check.results>>
      /\ check'.reported = k + 1 /\ check'.decisions = decisions
      /\ check'.answered = check.answered
  BY DEF ReportOne, BuilderInv, CheckInv, NoCheck
<1>5. Reported(decisions, check.results, k + 1)
  <2>1. result \in Results
    BY <1>2, <1>3
  <2>2. Tells(ActionDecision(result.says), result.says)
    BY <2>1, DecisionsTell DEF Results
  <2> QED BY <1>2, <1>3, <2>2, ReportTells
<1>6. /\ check.asked \in Seq(AskedAbout(check.values))
      /\ Len(check.asked) <= Len(check.requests)
      /\ \A n \in 1..Len(check.asked) : check.asked[n].request = check.requests[n]
  BY <1>1 DEF BuilderInv, CheckInv
<1> HIDE DEF decisions, k, AskedAbout
<1> QED BY <1>1, <1>2, <1>3, <1>4, <1>5, <1>6, CheckGoesOn

\* Every step keeps the invariant.
LEMMA NextBuilderInv == BuilderInv /\ [Next]_vars => BuilderInv'
<1> SUFFICES ASSUME BuilderInv, [Next]_vars PROVE BuilderInv'
  OBVIOUS
<1>1. CASE Deriving
  BY <1>1, DerivingKeeps
<1>2. ASSUME UNCHANGED <<authorizer, builders>>, CheckInv'
      PROVE  BuilderInv'
  <2>1. builders' \in Seq(Builders')
    BY <1>2, RequestsGrow DEF BuilderInv
  <2> QED BY <1>2, <2>1, HeapGrows DEF BuilderInv
<1>3. CASE \E n \in DOMAIN builders : StartCheck(n)
  BY <1>2, <1>3, StartCheckKeeps DEF StartCheck
<1>4. CASE AskSingle \/ AskOne
  BY <1>2, <1>4, AskSingleKeeps, AskOneKeeps DEF AskSingle, AskOne
<1>5. CASE AskAll
  BY <1>2, <1>5, AskAllKeeps DEF AskAll
<1>6. CASE ReportOne
  BY <1>2, <1>6, ReportOneKeeps DEF ReportOne
<1>7. CASE EndCheck
  <2>1. check' = NoCheck /\ UNCHANGED <<authorizer, nodes, builders>>
    BY <1>7 DEF EndCheck
  <2>2. Len(builders') \in Nat
    BY <2>1 DEF BuilderInv
  <2>3. CheckInv'
    BY <2>1, <2>2 DEF CheckInv, NoCheck, Underway, Many
  <2> QED BY <1>2, <2>1, <2>3
<1>8. CASE UNCHANGED vars
  <2>1. CheckInv'
    <3>1. Find' = Find /\ Requests' = Requests
      BY <1>8 DEF vars, Find, Requests
    <3>2. CheckInv
      BY DEF BuilderInv
    <3> QED BY <1>8, <3>1, <3>2 DEF vars, CheckInv, Underway, Many, NoCheck, Contents,
        RequestsOf, AskedAbout, Reported, Tells, Results, Answer
  <2> QED BY <1>2, <1>8, <2>1 DEF vars
<1> QED BY <1>1, <1>3, <1>4, <1>5, <1>6, <1>7, <1>8 DEF Next, Deriving

\* There are no builders, and no nodes, at first.
LEMMA InitBuilderInv == Init => BuilderInv
<1> SUFFICES ASSUME Init PROVE BuilderInv
  OBVIOUS
<1>1. HeapInv
  BY DEF Init, HeapInv, WellFormed
<1>2. CheckInv
  BY DEF Init, CheckInv, NoCheck, Underway
<1> QED BY <1>1, <1>2 DEF Init, BuilderInv

\* Contexts point into a heap whose walks end, and a check has come as far as its
\* answers and its result show, whatever is derived in the meantime.
THEOREM BuilderInvariant == Spec => []BuilderInv
BY InitBuilderInv, NextBuilderInv, PTL DEF Spec

-----------------------------------------------------------------------------
(* The theorems about checks. *)

\* The variables keep their types.
THEOREM BuilderTypeCorrect == Spec => []BuilderTypeOK
<1>1. ASSUME BuilderInv PROVE BuilderTypeOK
  <2>1. \A n \in DOMAIN nodes : nodes[n] \in [parent : 0..(n - 1), key : Keys, value : Values]
    <3>1. /\ DOMAIN nodes = 1..Len(nodes)
          /\ \A n \in 1..Len(nodes) :
               nodes[n] \in [parent : Nat, key : Keys, value : Values]
      <4> DEFINE N == [parent : Nat, key : Keys, value : Values]
      <4>1. nodes \in Seq(N)
        BY <1>1 DEF BuilderInv, HeapInv
      <4> HIDE DEF N
      <4>2. DOMAIN nodes = 1..Len(nodes) /\ \A n \in 1..Len(nodes) : nodes[n] \in N
        BY <4>1
      <4> QED BY <4>2 DEF N
    <3>2. \A n \in 1..Len(nodes) : nodes[n].parent \in 0..(n - 1)
      BY <1>1 DEF BuilderInv, HeapInv, WellFormed
    <3> QED BY <3>1, <3>2
  <2>2. CASE ~Underway
    <3>1. check = NoCheck /\ 0 \in 0..Len(builders)
      BY <1>1, <2>2 DEF BuilderInv, CheckInv
    <3>2. /\ check.builder = 0 /\ check.requests = <<>> /\ check.asked = <<>>
          /\ check.decisions = <<>> /\ check.results = <<>> /\ check.reported = 0
      BY <3>1 DEF NoCheck
    <3>3. check.requests \in Seq(Requests) /\ Len(check.asked) <= Len(check.requests)
          /\ DOMAIN check.decisions = {} /\ check.reported <= Len(check.results)
      BY <3>2
    <3> QED BY <1>1, <2>1, <3>1, <3>2, <3>3 DEF BuilderInv, BuilderTypeOK, Builders
  <2>3. CASE Underway
    <3>1. builders[check.builder] \in Builders
      BY <1>1, <2>3 DEF BuilderInv, CheckInv, Underway
    <3>2. check.requests \in Seq(Requests)
      BY <1>1, <2>3, <3>1, RequestsOfType DEF BuilderInv, CheckInv
    <3>3. DOMAIN check.decisions \subseteq Actions
      <4>1. /\ check.results \in Seq(Results) /\ check.reported \in 0..Len(check.results)
            /\ DOMAIN check.decisions = {check.results[n].action : n \in 1..check.reported}
        BY <1>1, <2>3 DEF BuilderInv, CheckInv, Reported
      <4>2. \A n \in 1..check.reported : check.results[n] \in Results
        BY <4>1
      <4> QED BY <4>1, <4>2 DEF Results
    <3>4. check.reported <= Len(check.results)
      BY <1>1, <2>3 DEF BuilderInv, CheckInv
    <3> QED BY <1>1, <2>1, <2>3, <3>2, <3>3, <3>4 DEF BuilderInv, CheckInv, BuilderTypeOK, Builders
  <2> QED BY <2>2, <2>3
<1> QED BY <1>1, BuilderInvariant, PTL

\* The authorizer finds in each request what the builder held when Check was
\* called, whatever is derived from it in the meantime.
THEOREM ValuesAreCarried == Spec => []RequestsCarryTheirValues
<1>1. ASSUME BuilderInv, NEW n \in DOMAIN check.asked
      PROVE  /\ check.asked[n].found = check.values
             /\ [check.asked[n].request EXCEPT
                   !.action = builders[check.builder].request.action]
                  = builders[check.builder].request
  <2> DEFINE b == builders[check.builder]
  <2>1. Underway
    BY <1>1 DEF BuilderInv, CheckInv, NoCheck
  <2>2. b \in Builders /\ check.requests = RequestsOf(b)
    BY <1>1, <2>1 DEF BuilderInv, CheckInv, Underway
  <2>3. check.asked \in Seq(AskedAbout(check.values))
    BY <1>1, <2>1 DEF BuilderInv, CheckInv
  <2>4. check.asked[n] \in AskedAbout(check.values) /\ n \in 1..Len(check.asked)
    <3> HIDE DEF AskedAbout
    <3> QED BY <2>3
  <2>5. n \in 1..Len(RequestsOf(b)) /\ check.asked[n].request = RequestsOf(b)[n]
    <3>1. Len(check.asked) <= Len(check.requests) /\ check.asked[n].request = check.requests[n]
      BY <1>1, <2>1, <2>4 DEF BuilderInv, CheckInv
    <3>2. Len(RequestsOf(b)) \in Nat /\ Len(check.asked) \in Nat
      <4> HIDE DEF AskedAbout, b
      <4> QED BY <2>2, <2>3, RequestsOfType
    <3> QED BY <2>2, <2>4, <3>1, <3>2
  <2>6. [RequestsOf(b)[n] EXCEPT !.action = b.request.action] = b.request
    <3> HIDE DEF b
    <3> QED BY <2>2, <2>5, RequestsOfType
  <2> QED BY <2>4, <2>5, <2>6 DEF AskedAbout
<1>2. BuilderInv => RequestsCarryTheirValues
  BY <1>1 DEF RequestsCarryTheirValues
<1> QED BY <1>2, BuilderInvariant, PTL

\* A MultiActionBuilder's check that is complete reports the last result of
\* each action that the authorizer's results name, however many there are and
\* for whatever actions; and each requested action, and no other, when the
\* authorizer is asked about one at a time.
THEOREM AllActionsReported == Spec => []ActionsAreAllReported
<1>1. ASSUME BuilderInv, Underway, Many, Complete
      PROVE  /\ \A action \in Actions :
                  action \in DOMAIN check.decisions <=> ResultsFor(action) # {}
             /\ \A action \in DOMAIN check.decisions :
                  Tells(check.decisions[action],
                        check.results[Max(ResultsFor(action))].says)
             /\ authorizer = "plain" =>
                  DOMAIN check.decisions =
                    {builders[check.builder].actions[n] :
                       n \in DOMAIN builders[check.builder].actions}
  <2> DEFINE b == builders[check.builder]
             L == Len(check.results)
             Action(n) == check.results[n].action
  <2>1. /\ b \in Builders /\ check.requests = RequestsOf(b) /\ b.many
        /\ Len(check.requests) \in Nat
    BY <1>1, AskingFinds DEF Many
  <2>2. check.results \in Seq(Results) /\ check.reported \in 0..L
    BY <1>1 DEF BuilderInv, CheckInv
  <2>3. L \in Nat /\ DOMAIN check.results = 1..L
    BY <2>2
  <2>4. authorizer = "plain" =>
          /\ L = check.reported /\ L = Len(check.requests)
          /\ \A n \in 1..L : Action(n) = check.requests[n].action
    BY <1>1 DEF BuilderInv, CheckInv, Complete
  <2>5. check.reported = L
    BY <1>1, <2>4 DEF Complete
  <2>6. Reported(check.decisions, check.results, L)
    BY <1>1, <2>5 DEF BuilderInv, CheckInv
  <2>7. DOMAIN check.decisions = {Action(n) : n \in 1..L}
    BY <2>6 DEF Reported
  <2>8. \A action : ResultsFor(action) = {n \in 1..L : Action(n) = action}
    BY <2>3 DEF ResultsFor
  <2>9. \A action \in Actions : action \in DOMAIN check.decisions <=> ResultsFor(action) # {}
    BY <2>7, <2>8
  <2>10. ASSUME authorizer = "plain"
         PROVE  DOMAIN check.decisions = {b.actions[n] : n \in DOMAIN b.actions}
    <3>1. /\ L = Len(b.actions)
          /\ \A n \in 1..L : check.requests[n] = [b.request EXCEPT !.action = b.actions[n]]
      <4>1. /\ Len(RequestsOf(b)) = Len(b.actions)
            /\ \A n \in 1..Len(b.actions) :
                 RequestsOf(b)[n] = [b.request EXCEPT !.action = b.actions[n]]
        BY <2>1, RequestsOfType
      <4> QED BY <2>1, <2>4, <2>10, <4>1
    <3>2. b.request \in Requests
      BY <2>1 DEF Builders
    <3>3. \A n \in 1..L : Action(n) = b.actions[n]
      BY <2>4, <2>10, <3>1, <3>2 DEF Requests
    <3>4. DOMAIN b.actions = 1..L
      BY <2>1, <3>1, ActionsType
    <3> QED BY <2>7, <3>3, <3>4
  <2>11. ASSUME NEW action \in DOMAIN check.decisions
         PROVE  Tells(check.decisions[action],
                      check.results[Max(ResultsFor(action))].says)
    <3>1. ResultsFor(action) # {} /\ ResultsFor(action) \subseteq 0..L
      BY <2>7, <2>8
    <3>2. PICK n \in ResultsFor(action) : \A m \in ResultsFor(action) : m <= n
      BY <2>3, <3>1, GreatestNat
    <3>3. Max(ResultsFor(action)) = n
      BY <2>3, <3>1, <3>2, MaxIsGreatest
    <3>4. n \in 1..L /\ Action(n) = action
          /\ \A m \in (n + 1)..L : Action(m) # Action(n)
      <4>1. n \in 1..L /\ Action(n) = action
        BY <2>8
      <4>2. ASSUME NEW m \in (n + 1)..L, Action(m) = Action(n) PROVE FALSE
        <5>1. n \in Nat /\ m \in 1..L /\ ~(m <= n)
          BY <2>3, <4>1
        <5>2. m \in ResultsFor(action)
          BY <2>8, <4>1, <4>2, <5>1
        <5> QED BY <3>2, <5>1, <5>2
      <4> QED BY <4>1, <4>2
    <3> QED BY <2>6, <3>3, <3>4 DEF Reported
  <2> QED BY <2>9, <2>10, <2>11
<1>2. BuilderInv => ActionsAreAllReported
  BY <1>1 DEF ActionsAreAllReported, Tells
<1> QED BY <1>2, BuilderInvariant, PTL

-----------------------------------------------------------------------------
(* The abstract specification is implemented. *)

Calls ==
  [on : Nat,
   set : {"subject", "action", "actions", "resource", "scope", "context", "value"},
   to : Subjects \cup Actions \cup ActionLists \cup Resources \cup Scopes \cup Nat
        \cup (Keys \X Values)]

\* The builder that RequestValues sees.
ValueOf(b) ==
  [subject |-> b.request.subject, action |-> b.request.action,
   resource |-> b.request.resource, scope |-> b.request.scope,
   actions |-> b.actions, context |-> Contents(b.request.context)]

\* The same, its context being known to hold the contents.
Valued(b, contents) ==
  [subject |-> b.request.subject, action |-> b.request.action,
   resource |-> b.request.resource, scope |-> b.request.scope,
   actions |-> b.actions, context |-> contents]

ValuesOf == [n \in DOMAIN builders |-> ValueOf(builders[n])]

\* The calls are kept in a sequence.
LEMMA CallsType == BuilderInv /\ calls \in Seq(Calls) /\ [Next]_vars => calls' \in Seq(Calls)
<1> SUFFICES ASSUME BuilderInv, calls \in Seq(Calls), [Next]_vars
             PROVE  calls' \in Seq(Calls)
  OBVIOUS
<1>1. 0 \in Nat /\ DOMAIN builders \subseteq Nat
  BY DEF BuilderInv
<1>2. ASSUME NEW call \in Calls, calls' = Append(calls, call)
      PROVE  calls' \in Seq(Calls)
  BY <1>2
<1>3. CASE Deriving
  BY <1>1, <1>2, <1>3 DEF Deriving, DeriveFrom, For, Can, CanMany, On, Within,
     WithContext, WithValue, Derive, Calls
<1>4. CASE calls' = calls
  BY <1>4
<1> QED BY <1>3, <1>4 DEF Next, Deriving, StartCheck, AskSingle, AskOne, AskAll, ReportOne,
     EndCheck, vars

\* Finding gives a value to every key.
LEMMA FindIsOverKeys ==
  ASSUME BuilderInv, NEW context \in 0..Len(nodes)
  PROVE  Find[context] = [key \in Keys |-> Find[context][key]]
<1>1. WellFormed(nodes)
  BY DEF BuilderInv, HeapInv
<1>2. FindIn(nodes) = Walk(FindIn(nodes), nodes, Len(nodes))
  BY <1>1, FindInWalks
<1>3. FindIn(nodes)[context]
        = Visit(nodes[context], context, FindIn(nodes)[nodes[context].parent])
  BY <1>2 DEF Walk
<1>4. \A node, c, older : Visit(node, c, older) = [key \in Keys |-> Visit(node, c, older)[key]]
  BY DEF Visit
<1> QED BY <1>3, <1>4, FindIsFindIn

\* A new context holds what the old one did, but for the value it was made with.
LEMMA ContentsOfNew ==
  ASSUME BuilderInv, [Next]_vars, NEW context \in 0..Len(nodes), NEW key, NEW value,
         nodes' = Append(nodes, Node(context, key, value))
  PROVE  Find'[Len(nodes) + 1] = [Find[context] EXCEPT ![key] = value]
<1>1. /\ WellFormed(nodes) /\ WellFormed(nodes')
      /\ nodes \in Seq([parent : Nat, key : Keys, value : Values])
  BY HeapGrows DEF BuilderInv, HeapInv
<1>2. PICK new : new = Len(nodes) + 1
  OBVIOUS
<1>3. new \in 1..Len(nodes') /\ nodes'[new] = Node(context, key, value)
  BY <1>1, <1>2 DEF WellFormed
<1>4. FindIn(nodes')[new] = [k \in Keys |->
         IF nodes'[new].key = k THEN nodes'[new].value
         ELSE FindIn(nodes')[nodes'[new].parent][k]]
  <2>1. PICK heap : heap = nodes'
    OBVIOUS
  <2>2. WellFormed(heap) /\ new \in 1..Len(heap)
    BY <1>1, <1>3, <2>1
  <2>3. FindIn(heap)[new] = [k \in Keys |->
          IF heap[new].key = k THEN heap[new].value ELSE FindIn(heap)[heap[new].parent][k]]
    BY <2>2, FindInUnfolds
  <2> QED BY <2>1, <2>3
<1>5. /\ nodes'[new].parent = context /\ nodes'[new].key = key
      /\ nodes'[new].value = value
  BY <1>3 DEF Node
<1>6. Find'[new] = [k \in Keys |-> IF key = k THEN value ELSE Find'[context][k]]
  BY <1>4, <1>5, FindIsFindIn
<1>7. Find'[context] = Find[context]
  BY ContentsKept DEF Contents
<1>8. Find'[new] = [k \in Keys |-> IF key = k THEN value ELSE Find[context][k]]
  BY <1>6, <1>7
<1>9. [Find[context] EXCEPT ![key] = value]
        = [k \in Keys |-> IF key = k THEN value ELSE Find[context][k]]
  <2> DEFINE f == Find[context]
  <2>1. f = [k \in Keys |-> f[k]]
    BY FindIsOverKeys
  <2> HIDE DEF f
  <2>2. [f EXCEPT ![key] = value] = [k \in Keys |-> IF key = k THEN value ELSE f[k]]
    BY <2>1
  <2> QED BY <2>2 DEF f
<1> QED BY <1>2, <1>8, <1>9

\* The builder that a call makes is the one the abstract specification says.
LEMMA DerivingMakes ==
  ASSUME BuilderInv, Deriving
  PROVE  \E call \in Calls, b \in Builders' :
           /\ calls' = Append(calls, call)
           /\ builders' = Append(builders, b)
           /\ ValueOf(b)' = Promise!Result(call)
<1> DEFINE Made(call, b) == /\ calls' = Append(calls, call)
                            /\ builders' = Append(builders, b)
                            /\ ValueOf(b)' = Promise!Result(call)
<1>1. [Next]_vars
  BY DEF Deriving, Next
<1>2. \A b \in Builders :
        /\ b.request.context \in 0..Len(nodes)
        /\ Contents(b.request.context)' = Contents(b.request.context)
  BY <1>1, ContentsKept DEF Builders, Requests
<1>3. Promise!Old(0) =
        [subject |-> Unset, action |-> Unset, resource |-> Unset, scope |-> Unset,
         actions |-> <<>>, context |-> Contents(NoContext)]
  <2>1. Contents(NoContext) = [key \in Keys |-> Absent]
    BY FindInUnfolds, FindIsFindIn DEF BuilderInv, HeapInv, Contents
  <2> QED BY <2>1 DEF Promise!Old, Promise!Blank, Promise!NoValues
<1>4. \A n \in DOMAIN builders : n # 0 /\ Promise!Old(n) = ValueOf(builders[n])
  <2>1. \A n \in DOMAIN builders : n # 0
    BY DEF BuilderInv
  <2> QED BY <2>1 DEF Promise!Old, ValueOf
<1>5. CASE \E subject \in Subjects : For(subject)
  <2>1. PICK subject \in Subjects : For(subject)
    BY <1>5
  <2> DEFINE call == [on |-> 0, set |-> "subject", to |-> subject]
             b == NewBuilder(subject)
  <2>2. calls' = Append(calls, call) /\ builders' = Append(builders, b) /\ nodes' = nodes
    BY <2>1 DEF For, Derive
  <2>3. call \in Calls
    BY DEF Calls
  <2>4. b \in Builders'
    BY <1>1, HeapGrows DEF BuilderInv, HeapInv, WellFormed, NewBuilder, Request, Builders,
       Requests, NoContext
  <2>5. Contents(NoContext)' = Contents(NoContext)
    BY <2>2, FindIsFindIn DEF Contents, NoContext
  <2>6. ValueOf(b)' = Promise!Result(call)
    BY <1>3, <2>5 DEF ValueOf, NewBuilder, Request, Promise!Result
  <2> QED BY <2>2, <2>3, <2>4, <2>6
<1>6. ASSUME NEW n \in DOMAIN builders, DeriveFrom(n)
      PROVE  \E call \in Calls, b \in Builders' : Made(call, b)
  <2>1. PICK old \in Builders : old = builders[n]
    BY DEF BuilderInv
  <2>2. /\ n \in Nat
        /\ old.request.context \in 0..Len(nodes)
        /\ Find'[old.request.context] = Find[old.request.context]
    BY <1>2 DEF BuilderInv, Contents
  <2>3. PICK found : found = Find[old.request.context]
    OBVIOUS
  <2>4. Promise!Old(n) = Valued(old, found)
    BY <1>4, <2>1, <2>3 DEF ValueOf, Valued, Contents
  <2>5. old \in Builders'
    BY <1>1, <2>1, RequestsGrow
  <2>6. CASE \E action \in Actions : Can(n, action)
    <3>1. PICK action \in Actions : Can(n, action)
      BY <2>6
    <3> DEFINE call == [on |-> n, set |-> "action", to |-> action]
               b == [old EXCEPT !.request.action = action]
    <3>2. calls' = Append(calls, call) /\ builders' = Append(builders, b)
      BY <2>1, <3>1 DEF Can, Derive
    <3>3. call \in Calls
      BY <2>2 DEF Calls
    <3>4. b \in Builders'
      BY <2>5 DEF Builders, Requests
    <3>5. Valued(b, found) = [Valued(old, found) EXCEPT !["action"] = action]
      BY DEF Valued, Builders, Requests
    <3>6. ValueOf(b)' = Valued(b, found)
      BY <2>2, <2>3 DEF ValueOf, Valued, Contents, Builders, Requests
    <3>7. Promise!Result(call) = [Valued(old, found) EXCEPT !["action"] = action]
      BY <2>4 DEF Promise!Result
    <3> QED BY <3>2, <3>3, <3>4, <3>5, <3>6, <3>7
  <2>7. CASE \E actions \in ActionLists : CanMany(n, actions)
    <3>1. PICK actions \in ActionLists : CanMany(n, actions)
      BY <2>7
    <3> DEFINE call == [on |-> n, set |-> "actions", to |-> actions]
               b == [old EXCEPT !.many = TRUE, !.actions = actions]
    <3>2. calls' = Append(calls, call) /\ builders' = Append(builders, b)
      BY <2>1, <3>1 DEF CanMany, Derive
    <3>3. call \in Calls
      BY <2>2 DEF Calls
    <3>4. b \in Builders'
      BY <2>5 DEF Builders, Requests
    <3>5. Valued(b, found) = [Valued(old, found) EXCEPT !["actions"] = actions]
      BY DEF Valued, Builders, Requests
    <3>6. ValueOf(b)' = Valued(b, found)
      BY <2>2, <2>3 DEF ValueOf, Valued, Contents, Builders, Requests
    <3>7. Promise!Result(call) = [Valued(old, found) EXCEPT !["actions"] = actions]
      BY <2>4 DEF Promise!Result
    <3> QED BY <3>2, <3>3, <3>4, <3>5, <3>6, <3>7
  <2>8. CASE \E resource \in Resources : On(n, resource)
    <3>1. PICK resource \in Resources : On(n, resource)
      BY <2>8
    <3> DEFINE call == [on |-> n, set |-> "resource", to |-> resource]
               b == [old EXCEPT !.request.resource = resource]
    <3>2. calls' = Append(calls, call) /\ builders' = Append(builders, b)
      BY <2>1, <3>1 DEF On, Derive
    <3>3. call \in Calls
      BY <2>2 DEF Calls
    <3>4. b \in Builders'
      BY <2>5 DEF Builders, Requests
    <3>5. Valued(b, found) = [Valued(old, found) EXCEPT !["resource"] = resource]
      BY DEF Valued, Builders, Requests
    <3>6. ValueOf(b)' = Valued(b, found)
      BY <2>2, <2>3 DEF ValueOf, Valued, Contents, Builders, Requests
    <3>7. Promise!Result(call) = [Valued(old, found) EXCEPT !["resource"] = resource]
      BY <2>4 DEF Promise!Result
    <3> QED BY <3>2, <3>3, <3>4, <3>5, <3>6, <3>7
  <2>9. CASE \E scope \in Scopes : Within(n, scope)
    <3>1. PICK scope \in Scopes : Within(n, scope)
      BY <2>9
    <3> DEFINE call == [on |-> n, set |-> "scope", to |-> scope]
               b == [old EXCEPT !.request.scope = scope]
    <3>2. calls' = Append(calls, call) /\ builders' = Append(builders, b)
      BY <2>1, <3>1 DEF Within, Derive
    <3>3. call \in Calls
      BY <2>2 DEF Calls
    <3>4. b \in Builders'
      BY <2>5 DEF Builders, Requests
    <3>5. Valued(b, found) = [Valued(old, found) EXCEPT !["scope"] = scope]
      BY DEF Valued, Builders, Requests
    <3>6. ValueOf(b)' = Valued(b, found)
      BY <2>2, <2>3 DEF ValueOf, Valued, Contents, Builders, Requests
    <3>7. Promise!Result(call) = [Valued(old, found) EXCEPT !["scope"] = scope]
      BY <2>4 DEF Promise!Result
    <3> QED BY <3>2, <3>3, <3>4, <3>5, <3>6, <3>7
  <2>10. CASE \E other \in {0} \cup DOMAIN builders : WithContext(n, other)
    <3>1. PICK other \in {0} \cup DOMAIN builders : WithContext(n, other)
      BY <2>10
    <3>2. PICK context \in 0..Len(nodes) :
            /\ context = IF other = 0 THEN NoContext ELSE builders[other].request.context
            /\ Find'[context] = Find[context]
      <4>1. CASE other = 0
        <5>1. NoContext \in 0..Len(nodes)
          BY DEF BuilderInv, HeapInv, WellFormed, NoContext
        <5> QED BY <1>1, <4>1, <5>1, ContentsKept DEF Contents
      <4>2. CASE other # 0
        <5>1. builders[other] \in Builders
          BY <3>1, <4>2 DEF BuilderInv
        <5> QED BY <1>2, <4>2, <5>1 DEF Contents
      <4> QED BY <4>1, <4>2
    <3>3. PICK contents : contents = Find[context]
      OBVIOUS
    <3> DEFINE call == [on |-> n, set |-> "context", to |-> other]
               b == [old EXCEPT !.request.context = context]
    <3>4. calls' = Append(calls, call) /\ builders' = Append(builders, b)
      BY <2>1, <3>1, <3>2 DEF WithContext, Derive
    <3>5. call \in Calls /\ other \in Nat
      BY <2>2, <3>1 DEF Calls, BuilderInv
    <3>6. b \in Builders'
      <4>1. context \in (0..Len(nodes))'
        BY <1>1, HeapGrows DEF BuilderInv, HeapInv, WellFormed
      <4> QED BY <2>5, <4>1 DEF Builders, Requests
    <3>7. Valued(b, contents) = [Valued(old, found) EXCEPT !.context = contents]
      BY DEF Valued, Builders, Requests
    <3>8. ValueOf(b)' = Valued(b, contents)
      BY <3>2, <3>3 DEF ValueOf, Valued, Contents, Builders, Requests
    <3>9. Promise!Old(other).context = contents
      <4>1. CASE other = 0
        BY <1>3, <3>2, <3>3, <4>1 DEF Contents
      <4>2. CASE other # 0
        BY <1>4, <3>1, <3>2, <3>3, <4>2 DEF ValueOf, Contents
      <4> QED BY <4>1, <4>2
    <3>10. Promise!Result(call) = [Valued(old, found) EXCEPT !.context = contents]
      BY <2>4, <3>9 DEF Promise!Result
    <3> QED BY <3>4, <3>5, <3>6, <3>7, <3>8, <3>10
  <2>11. CASE \E key \in Keys, value \in Values : WithValue(n, key, value)
    <3>1. PICK key \in Keys, value \in Values : WithValue(n, key, value)
      BY <2>11
    <3>2. PICK context \in 0..Len(nodes) : context = old.request.context
      BY <2>2
    <3>3. PICK new : new = Len(nodes) + 1
      OBVIOUS
    <3> DEFINE call == [on |-> n, set |-> "value", to |-> <<key, value>>]
               b == [old EXCEPT !.request.context = new]
               contents == [found EXCEPT ![key] = value]
    <3>4. calls' = Append(calls, call) /\ builders' = Append(builders, b)
      BY <2>1, <3>1, <3>3 DEF WithValue, With, Derive
    <3>5. nodes' = Append(nodes, Node(context, key, value))
      BY <2>1, <3>1, <3>2 DEF WithValue, With
    <3>6. call \in Calls
      BY <2>2 DEF Calls
    <3>7. b \in Builders'
      <4>1. new \in (0..Len(nodes))'
        BY <3>3, <3>5 DEF BuilderInv, HeapInv
      <4> QED BY <2>5, <4>1 DEF Builders, Requests
    <3>8. Find'[new] = contents
      BY <1>1, <2>3, <3>2, <3>3, <3>5, ContentsOfNew
    <3>9. Valued(b, contents) = [Valued(old, found) EXCEPT !.context = contents]
      BY DEF Valued, Builders, Requests
    <3>10. ValueOf(b)' = Valued(b, contents)
      BY <3>8 DEF ValueOf, Valued, Contents, Builders, Requests
    <3>11. Promise!Result(call) = [Valued(old, found) EXCEPT !.context = contents]
      BY <2>4 DEF Promise!Result, Valued
    <3> QED BY <3>4, <3>6, <3>7, <3>9, <3>10, <3>11
  <2> HIDE DEF Made
  <2> QED BY <1>6, <2>6, <2>7, <2>8, <2>9, <2>10, <2>11 DEF DeriveFrom
<1> QED BY <1>5, <1>6 DEF Deriving

\* A call is a step of the abstract specification.
LEMMA DerivingPromised ==
  ASSUME BuilderInv, calls \in Seq(Calls), Deriving
  PROVE  Promise!Next
<1>1. [Next]_vars
  BY DEF Deriving, Next
<1>2. PICK call \in Calls, b \in Builders' :
        /\ calls' = Append(calls, call)
        /\ builders' = Append(builders, b)
        /\ ValueOf(b)' = Promise!Result(call)
  BY DerivingMakes
<1>3. call = calls'[Len(calls')]
  BY <1>2
<1>4. ValuesOf' = Append(ValuesOf, Promise!Result(call))
  <2>1. PICK N \in Nat :
          /\ builders \in Seq(Builders) /\ DOMAIN builders = 1..N
          /\ DOMAIN builders' = 1..(N + 1) /\ N = Len(builders)
          /\ builders'[N + 1] = b /\ \A n \in 1..N : builders'[n] = builders[n]
    <3>1. builders \in Seq(Builders) /\ builders' = Append(builders, b)
      BY <1>2 DEF BuilderInv
    <3>2. PICK N \in Nat : N = Len(builders)
      BY <3>1
    <3>3. /\ DOMAIN builders = 1..N /\ DOMAIN builders' = 1..(N + 1)
          /\ builders'[N + 1] = b /\ \A n \in 1..N : builders'[n] = builders[n]
      BY <3>1, <3>2
    <3> QED BY <3>1, <3>2, <3>3
  <2>2. PICK made : made = Promise!Result(call)
    OBVIOUS
  <2>3. \A n \in 1..N : ValueOf(builders[n])' = ValueOf(builders[n])
    <3>1. ASSUME NEW n \in 1..N
          PROVE  ValueOf(builders[n])' = ValueOf(builders[n])
      <4>1. PICK old \in Builders : old = builders[n] /\ old = builders'[n]
        BY <2>1
      <4>2. Find'[old.request.context] = Find[old.request.context]
        BY <1>1, <4>1, ContentsKept DEF Contents, Builders, Requests
      <4> QED BY <4>1, <4>2 DEF ValueOf, Contents
    <3> QED BY <3>1
  <2>4. ValueOf(builders[N + 1])' = made
    <3>1. ValueOf(b)' = made
      BY <1>2, <2>2
    <3> QED BY <2>1, <3>1 DEF ValueOf
  <2>5. ValuesOf = [n \in 1..N |-> ValueOf(builders[n])]
    BY <2>1 DEF ValuesOf
  <2>6. ValuesOf' = [n \in 1..(N + 1) |-> ValueOf(builders[n])']
    BY <2>1 DEF ValuesOf
  <2>7. Len(ValuesOf) = N
    BY <2>5
  <2>8. Append(ValuesOf, made)
          = [n \in 1..(N + 1) |-> IF n = N + 1 THEN made ELSE ValuesOf[n]]
    BY <2>5, <2>7
  <2>9. \A n \in 1..N : ValuesOf[n] = ValueOf(builders[n]) /\ n # N + 1
    BY <2>5
  <2>10. \A n \in 1..(N + 1) :
           ValueOf(builders[n])' = IF n = N + 1 THEN made ELSE ValuesOf[n]
    <3>1. \A n \in 1..(N + 1) : n = N + 1 \/ n \in 1..N
      OBVIOUS
    <3> QED BY <2>3, <2>4, <2>9, <3>1, Zenon
  <2> QED BY <2>2, <2>6, <2>8, <2>10
<1>5. Promise!Next
  BY <1>2, <1>3, <1>4 DEF Promise!Next, ValuesOf, ValueOf
<1> QED BY <1>5

\* A check changes no builder, and what the contexts hold depends on the heap.
LEMMA CheckingPromised ==
  ASSUME UNCHANGED <<nodes, builders, calls>>
  PROVE  UNCHANGED Promise!vars
<1>1. Find' = Find
  BY FindIsFindIn
<1> QED BY <1>1 DEF Promise!vars, Contents

\* Builders that share one heap of contexts, whose copies are derived from and
\* checked at any time, do what values of their own would do: every derivation
\* is a step of the abstract specification, and no check changes a value.
THEOREM ValuesAreKept == Spec => KeepsValues
<1>1. Init => Promise!Init /\ calls \in Seq(Calls)
  BY DEF Init, Promise!Init
<1>2. BuilderInv /\ calls \in Seq(Calls) /\ [Next]_vars
        => [Promise!Next]_Promise!vars /\ (calls \in Seq(Calls))'
  <2>1. [Next]_vars => Deriving \/ UNCHANGED <<nodes, builders, calls>>
    BY DEF Next, Deriving, StartCheck, AskSingle, AskOne, AskAll, ReportOne, EndCheck, vars
  <2> QED BY <2>1, CallsType, DerivingPromised, CheckingPromised
<1> QED BY <1>1, <1>2, BuilderInvariant, PTL DEF Spec, KeepsValues, Promise!Spec

=============================================================================
