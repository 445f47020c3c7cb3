-------------------------- MODULE StoreEngineProofs --------------------------
(***************************************************************************)
(* Proofs about a call of the engine over a store that loses rows.  Rows   *)
(* only go, so an answer lies between what the store said when the call     *)
(* started and what it says now; and as long as no row has gone it is what  *)
(* the store says.  The store never fails, so a valid request fails only    *)
(* with the context; and what a method returns is what its run came to.     *)
(***************************************************************************)
EXTENDS StoreEngineProperties, PipelinePromiseProofs, FiniteSetTheorems, SequenceTheorems

\* The rows of S are rows of T.
Fewer(S, T) ==
  /\ S.documents \subseteq T.documents
  /\ S.members \subseteq T.members
  /\ Range(S.assignments) \subseteq Range(T.assignments)
  /\ Range(S.grants) \subseteq Range(T.grants)

RowsOnlyGo ==
  /\ tables \in Rows /\ before \in Rows
  /\ Fewer(tables, before)
  /\ Len(tables.assignments) <= Len(before.assignments)
  /\ Len(tables.grants) <= Len(before.grants)

\* What rows say to a lookup, made alone.
Says(rows, l) ==
  CASE l.reader = "ResourceInScope" -> ResourceInScope(rows, l.about[1], l.about[2])
    [] l.reader = "HasMembership" -> HasMembership(rows, l.about[1], l.about[2])
    [] l.reader = "HasPermission" -> HasPermission(rows, l.about[1], l.about[2])
    [] OTHER -> FALSE

Listed(rows, l) ==
  IF l.reader = "GroupsForSubject"
    THEN GroupsForSubject(rows, l.about[1], l.about[2]) ELSE <<>>

\* A yes was true when the call started and a no is still, and a list of groups
\* has at most those of then and at least those of now.  Only resources that are
\* named are looked for.
Fact(a) ==
  /\ a.result.err = Nil
  /\ a.lookup.reader = "ResourceInScope" => RequiresResourceScopeCheck(a.lookup.about[1])
  /\ a.result.ok => Says(before, a.lookup)
  /\ Says(tables, a.lookup) => a.result.ok
  /\ Range(a.result.groups) \subseteq Range(Listed(before, a.lookup))
  /\ Range(Listed(tables, a.lookup)) \subseteq Range(a.result.groups)
  /\ tables = before => a.result.groups = Listed(before, a.lookup)

AnswersAreFacts == \A a \in answers : Fact(a)

\* The validation of a request is the first thing of a run.
InvalidFail ==
  stage # Started =>
    \A i \in DOMAIN items :
      ~IsValid(items[i].request) =>
        /\ items[i].done /\ items[i].decision = NoDecision
        /\ items[i].err = ValidateRequest(items[i].request)

\* Nothing but its context makes a valid request fail.
OnlyContextFails ==
  ctxErr = Nil =>
    \A i \in DOMAIN items : IsValid(items[i].request) => items[i].err = NoError

RunInv ==
  /\ engine = NewEngine
  /\ IInv /\ CallInv /\ GroupsAreListed
  /\ InvalidFail /\ OnlyContextFails

ReplyIsTheOutcome ==
  /\ entry \in EntryPoint
  /\ entry \in {"Check", "CheckDecision", "CheckTrace"} => DOMAIN items = {1}
  /\ Refused => stage = Started /\ answers = {} /\ call = {}
  /\ replied =>
       IF Refused
         THEN reply = BatchReply(<<>>, Min(Invalid),
                                 ValidateRequest(items[Min(Invalid)].request))
         ELSE stage = Returned /\ reply = EntryReply

StoreInv == RowsOnlyGo /\ AnswersAreFacts /\ RunInv /\ ReplyIsTheOutcome

-----------------------------------------------------------------------------
(* Positions in order. *)

\* Positions below a number are finitely many.
LEMMA FiniteBelow ==
  ASSUME NEW m \in Nat, NEW P \in SUBSET (0..m)
  PROVE  IsFiniteSet(P) /\ Cardinality(P) \in Nat
<1>1. IsFiniteSet(0..m)
  BY FS_Interval
<1>2. IsFiniteSet(P)
  BY <1>1, FS_Subset
<1> QED BY <1>2, FS_CardinalityType

\* A finite set of numbers can be put in order.
LEMMA OrderExists ==
  ASSUME NEW m \in Nat
  PROVE  \A P \in SUBSET (0..m) :
           \E s \in [1..Cardinality(P) -> P] :
             \A j, k \in 1..Cardinality(P) : j < k => s[j] < s[k]
<1> DEFINE Ordered(P, s) == \A j, k \in 1..Cardinality(P) : j < k => s[j] < s[k]
           Orderable(P) == \E s \in [1..Cardinality(P) -> P] : Ordered(P, s)
           Unordered == {P \in SUBSET (0..m) : ~Orderable(P)}
           sizes == {Cardinality(P) : P \in Unordered}
<1>1. \A P \in SUBSET (0..m) : IsFiniteSet(P) /\ Cardinality(P) \in Nat
  BY FiniteBelow
<1>2. SUFFICES ASSUME Unordered # {} PROVE FALSE
  OBVIOUS
<1>3. PICK P \in Unordered : \A Q \in Unordered : Cardinality(P) <= Cardinality(Q)
  <2>1. sizes \subseteq Nat /\ sizes # {}
    BY <1>1, <1>2
  <2>2. PICK c \in sizes : \A d \in sizes : c <= d
    <3> HIDE DEF sizes
    <3> QED BY <2>1, LeastNat
  <2> QED BY <2>2
<1>4. P \in SUBSET (0..m) /\ ~Orderable(P)
  BY <1>3
<1>5. CASE P = {}
  <2>1. Cardinality(P) = 0
    BY <1>5, FS_EmptySet
  <2>2. <<>> \in [1..Cardinality(P) -> P] /\ Ordered(P, <<>>)
    BY <2>1
  <2> QED BY <1>4, <2>2
<1>6. CASE P # {}
  <2>1. PICK x \in P : \A y \in P : y <= x
    BY <1>4, <1>6, GreatestNat
  <2> DEFINE Q == P \ {x}
             c == Cardinality(Q)
  <2>2. /\ Q \in SUBSET (0..m) /\ c \in Nat
        /\ Cardinality(P) = c + 1
    BY <1>1, <1>4, FS_RemoveElement
  <2>3. Orderable(Q)
    <3>1. ~(Cardinality(P) <= Cardinality(Q))
      BY <2>2
    <3>2. Q \notin Unordered
      BY <1>3, <3>1
    <3> HIDE DEF Orderable
    <3> QED BY <2>2, <3>2
  <2>4. PICK s \in [1..c -> Q] : \A j, k \in 1..c : j < k => s[j] < s[k]
    BY <2>3
  <2> DEFINE t == [k \in 1..(c + 1) |-> IF k = c + 1 THEN x ELSE s[k]]
  <2> HIDE DEF Q, c
  <2>5. \A k \in 1..c : s[k] \in P /\ s[k] < x
    <3>1. \A y \in Q : y \in P /\ y # x /\ y \in Nat /\ x \in Nat
      BY <1>4 DEF Q
    <3> QED BY <2>1, <2>4, <3>1
  <2>6. t \in [1..(c + 1) -> P]
    BY <2>2, <2>5
  <2>7. ASSUME NEW j \in 1..(c + 1), NEW k \in 1..(c + 1), j < k
        PROVE  t[j] < t[k]
    BY <2>2, <2>4, <2>5, <2>7
  <2>8. Orderable(P)
    <3> HIDE DEF t
    <3> QED BY <2>2, <2>6, <2>7
  <2> QED BY <1>4, <2>8
<1> QED BY <1>5, <1>6

\* Some positions in order: each of them once, and first to last.
LEMMA InOrderIsAll ==
  ASSUME NEW m \in Nat, NEW P \in SUBSET (0..m)
  PROVE  /\ Cardinality(P) \in Nat
         /\ InOrder(P) \in [1..Cardinality(P) -> P]
         /\ \A j, k \in 1..Cardinality(P) : j < k => InOrder(P)[j] < InOrder(P)[k]
         /\ \A n \in P : \E k \in 1..Cardinality(P) : InOrder(P)[k] = n
<1> DEFINE c == Cardinality(P)
           s == InOrder(P)
<1>1. IsFiniteSet(P) /\ c \in Nat
  BY FiniteBelow
<1>2. /\ s \in [1..c -> P]
      /\ \A j, k \in DOMAIN s : j < k => s[j] < s[k]
  <2>1. \E t \in [1..c -> P] : \A j, k \in DOMAIN t : j < k => t[j] < t[k]
    BY OrderExists
  <2> QED BY <2>1, Zenon DEF InOrder
<1> HIDE DEF s, c
<1>3. s \in Injection(1..c, P)
  <2>1. \A k \in 1..c : s[k] \in P
    BY <1>2
  <2>2. \A k \in 1..c : s[k] \in Int
    <3>1. \A n \in P : n \in Int
      OBVIOUS
    <3> QED BY <2>1, <3>1, Zenon
  <2>3. ASSUME NEW j \in 1..c, NEW k \in 1..c, s[j] = s[k] PROVE j = k
    <3>1. j \in Int /\ k \in Int /\ s[j] \in Int
      BY <1>1, <2>2
    <3>2. /\ j < k => s[j] < s[k]
          /\ k < j => s[k] < s[j]
      BY <1>2
    <3> QED BY <2>3, <3>1, <3>2
  <2> QED BY <1>2, <2>3 DEF Injection, IsInjective
<1>4. IsFiniteSet(1..c) /\ Cardinality(1..c) = c
  BY <1>1, FS_Interval
<1>5. s \in Surjection(1..c, P)
  BY <1>1, <1>3, <1>4, FS_Injection DEF c
<1>6. \A n \in P : \E k \in 1..c : s[k] = n
  BY <1>5 DEF Surjection
<1> QED BY <1>1, <1>2, <1>6 DEF s, c

\* Removing an element leaves elements that were there, one fewer.
LEMMA RemovedAt ==
  ASSUME NEW S, NEW s \in Seq(S), NEW n \in DOMAIN s
  PROVE  /\ RemoveAt(s, n) \in Seq(S)
         /\ Len(RemoveAt(s, n)) = Len(s) - 1
         /\ Range(RemoveAt(s, n)) \subseteq Range(s)
<1>1. Len(s) \in Nat /\ n \in 1..Len(s) /\ DOMAIN s = 1..Len(s)
  OBVIOUS
<1> DEFINE a == SubSeq(s, 1, n - 1)
           b == SubSeq(s, n + 1, Len(s))
<1>2. a \in Seq(S) /\ Len(a) = n - 1 /\ \A k \in 1..(n - 1) : a[k] = s[k]
  BY <1>1
<1>3. b \in Seq(S) /\ Len(b) = Len(s) - n /\ \A k \in 1..(Len(s) - n) : b[k] = s[n + k]
  BY <1>1
<1> HIDE DEF a, b
<1>4. /\ a \o b \in Seq(S) /\ Len(a \o b) = Len(s) - 1
      /\ \A k \in 1..(Len(s) - 1) :
           (a \o b)[k] = IF k <= n - 1 THEN a[k] ELSE b[k - (n - 1)]
  <2>1. a \in Seq(S) /\ b \in Seq(S)
    BY <1>2, <1>3
  <2>2. Len(a) + Len(b) = Len(s) - 1
    BY <1>1, <1>2, <1>3
  <2>3. /\ a \o b \in Seq(S) /\ Len(a \o b) = Len(a) + Len(b)
        /\ \A k \in 1..(Len(a) + Len(b)) :
             (a \o b)[k] = IF k <= Len(a) THEN a[k] ELSE b[k - Len(a)]
    BY <2>1, ConcatProperties
  <2> QED BY <1>2, <2>2, <2>3
<1>5. ASSUME NEW k \in 1..(Len(s) - 1)
      PROVE  \E j \in 1..Len(s) : (a \o b)[k] = s[j]
  <2>1. CASE k <= n - 1
    <3>1. (a \o b)[k] = s[k] /\ k \in 1..Len(s)
      BY <1>1, <1>2, <1>4, <2>1
    <3> QED BY <3>1
  <2>2. CASE ~(k <= n - 1)
    <3>1. k - (n - 1) \in 1..(Len(s) - n) /\ n + (k - (n - 1)) = k + 1
      BY <1>1, <2>2
    <3>2. (a \o b)[k] = b[k - (n - 1)]
      BY <1>4, <2>2
    <3>3. b[k - (n - 1)] = s[k + 1]
      <4>1. b[k - (n - 1)] = s[n + (k - (n - 1))]
        BY <1>3, <3>1
      <4> QED BY <3>1, <4>1
    <3>4. k + 1 \in 1..Len(s)
      BY <1>1
    <3> QED BY <3>2, <3>3, <3>4
  <2> QED BY <2>1, <2>2
<1>6. Range(a \o b) \subseteq Range(s)
  <2>1. DOMAIN (a \o b) = 1..(Len(s) - 1)
    <3>1. DOMAIN (a \o b) = 1..Len(a \o b)
      BY <1>4, LenProperties
    <3> QED BY <1>4, <3>1
  <2> QED BY <1>1, <1>5, <2>1 DEF Range
<1> QED BY <1>4, <1>6 DEF RemoveAt, a, b

-----------------------------------------------------------------------------
(* What the readers of the store say. *)

\* The assignments of a user in a project.
Assigned(rows, subject, scope) ==
  {n \in DOMAIN rows.assignments :
     /\ rows.assignments[n].user = subject.id
     /\ rows.assignments[n].project = scope.id}

Role(rows, n) == [type |-> RoleType, id |-> rows.assignments[n].role]

\* The c assignments of a user, in the order p, give its groups.
Listing(rows, subject, scope, c, p) ==
  /\ c \in Nat /\ p \in [1..c -> Assigned(rows, subject, scope)]
  /\ \A j, k \in 1..c : j < k => p[j] < p[k]
  /\ \A n \in Assigned(rows, subject, scope) : \E k \in 1..c : p[k] = n
  /\ GroupsForSubject(rows, subject, scope) = [k \in 1..c |-> Role(rows, p[k])]

\* The groups of a user are the roles it is assigned, in order.
LEMMA GroupsAreRoles ==
  ASSUME NEW rows \in Rows, NEW subject, NEW scope,
         subject.type = UserType, scope.type = ProjectType
  PROVE  \E c, p : Listing(rows, subject, scope, c, p)
<1> DEFINE P == Assigned(rows, subject, scope)
           c == Cardinality(P)
           p == InOrder(P)
<1>1. Len(rows.assignments) \in Nat /\ P \in SUBSET (0..Len(rows.assignments))
  BY DEF Rows, Assigned
<1>2. /\ c \in Nat /\ p \in [1..c -> P]
      /\ \A j, k \in 1..c : j < k => p[j] < p[k]
      /\ \A n \in P : \E k \in 1..c : p[k] = n
  <2> HIDE DEF P
  <2> QED BY <1>1, InOrderIsAll
<1>3. GroupsForSubject(rows, subject, scope) = [k \in DOMAIN p |-> Role(rows, p[k])]
  BY DEF GroupsForSubject, Assigned, Role
<1> HIDE DEF p, c
<1>4. GroupsForSubject(rows, subject, scope) = [k \in 1..c |-> Role(rows, p[k])]
  BY <1>2, <1>3
<1>5. Listing(rows, subject, scope, c, p)
  BY <1>2, <1>4 DEF Listing
<1> QED BY <1>5

\* As a set they are the roles assigned.
LEMMA GroupsAreAssigned ==
  ASSUME NEW rows \in Rows, NEW subject, NEW scope
  PROVE  Range(GroupsForSubject(rows, subject, scope)) =
           IF subject.type = UserType /\ scope.type = ProjectType
             THEN {Role(rows, n) : n \in Assigned(rows, subject, scope)} ELSE {}
<1>1. CASE subject.type = UserType /\ scope.type = ProjectType
  <2>1. PICK c, p : Listing(rows, subject, scope, c, p)
    BY <1>1, GroupsAreRoles
  <2>2. /\ p \in [1..c -> Assigned(rows, subject, scope)]
        /\ \A n \in Assigned(rows, subject, scope) : \E k \in 1..c : p[k] = n
        /\ GroupsForSubject(rows, subject, scope) = [k \in 1..c |-> Role(rows, p[k])]
    BY <2>1 DEF Listing
  <2>3. Range([k \in 1..c |-> Role(rows, p[k])]) = {Role(rows, p[k]) : k \in 1..c}
    BY DEF Range
  <2>4. {Role(rows, p[k]) : k \in 1..c} = {Role(rows, n) : n \in Assigned(rows, subject, scope)}
    BY <2>2
  <2> QED BY <1>1, <2>2, <2>3, <2>4
<1>2. CASE ~(subject.type = UserType /\ scope.type = ProjectType)
  <2>1. GroupsForSubject(rows, subject, scope) = <<>>
    BY <1>2 DEF GroupsForSubject
  <2> QED BY <1>2, <2>1 DEF Range
<1> QED BY <1>1, <1>2

\* Fewer rows say yes to no more, and list no more.
LEMMA FewerSayLess ==
  ASSUME NEW S \in Rows, NEW T \in Rows, Fewer(S, T), NEW l
  PROVE  /\ Says(S, l) => Says(T, l)
         /\ Range(Listed(S, l)) \subseteq Range(Listed(T, l))
<1>1. \A resource, scope : ResourceInScope(S, resource, scope) => ResourceInScope(T, resource, scope)
  BY DEF ResourceInScope, Fewer
<1>2. \A subject, scope : HasMembership(S, subject, scope) => HasMembership(T, subject, scope)
  BY DEF HasMembership, Fewer
<1>3. \A principal, r : HasPermission(S, principal, r) => HasPermission(T, principal, r)
  BY DEF HasPermission, Fewer, Range
<1>4. ASSUME NEW subject, NEW scope
      PROVE  Range(GroupsForSubject(S, subject, scope))
               \subseteq Range(GroupsForSubject(T, subject, scope))
  <2>1. \A n \in DOMAIN S.assignments : \E k \in DOMAIN T.assignments :
          S.assignments[n] = T.assignments[k]
    BY DEF Fewer, Range
  <2>2. {Role(S, n) : n \in Assigned(S, subject, scope)}
          \subseteq {Role(T, n) : n \in Assigned(T, subject, scope)}
    BY <2>1 DEF Assigned, Role
  <2> QED BY <2>2, GroupsAreAssigned
<1>5. Says(S, l) => Says(T, l)
  BY <1>1, <1>2, <1>3 DEF Says
<1>6. Range(Listed(S, l)) \subseteq Range(Listed(T, l))
  <2>1. CASE l.reader = "GroupsForSubject"
    BY <1>4, <2>1 DEF Listed
  <2>2. CASE l.reader # "GroupsForSubject"
    BY <2>2 DEF Listed, Range
  <2> QED BY <2>1, <2>2
<1> QED BY <1>5, <1>6

\* What a reader returns is what the rows say to the lookup, made alone or not.
LEMMA StoreResultSays ==
  ASSUME TypeOK, NEW l \in call
  PROVE  StoreResult(l) = [ok |-> Says(tables, l), err |-> Nil, groups |-> Listed(tables, l)]
<1>1. l \in Lookups
  BY DEF TypeOK
<1>2. l.reader \in {"ResourceInScope", "HasMembership", "GroupsForSubject", "HasPermission"}
  BY <1>1 DEF Lookups
<1>3. CASE l.reader = "HasPermission"
  <2>1. HasPermissions(tables, {m.about : m \in call})[l.about]
          = HasPermission(tables, l.about[1], l.about[2])
    BY DEF HasPermissions, HasPermission, GrantKey
  <2> QED BY <1>3, <2>1 DEF StoreResult, StoreSays, Says, Listed
<1>4. CASE l.reader # "HasPermission"
  BY <1>2, <1>4 DEF StoreResult, StoreSays, Says, Listed
<1> QED BY <1>3, <1>4

-----------------------------------------------------------------------------
(* The run inside the call. *)

\* A reply leaves the run alone.
LEMMA RepliesLeaveTheRun ==
  ASSUME entry \in EntryPoint, RefuseBatch \/ ReplyResults
  PROVE  UNCHANGED <<vars, entry>>
BY DEF RefuseBatch, ReplyResults, GiveReply, EntryPoint

\* A step of the call is a step of the run, or leaves the run alone.
LEMMA StoreStepsRun ==
  ASSUME entry \in EntryPoint, [StoreNext]_storeVars
  PROVE  [Next]_vars /\ entry' = entry
<1>1. CASE Running(RunStep) \/ Running(StoreReturns) \/ Running(Cancel)
  BY <1>1 DEF Running, StoreReturns, Next
<1>2. CASE RefuseBatch \/ ReplyResults
  BY <1>2, RepliesLeaveTheRun
<1>3. CASE UNCHANGED engineVars
  BY <1>3 DEF engineVars
<1> QED BY <1>1, <1>2, <1>3 DEF StoreNext, EngineDone, Revoke, storeVars

\* No step changes the outcome of a run that has returned.
LEMMA OutcomeStays ==
  ASSUME IInv, [Next]_vars, stage = Returned
  PROVE  stage' = Returned /\ items' = items
<1>1. todo = {}
  BY NothingLeft DEF IInv, TypeOK
<1>2. ~RunStep
  BY <1>1 DEF RunStep, Validate, CheckConfiguration, EnterStage, SkipStage, NextStage,
     CallReader, RefuseCall, NextCalls, Asker, Unasked, AsksInBulk, Return, Returned,
     Started, Validated, Configured, Groups, GroupPermissions
<1> QED BY <1>2 DEF Next, ReaderReturns, Cancel, Done, vars

\* No step changes the requests of a batch.
LEMMA RequestsStay ==
  ASSUME IInv, [Next]_vars
  PROVE  /\ DOMAIN items' = DOMAIN items
         /\ \A i \in DOMAIN items : items'[i].request = items[i].request
<1> DEFINE Kept == /\ DOMAIN items' = DOMAIN items
                   /\ \A i \in DOMAIN items : items'[i].request = items[i].request
<1>1. CASE Validate
  <2>1. \A i \in DOMAIN items : /\ items[i] \in Item /\ ~items[i].done
                                /\ Sound(answers, ctxErr, items[i], Started)
    BY <1>1 DEF Validate, IInv, TypeOK, Pending, Past, ResourceScopes, Started
  <2>2. \A i \in DOMAIN items : ValidationOutcome(items[i]).request = items[i].request
    BY <2>1, ValidationSound
  <2> QED BY <1>1, <2>2 DEF Validate
<1>2. CASE CheckConfiguration \/ SkipStage
  <2>1. \A i \in DOMAIN items : items[i] \in Item
    BY DEF IInv, TypeOK
  <2>2. \A err : \A i \in DOMAIN items : Fail(items[i], err).request = items[i].request
    BY <2>1 DEF Fail, Item
  <2>3. \A err : /\ DOMAIN FailPending(err) = DOMAIN items
                 /\ \A i \in DOMAIN items : FailPending(err)[i].request = items[i].request
    BY <2>2 DEF FailPending
  <2>4. items' = items \/ \E err : items' = FailPending(err)
    BY <1>2 DEF CheckConfiguration, SkipStage
  <2> QED BY <2>3, <2>4
<1>3. ASSUME NEW i \in todo, NEW item, Settle(i, item), item.request = items[i].request
      PROVE  Kept
  BY <1>3 DEF Settle
<1>4. ASSUME NEW i \in todo,
             \/ VerifyResourceScope(i)
             \/ ConfirmMembership(i)
             \/ CheckDirectPermission(i)
             \/ ResolveGroups(i)
             \/ CheckGroupPermission(i)
      PROVE  Kept
  <2> USE DEF ResourceScopes, Memberships, DirectPermissions, Groups, GroupPermissions,
              Configured
  <2>1. CASE VerifyResourceScope(i)
    BY <1>3, <2>1, SettleReady, ResourceScopeSound DEF VerifyResourceScope
  <2>2. CASE ConfirmMembership(i)
    BY <1>3, <2>2, SettleReady, MembershipSound DEF ConfirmMembership
  <2>3. CASE CheckDirectPermission(i)
    BY <1>3, <2>3, SettleReady, DirectSound DEF CheckDirectPermission
  <2>4. CASE ResolveGroups(i)
    BY <1>3, <2>4, SettleReady, GroupsSound DEF ResolveGroups
  <2>5. CASE CheckGroupPermission(i)
    BY <1>3, <2>5, SettleReady, GroupPermissionSound DEF CheckGroupPermission
  <2> QED BY <1>4, <2>1, <2>2, <2>3, <2>4, <2>5
<1>5. CASE items' = items
  BY <1>5
<1>6. CASE RunStep
  BY <1>1, <1>2, <1>4, <1>5, <1>6
  DEF RunStep, EnterStage, CallReader, RefuseCall, Return
<1>7. CASE ReaderReturns \/ Cancel \/ UNCHANGED vars
  BY <1>5, <1>7 DEF ReaderReturns, Cancel, vars
<1> QED BY <1>6, <1>7 DEF Next, Done

-----------------------------------------------------------------------------
(* The store only loses rows, and answers from those it has. *)

\* A removed row is one fewer, and the store is never again what it was.
LEMMA RevokeTakesRows ==
  ASSUME RowsOnlyGo, Revoke
  PROVE  /\ tables' \in Rows /\ Fewer(tables', tables)
         /\ RowsOnlyGo' /\ tables' # before /\ before' = before
<1>1. /\ tables \in Rows /\ before \in Rows /\ before' = before
      /\ Fewer(tables, before)
      /\ Len(tables.assignments) <= Len(before.assignments)
      /\ Len(tables.grants) <= Len(before.grants)
  BY DEF RowsOnlyGo, Revoke
<1>2. /\ Len(tables.assignments) \in Nat /\ Len(before.assignments) \in Nat
      /\ Len(tables.grants) \in Nat /\ Len(before.grants) \in Nat
  BY <1>1 DEF Rows
<1> DEFINE Lost == /\ tables' \in Rows /\ Fewer(tables', tables) /\ tables' # before
                   /\ Len(tables'.assignments) <= Len(tables.assignments)
                   /\ Len(tables'.grants) <= Len(tables.grants)
<1>3. ASSUME NEW row \in tables.documents,
             tables' = [tables EXCEPT !.documents = @ \ {row}]
      PROVE  Lost
  <2> DEFINE left == tables.documents \ {row}
  <2>1. left \in SUBSET (Text \X Text) /\ left \subseteq tables.documents /\ row \notin left
    BY <1>1 DEF Rows
  <2>2. tables' = [tables EXCEPT !.documents = left]
    BY <1>3
  <2> HIDE DEF left
  <2>3. tables' \in Rows /\ tables'.documents = left
        /\ tables'.assignments = tables.assignments
        /\ tables'.grants = tables.grants /\ tables'.members = tables.members
    BY <1>1, <2>1, <2>2 DEF Rows
  <2>4. tables'.documents # before.documents
    BY <1>1, <1>3, <2>1, <2>3 DEF Fewer
  <2> QED BY <1>2, <2>1, <2>3, <2>4 DEF Fewer
<1>4. ASSUME NEW row \in tables.members,
             tables' = [tables EXCEPT !.members = @ \ {row}]
      PROVE  Lost
  <2> DEFINE left == tables.members \ {row}
  <2>1. left \in SUBSET (Text \X Text) /\ left \subseteq tables.members /\ row \notin left
    BY <1>1 DEF Rows
  <2>2. tables' = [tables EXCEPT !.members = left]
    BY <1>4
  <2> HIDE DEF left
  <2>3. tables' \in Rows /\ tables'.members = left
        /\ tables'.assignments = tables.assignments
        /\ tables'.grants = tables.grants /\ tables'.documents = tables.documents
    BY <1>1, <2>1, <2>2 DEF Rows
  <2>4. tables'.members # before.members
    BY <1>1, <1>4, <2>1, <2>3 DEF Fewer
  <2> QED BY <1>2, <2>1, <2>3, <2>4 DEF Fewer
<1>5. ASSUME NEW n \in DOMAIN tables.assignments,
             tables' = [tables EXCEPT !.assignments = RemoveAt(@, n)]
      PROVE  Lost
  <2> DEFINE A == [user : Text, project : Text, role : Text]
             left == RemoveAt(tables.assignments, n)
  <2>1. tables.assignments \in Seq(A)
    BY <1>1 DEF Rows
  <2>2. /\ left \in Seq(A) /\ Len(left) = Len(tables.assignments) - 1
        /\ Range(left) \subseteq Range(tables.assignments)
    <3> HIDE DEF A
    <3> QED BY <2>1, RemovedAt
  <2>3. tables' = [tables EXCEPT !.assignments = left]
    BY <1>5
  <2> HIDE DEF left
  <2>4. tables' \in Rows /\ tables'.assignments = left
        /\ tables'.grants = tables.grants
        /\ tables'.documents = tables.documents /\ tables'.members = tables.members
    BY <1>1, <2>2, <2>3 DEF Rows
  <2>5. tables'.assignments # before.assignments
    BY <1>1, <1>2, <2>2, <2>4
  <2> QED BY <1>1, <1>2, <2>2, <2>4, <2>5 DEF Fewer
<1>6. ASSUME NEW n \in DOMAIN tables.grants,
             tables' = [tables EXCEPT !.grants = RemoveAt(@, n)]
      PROVE  Lost
  <2> DEFINE G == [kind : {"subject", "group"}, id : Text, action : Text,
                   resource : Text, project : Text]
             left == RemoveAt(tables.grants, n)
  <2>1. tables.grants \in Seq(G)
    BY <1>1 DEF Rows
  <2>2. /\ left \in Seq(G) /\ Len(left) = Len(tables.grants) - 1
        /\ Range(left) \subseteq Range(tables.grants)
    <3> HIDE DEF G
    <3> QED BY <2>1, RemovedAt
  <2>3. tables' = [tables EXCEPT !.grants = left]
    BY <1>6
  <2> HIDE DEF left
  <2>4. tables' \in Rows /\ tables'.grants = left
        /\ tables'.assignments = tables.assignments
        /\ tables'.documents = tables.documents /\ tables'.members = tables.members
    BY <1>1, <2>2, <2>3 DEF Rows
  <2>5. tables'.grants # before.grants
    BY <1>1, <1>2, <2>2, <2>4
  <2> QED BY <1>1, <1>2, <2>2, <2>4, <2>5 DEF Fewer
<1>7. Lost
  <2> HIDE DEF Lost
  <2> QED BY <1>3, <1>4, <1>5, <1>6 DEF Revoke
<1>8. Fewer(tables', before)
  BY <1>1, <1>7 DEF Fewer
<1>9. Len(tables'.assignments) \in Nat /\ Len(tables'.grants) \in Nat
  BY <1>7 DEF Rows
<1>10. RowsOnlyGo'
  BY <1>1, <1>2, <1>7, <1>8, <1>9 DEF RowsOnlyGo, Fewer
<1> QED BY <1>1, <1>7, <1>10

\* Rows are removed, never added.
LEMMA RowsOnlyGoOn == RowsOnlyGo /\ [StoreNext]_storeVars => RowsOnlyGo'
<1> SUFFICES ASSUME RowsOnlyGo, [StoreNext]_storeVars PROVE RowsOnlyGo'
  OBVIOUS
<1>1. CASE UNCHANGED <<tables, before>>
  BY <1>1 DEF RowsOnlyGo, Fewer
<1>2. CASE Revoke
  BY <1>2, RevokeTakesRows
<1> QED BY <1>1, <1>2 DEF StoreNext, storeVars

\* What the store answers is a fact.
LEMMA StoreTellsFacts ==
  ASSUME RowsOnlyGo, TypeOK, CallInv, NEW l \in call,
         NEW a, a = [lookup |-> l, result |-> StoreResult(l)]
  PROVE  Fact(a)
<1>1. /\ a.lookup = l /\ a.result.ok = Says(tables, l)
      /\ a.result.err = Nil /\ a.result.groups = Listed(tables, l)
  BY StoreResultSays
<1>2. /\ Says(tables, l) => Says(before, l)
      /\ Range(Listed(tables, l)) \subseteq Range(Listed(before, l))
  BY FewerSayLess DEF RowsOnlyGo
<1>3. l.reader = "ResourceInScope" => RequiresResourceScopeCheck(l.about[1])
  <2>1. PICK i \in todo : l \in Needs(items[i])
    BY DEF CallInv, CallsAreWaitedFor, Missing
  <2> QED BY <2>1 DEF Needs, ResourceLookup, MembershipLookup, DirectLookup, GroupsLookup,
          GroupLookup, PermissionLookup, Lookup
<1> QED BY <1>1, <1>2, <1>3 DEF Fact

\* Only the readers add answers.
LEMMA OnlyReadersAnswer ==
  ASSUME entry \in EntryPoint, [StoreNext]_storeVars, ~Running(StoreReturns)
  PROVE  answers' = answers
<1>1. CASE Running(RunStep) \/ Running(Cancel)
  BY <1>1 DEF Running, RunStep, Validate, CheckConfiguration, EnterStage, SkipStage,
     CallReader, RefuseCall, Return, Settle, VerifyResourceScope, ConfirmMembership,
     CheckDirectPermission, ResolveGroups, CheckGroupPermission, Cancel
<1>2. CASE RefuseBatch \/ ReplyResults
  BY <1>2, RepliesLeaveTheRun DEF vars
<1>3. CASE UNCHANGED engineVars
  BY <1>3 DEF engineVars, vars
<1> QED BY <1>1, <1>2, <1>3 DEF StoreNext, EngineDone, Revoke, storeVars

\* Answers stay facts when rows go, and new ones are.
LEMMA AnswersStayFacts ==
  ASSUME IInv, CallInv, RowsOnlyGo, AnswersAreFacts, entry \in EntryPoint,
         [StoreNext]_storeVars
  PROVE  AnswersAreFacts'
<1>1. CASE Running(StoreReturns)
  <2>1. PICK results \in Replies :
          /\ Memoise(results)
          /\ answers' = answers \cup {[lookup |-> l, result |-> results[l]] : l \in call}
    BY <1>1 DEF Running, StoreReturns, ReaderReturns
  <2>2. \A l \in call : results[l] = StoreResult(l)
    <3>1. \A l \in call : seen'[l] = results[l]
      BY <2>1, RepliesAreResults DEF Memoise
    <3> QED BY <1>1, <3>1 DEF Running, StoreReturns
  <2>3. \A a \in answers' : Fact(a)
    BY <2>1, <2>2, StoreTellsFacts DEF IInv, AnswersAreFacts
  <2>4. UNCHANGED <<tables, before>>
    BY <1>1 DEF StoreNext, Revoke, storeVars, Running, StoreReturns, ReaderReturns,
       engineVars, vars
  <2> QED BY <2>3, <2>4 DEF AnswersAreFacts, Fact
<1>2. CASE Revoke
  <2>1. answers' = answers
    BY <1>2 DEF Revoke, engineVars, vars
  <2>2. /\ tables' \in Rows /\ Fewer(tables', tables)
        /\ tables' # before /\ before' = before
    BY <1>2, RevokeTakesRows
  <2>3. \A l : /\ Says(tables', l) => Says(tables, l)
               /\ Range(Listed(tables', l)) \subseteq Range(Listed(tables, l))
    BY <2>2, FewerSayLess DEF RowsOnlyGo
  <2>4. ASSUME NEW a \in answers
        PROVE  Fact(a)'
    BY <2>2, <2>3 DEF AnswersAreFacts, Fact
  <2> QED BY <2>1, <2>4 DEF AnswersAreFacts
<1>3. CASE ~Running(StoreReturns) /\ UNCHANGED <<tables, before>>
  BY <1>3, OnlyReadersAnswer DEF AnswersAreFacts, Fact
<1> QED BY <1>1, <1>2, <1>3 DEF StoreNext, storeVars

-----------------------------------------------------------------------------
(* How the requests of a run fail. *)

\* Validation fails a request that is not valid, for the reason it has.
LEMMA ValidationFails ==
  ASSUME IInv, Validate, NEW i \in DOMAIN items, ~IsValid(items[i].request)
  PROVE  /\ items'[i].done /\ items'[i].decision = NoDecision
         /\ items'[i].err = ValidateRequest(items[i].request)
<1> DEFINE item == items[i]
           err == ValidateRequest(item.request)
           step == Step(item, "request_validated", "failed", NoPrincipal, "unset")
<1>1. item \in Item /\ item.decision = NoDecision
  BY DEF Validate, IInv, TypeOK, Pending, Sound
<1>2. step \in Item /\ step.decision = NoDecision
  <2>1. /\ "request_validated" \in StageName /\ "failed" \in StepResult
        /\ NoPrincipal \in PrincipalRef /\ "unset" \in DecisionSource
    BY StepNames DEF StageName, StepResult
  <2> QED BY <1>1, <2>1, StepType
<1>3. items'[i] = Fail(step, err)
  BY DEF Validate, ValidationOutcome
<1>4. err \in Err
  BY ValidateRequestType
<1> HIDE DEF step, err
<1>5. /\ Fail(step, err).decision = step.decision
      /\ Fail(step, err).err = err /\ Fail(step, err).done
  BY <1>2, <1>4, FailType
<1> QED BY <1>2, <1>3, <1>5 DEF err

\* An invalid request stays failed.
LEMMA InvalidFailOn ==
  ASSUME IInv, InvalidFail, [Next]_vars
  PROVE  InvalidFail'
<1>1. /\ DOMAIN items' = DOMAIN items
      /\ \A i \in DOMAIN items : items'[i].request = items[i].request
  BY RequestsStay
<1>2. CASE Validate
  BY <1>1, <1>2, ValidationFails DEF InvalidFail
<1>3. CASE ~Validate
  <2>1. stage = Started => stage' = Started
    BY <1>3 DEF Next, RunStep, CheckConfiguration, EnterStage, SkipStage, NextStage,
       CallReader, RefuseCall, Return, Settle, VerifyResourceScope, ConfirmMembership,
       CheckDirectPermission, ResolveGroups, CheckGroupPermission, ReaderReturns,
       Cancel, Done, vars, Started, Validated, Configured, Groups, GroupPermissions
  <2>2. \A i \in DOMAIN items : items[i].done => items'[i] = items[i]
    BY FinalStep
  <2> QED BY <1>1, <2>1, <2>2 DEF InvalidFail
<1> QED BY <1>2, <1>3

\* A valid request has nothing to fail for while the context lives: the store
\* has every backend, and its readers return no error.
LEMMA NothingToFailFor ==
  ASSUME engine = NewEngine, AnswersAreFacts, ctxErr = Nil, NEW r, IsValid(r), NEW err
  PROVE  ~Promise!FailsFor(answers, r, err)
<1>1. Promise!IsValid(r)
  BY SameValidity
<1>2. Promise!MissingBackends = {}
  BY DEF Promise!MissingBackends, NewEngine
<1>3. Promise!Nil = Nil
  BY SameValues
<1>4. \A a \in answers : a.result.err = Nil
  BY DEF AnswersAreFacts, Fact
<1> QED BY <1>1, <1>2, <1>3, <1>4 DEF Promise!FailsFor

\* So it does not fail.
LEMMA OnlyContextFailsOn ==
  ASSUME engine = NewEngine, IInv, CallInv, GroupsAreListed, AnswersAreFacts,
         OnlyContextFails, [Next]_vars
  PROVE  OnlyContextFails'
<1>1. [Promise!Next]_Promise!vars
  BY NextPromised
<1>2. /\ DOMAIN items' = DOMAIN items
      /\ \A i \in DOMAIN items : items'[i].request = items[i].request
  BY RequestsStay
<1>3. SUFFICES ASSUME ctxErr' = Nil, NEW i \in DOMAIN items, IsValid(items[i].request)
               PROVE  items'[i].err = NoError
  BY <1>2 DEF OnlyContextFails
<1>4. ctxErr = Nil
  BY <1>1, <1>3, SameValues DEF Promise!Next, Promise!Learn, Promise!Settle, Promise!End,
     Promise!vars
<1>5. items[i].err = NoError
  BY <1>3, <1>4 DEF OnlyContextFails
<1> DEFINE Outcome(item) == [request |-> item.request, done |-> item.done,
                            decision |-> item.decision, err |-> item.err]
<1>6. CASE Outcome(items'[i]) = Outcome(items[i])
  BY <1>5, <1>6
<1>7. CASE Promise!Settle /\ Outcome(items'[i]) # Outcome(items[i])
  <2>1. \/ items'[i].err = Promise!NoError
        \/ Promise!FailsFor(answers, items[i].request, items'[i].err)
    BY <1>2, <1>7 DEF Promise!Settle
  <2> QED BY <1>3, <1>4, <2>1, NothingToFailFor, SameValues
<1>8. CASE Promise!Learn \/ Promise!End \/ UNCHANGED Promise!vars
  <2>1. [j \in DOMAIN items |-> Outcome(items[j])]' = [j \in DOMAIN items |-> Outcome(items[j])]
    BY <1>8 DEF Promise!Learn, Promise!End, Promise!vars
  <2> QED BY <1>2, <1>6, <2>1
<1> QED BY <1>1, <1>6, <1>7, <1>8 DEF Promise!Next

\* The run goes on as it must.
LEMMA RunGoesOn == RunInv /\ AnswersAreFacts /\ [Next]_vars => RunInv'
<1> SUFFICES ASSUME RunInv, AnswersAreFacts, [Next]_vars PROVE RunInv'
  OBVIOUS
<1>1. engine' = engine
  BY NextPromised DEF RunInv, Promise!Next, Promise!Learn, Promise!Settle, Promise!End,
     Promise!vars
<1> QED BY <1>1, NextIInv, NextCallInv, NextPromised, InvalidFailOn, OnlyContextFailsOn
        DEF RunInv, NewEngine

-----------------------------------------------------------------------------
(* What a call returns. *)

\* A batch is refused before it is run, and a reply is what the run came to.
LEMMA ReplyStays ==
  ASSUME IInv, ReplyIsTheOutcome, [StoreNext]_storeVars
  PROVE  ReplyIsTheOutcome'
<1>1. /\ [Next]_vars /\ entry' = entry /\ entry \in EntryPoint
      /\ DOMAIN items' = DOMAIN items
      /\ \A i \in DOMAIN items : items'[i].request = items[i].request
  BY StoreStepsRun, RequestsStay DEF ReplyIsTheOutcome
<1>2. Invalid' = Invalid
  BY <1>1 DEF Invalid
<1>3. Refused' = Refused
  BY <1>1, <1>2 DEF Refused
<1> DEFINE refusal == BatchReply(<<>>, Min(Invalid),
                                 ValidateRequest(items[Min(Invalid)].request))
<1>4. Refused => refusal' = refusal
  <2>1. ASSUME Refused PROVE Min(Invalid) \in DOMAIN items
    <3>1. DOMAIN items \subseteq Nat
      BY DEF IInv, TypeOK
    <3>2. Invalid \subseteq Nat /\ Invalid # {}
      BY <2>1, <3>1 DEF Refused, Invalid
    <3> QED BY <3>2, MinIsLeast DEF Invalid
  <2> QED BY <1>1, <1>2, <2>1
<1>5. UNCHANGED <<items, entry>> => EntryReply' = EntryReply
  BY DEF EntryReply, Outcomes
<1> HIDE DEF refusal
<1> SUFFICES /\ Refused => stage' = Started /\ answers' = {} /\ call' = {}
             /\ replied' => IF Refused THEN reply' = refusal'
                            ELSE stage' = Returned /\ reply' = EntryReply'
  BY <1>1, <1>3 DEF ReplyIsTheOutcome, refusal
<1>6. CASE Running(RunStep) \/ Running(StoreReturns) \/ Running(Cancel)
  <2>1. ~Refused /\ UNCHANGED <<replied, reply>>
    BY <1>6 DEF Running
  <2>2. stage = Returned => stage' = Returned /\ UNCHANGED <<items, entry>>
    BY <1>1, OutcomeStays
  <2> QED BY <1>5, <2>1, <2>2 DEF ReplyIsTheOutcome
<1>7. CASE RefuseBatch
  <2>1. UNCHANGED <<stage, items, answers, call>>
    BY <1>1, <1>7, RepliesLeaveTheRun DEF vars
  <2>2. Refused /\ reply' = refusal
    BY <1>7 DEF RefuseBatch, GiveReply, refusal
  <2> QED BY <1>4, <2>1, <2>2 DEF ReplyIsTheOutcome
<1>8. CASE ReplyResults
  <2>1. stage = Returned /\ reply' = EntryReply
    BY <1>8 DEF ReplyResults, GiveReply
  <2>2. UNCHANGED <<stage, items, entry, answers, call>>
    BY <1>1, <1>8, RepliesLeaveTheRun DEF vars
  <2>3. ~Refused
    BY <2>1 DEF ReplyIsTheOutcome, Started, Returned
  <2> QED BY <1>5, <2>1, <2>2, <2>3
<1>9. CASE UNCHANGED engineVars
  BY <1>4, <1>5, <1>9 DEF engineVars, vars, ReplyIsTheOutcome, refusal
<1> QED BY <1>6, <1>7, <1>8, <1>9 DEF StoreNext, EngineDone, Revoke, storeVars

-----------------------------------------------------------------------------
(* The invariant is inductive. *)

\* A call starts in the invariant.
LEMMA InitStoreInv == StoreInit => StoreInv
<1> SUFFICES ASSUME StoreInit PROVE StoreInv
  OBVIOUS
<1>1. Init /\ entry \in Entries /\ replied = FALSE
  BY DEF StoreInit, EngineInit
<1>2. IInv /\ CallInv /\ GroupsAreListed
  BY <1>1, InitIInv, InitCallInv, InitPromised
<1>3. engine = NewEngine
  BY <1>1, StoreAssumption DEF Init, StoreAssumption
<1>4. InvalidFail
  BY <1>1 DEF Init, InvalidFail
<1>5. OnlyContextFails
  BY <1>1 DEF Init, OnlyContextFails, NewItem
<1>6. RowsOnlyGo
  <2>1. tables \in Rows /\ before = tables
    BY StoreAssumption DEF StoreAssumption, StoreInit
  <2>2. Len(tables.assignments) \in Nat /\ Len(tables.grants) \in Nat
    BY <2>1 DEF Rows
  <2> QED BY <2>1, <2>2 DEF RowsOnlyGo, Fewer
<1>7. AnswersAreFacts
  BY <1>1 DEF Init, AnswersAreFacts
<1>8. ReplyIsTheOutcome
  <2>1. entry \in EntryPoint
    BY <1>1, EntryAssumption DEF EntryAssumption
  <2>2. entry \in {"Check", "CheckDecision", "CheckTrace"} => DOMAIN items = {1}
    <3>1. items \in Seq(Item)
      BY <1>2 DEF IInv, TypeOK
    <3>2. entry \in {"Check", "CheckDecision", "CheckTrace"} => Len(items) = 1
      BY DEF StoreInit, EngineInit
    <3> QED BY <3>1, <3>2
  <2>3. stage = Started /\ answers = {} /\ call = {}
    BY <1>1 DEF Init
  <2> QED BY <1>1, <2>1, <2>2, <2>3 DEF ReplyIsTheOutcome
<1> QED BY <1>2, <1>3, <1>4, <1>5, <1>6, <1>7, <1>8 DEF StoreInv, RunInv

\* Every step keeps the invariant.
LEMMA NextStoreInv == StoreInv /\ [StoreNext]_storeVars => StoreInv'
<1> SUFFICES ASSUME StoreInv, [StoreNext]_storeVars PROVE StoreInv'
  OBVIOUS
<1>1. entry \in EntryPoint /\ IInv /\ CallInv
  BY DEF StoreInv, ReplyIsTheOutcome, RunInv
<1>2. RunInv'
  BY <1>1, StoreStepsRun, RunGoesOn DEF StoreInv
<1> QED BY <1>1, <1>2, RowsOnlyGoOn, AnswersStayFacts, ReplyStays DEF StoreInv

\* The invariant holds throughout every call.
LEMMA StoreInvariant == StoreSpec => []StoreInv
<1> QED BY InitStoreInv, NextStoreInv, PTL DEF StoreSpec

-----------------------------------------------------------------------------
(* What the rows say of a request, and what the reference makes of it. *)

\* Each question of the reference is what the rows say to the lookup for it.
LEMMA QuestionsAreLookups ==
  ASSUME NEW rows, NEW r
  PROVE  /\ InPlace(rows, r) <=>
              (RequiresResourceScopeCheck(r.resource) => Says(rows, ResourceLookup(r)))
         /\ Belongs(rows, r) <=> Says(rows, MembershipLookup(r))
         /\ r.scope.type = ProjectType =>
              /\ Granted(rows, "subject", r.subject.id, r) <=> Says(rows, DirectLookup(r))
              /\ \A item, k :
                   item.request = r =>
                     (Granted(rows, "group", item.groups[k].id, r)
                        <=> Says(rows, GroupLookup(item, k)))
<1> USE DEF Says, Lookup, ProjectType
<1>1. InPlace(rows, r) <=>
        (RequiresResourceScopeCheck(r.resource) => Says(rows, ResourceLookup(r)))
  BY DEF InPlace, RequiresResourceScopeCheck, ResourceLookup, ResourceInScope, DocumentType
<1>2. Belongs(rows, r) <=> Says(rows, MembershipLookup(r))
  BY DEF Belongs, MembershipLookup, HasMembership, UserType
<1>3. ASSUME NEW kind, NEW id, NEW principal, principal.kind = kind, principal.id = id,
             r.scope.type = ProjectType
      PROVE  Granted(rows, kind, id, r) <=> Says(rows, PermissionLookup(principal, r))
  <2>1. GrantFor(principal, r) =
          [kind |-> kind, id |-> id, action |-> r.action,
           resource |-> r.resource.type, project |-> r.scope.id]
    BY <1>3 DEF GrantFor, Grant
  <2>2. Says(rows, PermissionLookup(principal, r)) <=> HasPermission(rows, principal, r)
    BY DEF PermissionLookup
  <2> QED BY <1>3, <2>1, <2>2 DEF Granted, HasPermission
<1>4. SubjectPrincipal(r.subject).kind = "subject"
      /\ SubjectPrincipal(r.subject).id = r.subject.id
  BY DEF SubjectPrincipal
<1>5. \A g : GroupPrincipal(g).kind = "group" /\ GroupPrincipal(g).id = g.id
  BY DEF GroupPrincipal
<1>6. r.scope.type = ProjectType =>
        (Granted(rows, "subject", r.subject.id, r) <=> Says(rows, DirectLookup(r)))
  BY <1>3, <1>4 DEF DirectLookup
<1>7. ASSUME r.scope.type = ProjectType, NEW item, NEW k, item.request = r
      PROVE  Granted(rows, "group", item.groups[k].id, r) <=> Says(rows, GroupLookup(item, k))
  BY <1>3, <1>5, <1>7 DEF GroupLookup
<1> QED BY <1>1, <1>2, <1>6, <1>7

\* The assignments that grant are those of a role that holds the permission.
LEMMA GrantingAssigned ==
  ASSUME NEW rows, NEW r
  PROVE  Granting(rows, r) =
           {n \in Assigned(rows, r.subject, r.scope) :
              Granted(rows, "group", rows.assignments[n].role, r)}
BY DEF Granting, Assigned

\* A verdict allows when the subject belongs, the resource is in place, and the
\* permission is granted to it or one of its roles.
LEMMA VerdictAllows ==
  ASSUME NEW rows, NEW r
  PROVE  Verdict(rows, r).allowed <=>
           /\ InPlace(rows, r) /\ Belongs(rows, r)
           /\ Granted(rows, "subject", r.subject.id, r) \/ Granting(rows, r) # {}
<1>1. \A reason : Denial(reason).allowed = FALSE
  BY DEF Denial, NoDecision
<1>2. \A reason, source, principal : Allow(reason, source, principal).allowed = TRUE
  BY DEF Allow
<1> QED BY <1>1, <1>2, Zenon DEF Verdict

\* What the answers of a store say of its rows, then and now.
LEMMA AnswersTell ==
  ASSUME AnswersAreFacts, NEW l
  PROVE  /\ SaidYes(answers, l) => Says(before, l)
         /\ SaidNo(answers, l) => ~Says(tables, l)
         /\ SaidNo(answers, l) /\ l.reader = "ResourceInScope" =>
              RequiresResourceScopeCheck(l.about[1])
BY DEF AnswersAreFacts, Fact, SaidYes, SaidNo, SaysYes, SaysNo

\* What they say of the request of an item.
LEMMA AnswersTellItem ==
  ASSUME AnswersAreFacts, NEW item, NEW r, r = item.request
  PROVE  /\ InScope(answers, r) => InPlace(before, r)
         /\ IsMember(answers, r) => Belongs(before, r)
         /\ SaidNo(answers, ResourceLookup(r)) => ~InPlace(tables, r)
         /\ SaidNo(answers, MembershipLookup(r)) => ~Belongs(tables, r)
         /\ r.scope.type = ProjectType =>
              /\ SaidYes(answers, DirectLookup(r)) =>
                   Granted(before, "subject", r.subject.id, r)
              /\ SaidNo(answers, DirectLookup(r)) =>
                   ~Granted(tables, "subject", r.subject.id, r)
              /\ \A k : SaidYes(answers, GroupLookup(item, k)) =>
                          Granted(before, "group", item.groups[k].id, r)
              /\ \A k : SaidNo(answers, GroupLookup(item, k)) =>
                          ~Granted(tables, "group", item.groups[k].id, r)
<1>1. /\ ResourceLookup(r).reader = "ResourceInScope"
      /\ ResourceLookup(r).about[1] = r.resource
  BY DEF ResourceLookup, Lookup
<1> QED BY <1>1, QuestionsAreLookups, AnswersTell DEF InScope, IsMember

\* The groups an item was given, against the roles of its subject.
LEMMA GroupsTell ==
  ASSUME RowsOnlyGo, AnswersAreFacts, NEW item, NEW r, r = item.request,
         SaidGroups(answers, item), Belongs(before, r)
  PROVE  /\ \A k \in DOMAIN item.groups :
              \E n \in Assigned(before, r.subject, r.scope) :
                item.groups[k] = Role(before, n)
         /\ \A n \in Assigned(tables, r.subject, r.scope) :
              \E k \in DOMAIN item.groups : item.groups[k] = Role(tables, n)
         /\ tables = before =>
              item.groups = GroupsForSubject(before, r.subject, r.scope)
<1> DEFINE l == GroupsLookup(r)
<1>1. \A rows : Listed(rows, l) = GroupsForSubject(rows, r.subject, r.scope)
  BY DEF Listed, GroupsLookup, Lookup
<1>2. PICK a \in answers : a.lookup = l /\ a.result.groups = item.groups
  BY DEF SaidGroups
<1>3. /\ Range(item.groups) \subseteq Range(GroupsForSubject(before, r.subject, r.scope))
      /\ Range(GroupsForSubject(tables, r.subject, r.scope)) \subseteq Range(item.groups)
      /\ tables = before => item.groups = GroupsForSubject(before, r.subject, r.scope)
  BY <1>1, <1>2 DEF AnswersAreFacts, Fact
<1>4. \A rows \in {before, tables} :
        Range(GroupsForSubject(rows, r.subject, r.scope))
          = {Role(rows, n) : n \in Assigned(rows, r.subject, r.scope)}
  <2>1. r.subject.type = UserType /\ r.scope.type = ProjectType
    BY DEF Belongs, UserType, ProjectType
  <2> QED BY <2>1, GroupsAreAssigned DEF RowsOnlyGo
<1>5. \A k \in DOMAIN item.groups :
        \E n \in Assigned(before, r.subject, r.scope) : item.groups[k] = Role(before, n)
  <2>1. Range(item.groups) \subseteq
          {Role(before, n) : n \in Assigned(before, r.subject, r.scope)}
    BY <1>3, <1>4
  <2> QED BY <2>1 DEF Range
<1>6. \A n \in Assigned(tables, r.subject, r.scope) :
        \E k \in DOMAIN item.groups : item.groups[k] = Role(tables, n)
  <2>1. {Role(tables, n) : n \in Assigned(tables, r.subject, r.scope)}
          \subseteq Range(item.groups)
    BY <1>3, <1>4
  <2> QED BY <2>1 DEF Range
<1> QED BY <1>3, <1>5, <1>6

-----------------------------------------------------------------------------
(* Decisions and the rows. *)

\* Whoever is allowed belonged, its resource was in place, and the permission
\* was granted, when the call started.
LEMMA AllowedByRows ==
  ASSUME StoreInv, NEW i \in DOMAIN items, items[i].decision.allowed
  PROVE  Verdict(before, items[i].request).allowed
<1> DEFINE item == items[i]
           r == item.request
<1>1. Earned(answers, item) /\ RowsOnlyGo /\ AnswersAreFacts
  BY DEF StoreInv, RunInv, IInv, Sound
<1> HIDE DEF item
<1>2. InPlace(before, r) /\ Belongs(before, r)
  BY <1>1, AnswersTellItem DEF Earned
<1>3. r.scope.type = ProjectType
  BY <1>2 DEF Belongs, ProjectType
<1>4. CASE SaidYes(answers, DirectLookup(r))
  BY <1>1, <1>2, <1>3, <1>4, AnswersTellItem, VerdictAllows DEF item
<1>5. CASE ~SaidYes(answers, DirectLookup(r))
  <2>1. PICK k \in DOMAIN item.groups : SaidYes(answers, GroupLookup(item, k))
    BY <1>1, <1>5 DEF Earned, MatchesFirst
  <2>2. SaidGroups(answers, item)
    BY <1>1, <1>5 DEF Earned
  <2>3. PICK n \in Assigned(before, r.subject, r.scope) : item.groups[k] = Role(before, n)
    BY <1>1, <1>2, <2>2, GroupsTell
  <2>4. Granted(before, "group", item.groups[k].id, r)
    BY <1>1, <1>3, <2>1, AnswersTellItem
  <2>5. n \in Granting(before, r)
    BY <2>3, <2>4, GrantingAssigned DEF Role
  <2> QED BY <1>2, <2>5, VerdictAllows DEF item
<1> QED BY <1>4, <1>5

\* Whoever is denied is not allowed by the rows that are left.
LEMMA DeniedByRows ==
  ASSUME StoreInv, NEW i \in DOMAIN items, items[i].done, items[i].err = NoError,
         ~items[i].decision.allowed
  PROVE  ~Verdict(tables, items[i].request).allowed
<1> DEFINE item == items[i]
           r == item.request
<1>1. Evidenced(answers, item) /\ RowsOnlyGo /\ AnswersAreFacts
  BY DEF StoreInv, RunInv, IInv, Sound
<1> HIDE DEF item
<1>2. CASE SaidNo(answers, ResourceLookup(r)) \/ SaidNo(answers, MembershipLookup(r))
  BY <1>1, <1>2, AnswersTellItem, VerdictAllows DEF item
<1>3. CASE ~(SaidNo(answers, ResourceLookup(r)) \/ SaidNo(answers, MembershipLookup(r)))
  <2>1. /\ IsMember(answers, r) /\ SaidNo(answers, DirectLookup(r))
        /\ SaidGroups(answers, item)
        /\ \A k \in DOMAIN item.groups : SaidNo(answers, GroupLookup(item, k))
    BY <1>1, <1>3 DEF Evidenced
  <2>2. Belongs(before, r) /\ r.scope.type = ProjectType
    BY <1>1, <2>1, AnswersTellItem DEF Belongs, ProjectType
  <2>3. /\ ~Granted(tables, "subject", r.subject.id, r)
        /\ \A k \in DOMAIN item.groups : ~Granted(tables, "group", item.groups[k].id, r)
    BY <1>1, <2>1, <2>2, AnswersTellItem
  <2>4. ASSUME NEW n \in Granting(tables, r) PROVE FALSE
    <3>1. /\ n \in Assigned(tables, r.subject, r.scope)
          /\ Granted(tables, "group", tables.assignments[n].role, r)
      BY GrantingAssigned
    <3>2. PICK k \in DOMAIN item.groups : item.groups[k] = Role(tables, n)
      BY <1>1, <2>1, <2>2, <3>1, GroupsTell
    <3> QED BY <2>3, <3>1, <3>2 DEF Role
  <2> QED BY <2>3, <2>4, VerdictAllows DEF item
<1> QED BY <1>2, <1>3

\* While no row has gone a decision is the verdict of the rows: in particular
\* the group it names is the role of the first assignment that grants.
LEMMA DecidedAsRowsSay ==
  ASSUME StoreInv, tables = before, NEW i \in DOMAIN items, items[i].done,
         items[i].err = NoError
  PROVE  items[i].decision = Verdict(before, items[i].request)
<1> DEFINE item == items[i]
           r == item.request
<1>1. /\ RowsOnlyGo /\ AnswersAreFacts /\ before \in Rows
      /\ item.decision.allowed => Earned(answers, item)
      /\ ~item.decision.allowed => Evidenced(answers, item)
  BY DEF StoreInv, RunInv, IInv, Sound, RowsOnlyGo
<1>2. /\ item.decision.allowed => Verdict(before, r).allowed
      /\ ~item.decision.allowed => ~Verdict(before, r).allowed
  BY AllowedByRows, DeniedByRows
<1> HIDE DEF item
<1>3. CASE ~item.decision.allowed
  <2>1. CASE /\ item.decision = Denial("resource_scope")
             /\ SaidNo(answers, ResourceLookup(r))
    BY <1>1, <2>1, AnswersTellItem DEF Verdict, item
  <2>2. CASE /\ item.decision = Denial("membership")
             /\ InScope(answers, r) /\ SaidNo(answers, MembershipLookup(r))
    BY <1>1, <2>2, AnswersTellItem DEF Verdict, item
  <2>3. CASE /\ item.decision = Denial("no_permission")
             /\ InScope(answers, r) /\ IsMember(answers, r)
    <3>1. InPlace(before, r) /\ Belongs(before, r)
      BY <1>1, <2>3, AnswersTellItem
    <3>2. ~Granted(before, "subject", r.subject.id, r) /\ Granting(before, r) = {}
      BY <1>2, <1>3, <3>1, VerdictAllows
    <3> QED BY <2>3, <3>1, <3>2 DEF Verdict, item
  <2> QED BY <1>1, <1>3, <2>1, <2>2, <2>3 DEF Evidenced
<1>4. CASE item.decision.allowed
  <2>1. InPlace(before, r) /\ Belongs(before, r)
    BY <1>1, <1>4, AnswersTellItem DEF Earned
  <2>2. r.subject.type = UserType /\ r.scope.type = ProjectType
    BY <2>1 DEF Belongs, UserType, ProjectType
  <2>3. CASE /\ item.decision = Allow("direct_permission", "direct",
                                      SubjectPrincipal(r.subject))
             /\ SaidYes(answers, DirectLookup(r))
    <3>1. Granted(before, "subject", r.subject.id, r)
      BY <1>1, <2>2, <2>3, AnswersTellItem
    <3> QED BY <2>1, <2>3, <3>1 DEF Verdict, item
  <2>4. ASSUME SaidNo(answers, DirectLookup(r)), SaidGroups(answers, item),
               NEW k \in DOMAIN item.groups,
               item.decision = Allow("group_permission", "group",
                                     GroupPrincipal(item.groups[k])),
               MatchesFirst(answers, item, k)
        PROVE  item.decision = Verdict(before, r)
    <3>1. PICK c, p : Listing(before, r.subject, r.scope, c, p)
      BY <1>1, <2>2, GroupsAreRoles
    <3>2. /\ c \in Nat /\ p \in [1..c -> Assigned(before, r.subject, r.scope)]
          /\ \A j, m \in 1..c : j < m => p[j] < p[m]
          /\ \A n \in Assigned(before, r.subject, r.scope) : \E m \in 1..c : p[m] = n
          /\ GroupsForSubject(before, r.subject, r.scope)
               = [m \in 1..c |-> Role(before, p[m])]
      BY <3>1 DEF Listing
    <3>3. item.groups = [m \in 1..c |-> Role(before, p[m])]
      BY <1>1, <2>1, <2>4, <3>2, GroupsTell
    <3>4. k \in 1..c /\ item.groups[k] = Role(before, p[k])
      BY <3>3
    <3>5. p[k] \in Granting(before, r)
      <4>1. Granted(before, "group", item.groups[k].id, r)
        BY <1>1, <2>2, <2>4, AnswersTellItem DEF MatchesFirst
      <4> QED BY <3>2, <3>4, <4>1, GrantingAssigned DEF Role
    <3>6. Granting(before, r) \subseteq Nat
      <4>1. DOMAIN before.assignments \subseteq Nat
        BY <1>1 DEF Rows
      <4> QED BY <4>1 DEF Granting
    <3>7. ASSUME NEW n \in Granting(before, r) PROVE p[k] <= n
      <4>1. n \in Assigned(before, r.subject, r.scope)
            /\ Granted(before, "group", before.assignments[n].role, r)
        BY GrantingAssigned
      <4>2. PICK m \in 1..c : p[m] = n
        BY <3>2, <4>1
      <4>3. ~(m < k)
        <5>1. SUFFICES ASSUME m < k PROVE FALSE
          OBVIOUS
        <5>2. m \in DOMAIN item.groups /\ item.groups[m].id = before.assignments[n].role
          BY <3>3, <4>2 DEF Role
        <5>3. SaidNo(answers, GroupLookup(item, m))
          BY <2>4, <5>1, <5>2 DEF MatchesFirst
        <5> QED BY <1>1, <2>2, <4>1, <5>2, <5>3, AnswersTellItem
      <4>4. m = k \/ p[k] < p[m]
        BY <3>2, <3>4, <4>3
      <4>5. p[k] \in Nat /\ n \in Nat
        BY <3>2, <3>4, <3>5, <3>6
      <4> QED BY <4>2, <4>4, <4>5
    <3>8. Min(Granting(before, r)) = p[k]
      <4> DEFINE G == Granting(before, r)
      <4>1. G \subseteq Nat /\ G # {}
        BY <3>5, <3>6
      <4> HIDE DEF G
      <4>2. Min(G) \in G /\ \A n \in G : Min(G) <= n
        BY <4>1, MinIsLeast
      <4>3. p[k] \in G /\ p[k] <= Min(G) /\ Min(G) <= p[k]
        BY <3>5, <3>7, <4>2 DEF G
      <4> QED BY <4>1, <4>2, <4>3 DEF G
    <3>9. ~Granted(before, "subject", r.subject.id, r)
      BY <1>1, <2>2, <2>4, AnswersTellItem DEF item
    <3>10. GroupPrincipal(item.groups[k])
            = [kind |-> "group", type |-> "project_role",
               id |-> before.assignments[p[k]].role]
      BY <3>4 DEF GroupPrincipal, Role, RoleType
    <3> QED BY <2>1, <2>4, <3>5, <3>8, <3>9, <3>10 DEF Verdict
  <2> QED BY <1>1, <1>4, <2>3, <2>4 DEF Earned, item
<1> QED BY <1>3, <1>4

\* When a run that no context ended and no revocation touched has returned,
\* every request has the outcome it has alone.
LEMMA OutcomesAsExpected ==
  ASSUME StoreInv, tables = before, ctxErr = Nil, stage = Returned, NEW i \in DOMAIN items
  PROVE  BatchResult(items[i].request, items[i].decision, items[i].err)
           = Expected(before, items[i].request)
<1> DEFINE item == items[i]
<1>1. item.done
  BY NothingLeft DEF StoreInv, RunInv, Pending
<1>2. CASE IsValid(item.request)
  <2>1. item.err = NoError
    BY <1>2 DEF StoreInv, RunInv, OnlyContextFails
  <2>2. item.decision = Verdict(before, item.request)
    BY <1>1, <2>1, DecidedAsRowsSay
  <2> QED BY <1>2, <2>1, <2>2 DEF Expected
<1>3. CASE ~IsValid(item.request)
  <2>1. item.decision = NoDecision /\ item.err = ValidateRequest(item.request)
    BY <1>3 DEF StoreInv, RunInv, InvalidFail, Returned, Started
  <2> QED BY <1>3, <2>1 DEF Expected
<1> QED BY <1>2, <1>3

-----------------------------------------------------------------------------
(* The theorems. *)

\* A request is allowed only if the tables allowed it when the call started, and
\* is allowed if they still do: a revocation during the run never makes a
\* decision that neither the old rows nor the new ones support.
THEOREM DecisionsFollowTheRows == StoreSpec => []DecidedByFacts
<1>1. ASSUME StoreInv, NEW i \in DOMAIN items, items[i].done, items[i].err = NoError
      PROVE  LET request == items[i].request
                 decision == items[i].decision
             IN /\ decision.allowed => Verdict(before, request).allowed
                /\ Verdict(tables, request).allowed => decision.allowed
                /\ tables = before => decision = Verdict(before, request)
  BY <1>1, AllowedByRows, DeniedByRows, DecidedAsRowsSay
<1>2. StoreInv => DecidedByFacts
  BY <1>1 DEF DecidedByFacts
<1> QED BY <1>2, StoreInvariant, PTL

\* Every entry point gives the answer the rows give, alone or in a batch.
THEOREM OneAnswerEverywhere == StoreSpec => []EntryPointsAgree
<1>1. ASSUME StoreInv, replied, tables = before, ctxErr = Nil
      PROVE  EntryPointsAgree
  <2> DEFINE expected == [i \in DOMAIN items |-> Expected(before, items[i].request)]
  <2>1. /\ entry \in EntryPoint /\ items \in Seq(Item)
        /\ entry \in {"Check", "CheckDecision", "CheckTrace"} => DOMAIN items = {1}
    BY <1>1 DEF StoreInv, ReplyIsTheOutcome, RunInv, IInv, TypeOK
  <2>2. CASE Refused
    <3>1. entry = "BatchCheck" /\ Invalid # {}
          /\ reply = BatchReply(<<>>, Min(Invalid),
                                ValidateRequest(items[Min(Invalid)].request))
      BY <1>1, <2>2 DEF StoreInv, ReplyIsTheOutcome, Refused
    <3>2. Min(Invalid) \in Invalid
      <4>1. Invalid \subseteq Nat
        BY <2>1 DEF Invalid
      <4> QED BY <3>1, <4>1, MinIsLeast
    <3>3. expected[Min(Invalid)].err = ValidateRequest(items[Min(Invalid)].request)
      BY <3>2 DEF Invalid, Expected, BatchResult
    <3> QED BY <3>1, <3>3 DEF EntryPointsAgree, BatchReply
  <2>3. CASE ~Refused
    <3>1. stage = Returned /\ reply = EntryReply
      BY <1>1, <2>3 DEF StoreInv, ReplyIsTheOutcome
    <3>2. \A i \in DOMAIN items :
            BatchResult(items[i].request, items[i].decision, items[i].err) = expected[i]
      BY <1>1, <3>1, OutcomesAsExpected
    <3>3. Outcomes = expected
      BY <3>2 DEF Outcomes
    <3>4. ASSUME NEW i \in DOMAIN items
          PROVE  expected[i].decision = items[i].decision /\ expected[i].err = items[i].err
      <4>1. /\ Outcomes[i].decision = items[i].decision
            /\ Outcomes[i].err = items[i].err
        BY DEF Outcomes, BatchResult
      <4> HIDE DEF expected
      <4> QED BY <3>3, <4>1
    <3>5. CASE entry = "BatchCheckResults"
      BY <3>1, <3>3, <3>5 DEF EntryPointsAgree, EntryReply
    <3>6. CASE entry = "BatchCheck"
      <4>1. Invalid = {} /\ reply = DecisionsOrError(expected)
        BY <2>3, <3>1, <3>3, <3>6 DEF Refused, EntryReply
      <4>2. {i \in DOMAIN expected : expected[i].err # NoError} = {}
        BY <4>1 DEF Invalid, Expected, BatchResult
      <4>3. reply = BatchReply([i \in DOMAIN expected |-> expected[i].decision], 0, NoError)
        BY <4>1, <4>2, Zenon DEF DecisionsOrError
      <4> QED BY <3>6, <4>1, <4>3 DEF EntryPointsAgree, BatchReply
    <3>7. CASE entry \in {"CheckDecision", "CheckTrace"}
      <4>1. reply.decision = items[1].decision /\ reply.err = items[1].err
        BY <3>1, <3>7 DEF EntryReply
      <4> QED BY <2>1, <3>4, <3>7, <4>1 DEF EntryPointsAgree
    <3>8. CASE entry = "Check"
      <4>1. /\ reply.allowed = (items[1].err = NoError /\ items[1].decision.allowed)
            /\ reply.err = items[1].err
        BY <3>1, <3>8 DEF EntryReply
      <4>2. 1 \in DOMAIN items /\ items[1].decision.allowed \in BOOLEAN
        <5>1. 1 \in DOMAIN items
          BY <2>1, <3>8
        <5>2. items[1] \in Item
          BY <2>1, <5>1
        <5> QED BY <5>1, <5>2 DEF Item, Decision
      <4>3. items[1].err # NoError => ~items[1].decision.allowed
        <5>1. Owned(answers, ctxErr, items[1])
          BY <1>1, <4>2 DEF StoreInv, RunInv, IInv, Sound
        <5> QED BY <5>1, NilTypes DEF Owned
      <4>4. reply.allowed = items[1].decision.allowed
        BY <4>1, <4>2, <4>3, Zenon
      <4> QED BY <3>4, <3>8, <4>1, <4>2, <4>4 DEF EntryPointsAgree
    <3> QED BY <2>1, <3>5, <3>6, <3>7, <3>8 DEF EntryPoint
  <2> QED BY <2>2, <2>3
<1>2. StoreInv => EntryPointsAgree
  BY <1>1 DEF EntryPointsAgree
<1> QED BY <1>2, StoreInvariant, PTL

\* BatchCheck asks nothing about a batch it refuses, and returns every decision
\* or none and the lowest failure.
THEOREM AllOrNothing == StoreSpec => []BatchCheckIsAllOrNothing
<1>1. ASSUME StoreInv, entry = "BatchCheck", replied, Invalid = {}
      PROVE  LET failed == {i \in DOMAIN items : items[i].err # NoError}
             IN IF failed = {}
                  THEN /\ reply.err = NoError
                       /\ reply.decisions = [i \in DOMAIN items |-> items[i].decision]
                  ELSE /\ reply.decisions = <<>>
                       /\ reply.index = Min(failed)
                       /\ reply.err = items[Min(failed)].err
  <2> DEFINE failed == {i \in DOMAIN items : items[i].err # NoError}
             failing == {i \in DOMAIN Outcomes : Outcomes[i].err # NoError}
  <2>1. reply = DecisionsOrError(Outcomes)
    BY <1>1 DEF StoreInv, ReplyIsTheOutcome, Refused, EntryReply
  <2>2. /\ DOMAIN Outcomes = DOMAIN items
        /\ \A i \in DOMAIN items : Outcomes[i].err = items[i].err
        /\ \A i \in DOMAIN items : Outcomes[i].decision = items[i].decision
    BY DEF Outcomes, BatchResult
  <2>3. failing = failed
    BY <2>2
  <2>4. DOMAIN items = 1..Len(items) /\ Len(items) \in Nat
    <3>1. items \in Seq(Item)
      BY <1>1 DEF StoreInv, RunInv, IInv, TypeOK
    <3> QED BY <3>1
  <2>5. CASE failed = {}
    <3>1. reply = BatchReply([i \in DOMAIN Outcomes |-> Outcomes[i].decision], 0, NoError)
      BY <2>1, <2>3, <2>5 DEF DecisionsOrError
    <3>2. reply.err = NoError
          /\ reply.decisions = [i \in DOMAIN items |-> items[i].decision]
      BY <2>2, <3>1 DEF BatchReply
    <3> QED BY <2>5, <3>2
  <2>6. CASE failed # {}
    <3>1. Min(failed) \in failed
      <4>1. failed \subseteq Nat /\ failed # {}
        BY <2>4, <2>6
      <4> HIDE DEF failed
      <4> QED BY <4>1, MinIsLeast
    <3>2. reply = BatchReply(<<>>, Min(failed), Outcomes[Min(failed)].err)
      BY <2>1, <2>3, <2>6 DEF DecisionsOrError
    <3> QED BY <2>2, <2>6, <3>1, <3>2 DEF BatchReply
  <2> QED BY <2>5, <2>6
<1>2. StoreInv /\ entry = "BatchCheck" /\ Invalid # {} => answers = {} /\ call = {}
  BY DEF StoreInv, ReplyIsTheOutcome, Refused
<1>3. StoreInv => BatchCheckIsAllOrNothing
  BY <1>1, <1>2 DEF BatchCheckIsAllOrNothing
<1> QED BY <1>3, StoreInvariant, PTL

=============================================================================
