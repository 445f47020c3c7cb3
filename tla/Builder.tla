------------------------------- MODULE Builder -------------------------------
(***************************************************************************)
(* The fluent builders (builder.go) and the authorization context they     *)
(* carry (authorization_context.go).                                       *)
(*                                                                         *)
(* Builders are values: every method returns a changed copy, and any copy   *)
(* may be derived from, or checked, at any later time.  What copies share   *)
(* is the heap: a context is a pointer to a node of a linked list, and      *)
(* WithValue puts a node in front of the receiver's list.  While a check is *)
(* under way other goroutines go on deriving, and what the authorizer finds *)
(* in the context is read from the heap at that moment.                     *)
(***************************************************************************)
EXTENDS Integers, Sequences, FiniteSetsExt

CONSTANTS
  Subjects, Actions, Resources, Scopes,  \* what the fields of a request are set to
  Unset,       \* the zero value of each of them
  Keys,        \* context keys
  Values,      \* context values
  Absent,      \* what Value reports for a key not found
  ActionLists, \* the argument lists of CanMany
  MaxBuilders, \* bound: how many builders are made in all
  MaxResults   \* bound: how many results a batch authorizer returns

ASSUME BuilderAssumption ==
  /\ Absent \notin Values
  /\ ActionLists \subseteq Seq(Actions)
  /\ MaxBuilders \in Nat /\ MaxResults \in Nat

VARIABLES
  authorizer,  \* what builders check with: none, a plain one, or a batch one
  nodes,       \* the heap of context nodes
  builders,    \* every Builder and MultiActionBuilder made so far
  check,       \* the Check under way, or NoCheck
  calls        \* history: the call that made each builder

vars == <<authorizer, nodes, builders, check, calls>>

\* A context is the index of its first node, NoContext when it is zero.
NoContext == 0

Node(parent, key, value) == [parent |-> parent, key |-> key, value |-> value]

-----------------------------------------------------------------------------
(* AuthorizationContext. *)

\* Faulty variant: the value stored first is found.
FindOldest[context \in 0..Len(nodes)] ==
  [key \in Keys |->
     IF context = NoContext THEN Absent
     ELSE LET node == nodes[context]
              older == FindOldest[node.parent][key]
          IN IF older # Absent \/ node.key # key THEN older ELSE node.value]

OldestContents(context) == FindOldest[context]

\* Value, for every key: that of the first node of the list that has the key.
Find[context \in 0..Len(nodes)] ==
  [key \in Keys |->
     IF context = NoContext THEN Absent
     ELSE IF nodes[context].key = key THEN nodes[context].value
     ELSE Find[nodes[context].parent][key]]

Contents(context) == Find[context]

\* Faulty variant: a key that comes again is given its new value in place.
WithInPlace(context, key, value) ==
  IF context # NoContext /\ nodes[context].key = key
    THEN [nodes |-> [nodes EXCEPT ![context].value = value], context |-> context]
    ELSE [nodes |-> Append(nodes, Node(context, key, value)),
          context |-> Len(nodes) + 1]

\* Faulty variant: a value that is already there is not stored again.
WithUnlessPresent(context, key, value) ==
  [nodes |-> IF Contents(context)[key] = value THEN nodes
             ELSE Append(nodes, Node(context, key, value)),
   context |-> Len(nodes) + 1]

With(context, key, value) ==
  [nodes |-> Append(nodes, Node(context, key, value)), context |-> Len(nodes) + 1]

-----------------------------------------------------------------------------
(* Builder and MultiActionBuilder differ in the list of actions. *)

Request(subject) ==
  [subject |-> subject, action |-> Unset, resource |-> Unset, scope |-> Unset,
   context |-> NoContext]

NewBuilder(subject) == [many |-> FALSE, request |-> Request(subject), actions |-> <<>>]

\* What Requests (or Request) returns for a builder.
RequestsOf(builder) ==
  IF builder.many
    THEN [n \in DOMAIN builder.actions |->
            [builder.request EXCEPT !.action = builder.actions[n]]]
    ELSE <<builder.request>>

\* What an authorizer answers to a request in CheckDecision or in a batch, and
\* in Check.  There may be a decision beside an error.
Answer == {[decision |-> "allow", err |-> "none"], [decision |-> "deny", err |-> "none"],
           [decision |-> "allow", err |-> "failed"]}

YesOrNo == [allowed : BOOLEAN, err : {"none", "failed"}]

\* A result: the action its request names, and the answer.
Result(action, says) == [action |-> action, says |-> says]

Results == [action : Actions, says : Answer]

\* What a batch authorizer may return: results in any number, naming any actions.
BatchResults == UNION {[1..n -> Results] : n \in 0..MaxResults}

\* Faulty variant: the decision is looked at without the error.
AllowedByDecision(says) ==
  [allowed |-> says.decision = "allow", decision |-> says.decision, err |-> says.err]

ActionDecision(says) ==
  [allowed |-> says.err = "none" /\ says.decision = "allow",
   decision |-> says.decision, err |-> says.err]

\* A Check: the builder it was called on, with the values of its context then
\* (history), the requests, what the authorizer was asked and found in their
\* contexts (history), whether it has answered the last call, its results and
\* how many of them are reported, and what Check returns: the decisions of a
\* MultiActionBuilder, the answer to a Builder.
Checking(n) ==
  [builder |-> n, values |-> Contents(builders[n].request.context),
   requests |-> RequestsOf(builders[n]), asked |-> <<>>, answered |-> FALSE,
   results |-> <<>>, reported |-> 0, decisions |-> <<>>,
   returned |-> [allowed |-> FALSE, err |-> "none"]]

NoCheck == [builder |-> 0, values |-> <<>>, requests |-> <<>>, asked |-> <<>>,
            answered |-> FALSE, results |-> <<>>, reported |-> 0, decisions |-> <<>>,
            returned |-> [allowed |-> FALSE, err |-> "none"]]

Underway == check.builder # 0

Many == builders[check.builder].many

Complete ==
  IF Many /\ authorizer = "plain"
    THEN check.reported = Len(check.requests)
    ELSE check.answered /\ check.reported = Len(check.results)

Asking(request) == [request |-> request, found |-> Contents(request.context)]

AskingAll == [n \in DOMAIN check.requests |-> Asking(check.requests[n])]

\* Faulty variant: the first result of an action stands.
ReportOnce(decisions, action, decision) ==
  [a \in DOMAIN decisions \cup {action} |->
     IF a \in DOMAIN decisions THEN decisions[a] ELSE decision]

\* The last result of an action stands.
Report(decisions, action, decision) ==
  [a \in DOMAIN decisions \cup {action} |->
     IF a = action THEN decision ELSE decisions[a]]

-----------------------------------------------------------------------------
Init ==
  /\ authorizer \in {"nil", "plain", "batch"}
  /\ nodes = <<>>
  /\ builders = <<>>
  /\ check = NoCheck
  /\ calls = <<>>

\* Derive(n, set, to, b): the call that sets something of builder n to a value
\* makes builder b.
Derive(n, set, to, b) ==
  /\ Len(builders) < MaxBuilders
  /\ builders' = Append(builders, b)
  /\ calls' = Append(calls, [on |-> n, set |-> set, to |-> to])
  /\ UNCHANGED <<authorizer, check>>

For(subject) ==
  /\ Derive(0, "subject", subject, NewBuilder(subject))
  /\ UNCHANGED nodes

Can(n, action) ==
  /\ ~builders[n].many
  /\ Derive(n, "action", action, [builders[n] EXCEPT !.request.action = action])
  /\ UNCHANGED nodes

CanMany(n, actions) ==
  /\ ~builders[n].many
  /\ Derive(n, "actions", actions,
            [builders[n] EXCEPT !.many = TRUE, !.actions = actions])
  /\ UNCHANGED nodes

On(n, resource) ==
  /\ Derive(n, "resource", resource, [builders[n] EXCEPT !.request.resource = resource])
  /\ UNCHANGED nodes

Within(n, scope) ==
  /\ Derive(n, "scope", scope, [builders[n] EXCEPT !.request.scope = scope])
  /\ UNCHANGED nodes

\* The context passed is the zero one, or that of another request.
WithContext(n, other) ==
  /\ Derive(n, "context", other,
            [builders[n] EXCEPT !.request.context =
               IF other = 0 THEN NoContext ELSE builders[other].request.context])
  /\ UNCHANGED nodes

WithValue(n, key, value) ==
  LET with == With(builders[n].request.context, key, value)
  IN /\ Derive(n, "value", <<key, value>>,
               [builders[n] EXCEPT !.request.context = with.context])
     /\ nodes' = with.nodes

-----------------------------------------------------------------------------
(* Builder.Check and MultiActionBuilder.Check. *)

\* Without an authorizer, Check returns ErrMissingAuthorizer at once.
StartCheck(n) ==
  /\ authorizer # "nil"
  /\ ~Underway
  /\ check' = Checking(n)
  /\ UNCHANGED <<authorizer, nodes, builders, calls>>

\* Builder.Check: the one request is put to the authorizer's Check, and what it
\* returns is returned.
AskSingle ==
  /\ Underway /\ ~Many
  /\ ~check.answered
  /\ \E says \in YesOrNo :
       check' = [check EXCEPT !.asked = AskingAll, !.answered = TRUE, !.returned = says]
  /\ UNCHANGED <<authorizer, nodes, builders, calls>>

\* The decision beside an error is dropped.
WithoutDecision(says) == IF says.err = "none" THEN says ELSE [says EXCEPT !.decision = "zero"]

\* The next request is put to the authorizer's CheckDecision, and reported.
AskOne ==
  /\ Underway /\ Many /\ authorizer = "plain"
  /\ ~Complete
  /\ \E says \in Answer :
       LET request == check.requests[check.reported + 1]
       IN check' = [check EXCEPT
            !.asked = Append(@, Asking(request)),
            !.results = Append(@, Result(request.action, says)),
            !.reported = @ + 1,
            !.decisions =
              Report(@, request.action, ActionDecision(WithoutDecision(says)))]
  /\ UNCHANGED <<authorizer, nodes, builders, calls>>

\* All requests are put to the authorizer in one call, which returns what it
\* likes: a result too few or too many, or of another action, is the same to
\* the loop that follows.
AskAll ==
  /\ Underway /\ Many /\ authorizer = "batch"
  /\ ~check.answered
  /\ \E results \in BatchResults :
       check' = [check EXCEPT !.asked = AskingAll, !.answered = TRUE, !.results = results]
  /\ UNCHANGED <<authorizer, nodes, builders, calls>>

\* The next result of that call is reported, for the action it names.
ReportOne ==
  /\ Underway /\ Many /\ authorizer = "batch"
  /\ check.answered /\ ~Complete
  /\ LET result == check.results[check.reported + 1]
     IN check' = [check EXCEPT
          !.reported = @ + 1,
          !.decisions = Report(@, result.action, ActionDecision(result.says))]
  /\ UNCHANGED <<authorizer, nodes, builders, calls>>

\* The caller has the result.
EndCheck ==
  /\ Underway /\ Complete
  /\ check' = NoCheck
  /\ UNCHANGED <<authorizer, nodes, builders, calls>>

DeriveFrom(n) ==
  \/ \E action \in Actions : Can(n, action)
  \/ \E actions \in ActionLists : CanMany(n, actions)
  \/ \E resource \in Resources : On(n, resource)
  \/ \E scope \in Scopes : Within(n, scope)
  \/ \E other \in {0} \cup DOMAIN builders : WithContext(n, other)
  \/ \E key \in Keys, value \in Values : WithValue(n, key, value)

Next ==
  \/ \E subject \in Subjects : For(subject)
  \/ \E n \in DOMAIN builders : DeriveFrom(n)
  \/ \E n \in DOMAIN builders : StartCheck(n)
  \/ AskSingle
  \/ AskOne
  \/ AskAll
  \/ ReportOne
  \/ EndCheck

Spec == Init /\ [][Next]_vars

=============================================================================
