-------------------------- MODULE BuilderProperties --------------------------
(***************************************************************************)
(* What builders, their contexts and their checks guarantee.               *)
(***************************************************************************)
EXTENDS Builder

Requests ==
  [subject : Subjects, action : Actions \cup {Unset},
   resource : Resources \cup {Unset}, scope : Scopes \cup {Unset},
   context : 0..Len(nodes)]

\* The types of the variables: contexts point into the heap, and its nodes to
\* older nodes only.
BuilderTypeOK ==
  /\ authorizer \in {"nil", "plain", "batch"}
  /\ \A n \in DOMAIN nodes : nodes[n] \in [parent : 0..(n - 1), key : Keys, value : Values]
  /\ builders \in Seq([many : BOOLEAN, request : Requests, actions : ActionLists \cup {<<>>}])
  /\ check.builder \in 0..Len(builders)
  /\ check.requests \in Seq(Requests)
  /\ Len(check.asked) <= Len(check.requests)
  /\ check.reported <= Len(check.results)
  /\ DOMAIN check.decisions \subseteq Actions

-----------------------------------------------------------------------------
(* The abstract specification. *)

Promise ==
  INSTANCE RequestValues WITH
    values <- [n \in DOMAIN builders |->
      [subject |-> builders[n].request.subject, action |-> builders[n].request.action,
       resource |-> builders[n].request.resource, scope |-> builders[n].request.scope,
       actions |-> builders[n].actions,
       context |-> Contents(builders[n].request.context)]]

\* Builders that share the nodes of one heap behave as values of their own: a
\* call makes a copy that differs in what the call sets, the latest value of a
\* key the one found, and changes no other builder, under check or not.
KeepsValues == Promise!Spec

-----------------------------------------------------------------------------
(* Checks. *)

\* The authorizer finds in every request it is asked the values the context
\* of the builder had when Check was called, and the builder's own subject,
\* resource and scope, whatever is derived from it in the meantime.
RequestsCarryTheirValues ==
  \A n \in DOMAIN check.asked :
    LET asked == check.asked[n]
        own == builders[check.builder].request
    IN /\ asked.found = check.values
       /\ [asked.request EXCEPT !.action = own.action] = own

\* The results that name an action, in the order they came.
ResultsFor(action) == {n \in DOMAIN check.results : check.results[n].action = action}

\* MultiActionBuilder.Check reports each action that a result names and no
\* other, with the last result that names it, whatever failed before it and
\* however many there are; an action is allowed only if that result allows it
\* without an error; and an authorizer that takes no batches is asked about
\* each requested action, and no other is reported.
ActionsAreAllReported ==
  Underway /\ Many /\ Complete =>
    LET actions == builders[check.builder].actions
    IN /\ \A action \in Actions :
            action \in DOMAIN check.decisions <=> ResultsFor(action) # {}
       /\ \A action \in DOMAIN check.decisions :
            LET decided == check.decisions[action]
                says == check.results[Max(ResultsFor(action))].says
            IN /\ decided.err = says.err
               /\ decided.err = "none" => decided.decision = says.decision
               /\ decided.allowed <=> says.err = "none" /\ says.decision = "allow"
       /\ authorizer = "plain" =>
            DOMAIN check.decisions = {actions[n] : n \in DOMAIN actions}

=============================================================================
