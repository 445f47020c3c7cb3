------------------------ MODULE StoreEngineProperties ------------------------
(***************************************************************************)
(* What a call of the engine over the example store guarantees: its reply  *)
(* is what the rows of the tables say, read directly, whichever entry point *)
(* was called and whatever it was batched with.                            *)
(***************************************************************************)
EXTENDS StoreEngine

-----------------------------------------------------------------------------
(* The reference: a request decided from the rows, one question after the   *)
(* other.                                                                  *)

Granted(rows, kind, id, request) ==
  \E n \in DOMAIN rows.grants :
    rows.grants[n] = [kind |-> kind, id |-> id, action |-> request.action,
                      resource |-> request.resource.type, project |-> request.scope.id]

InPlace(rows, request) ==
  \/ request.resource.id = EmptyText
  \/ /\ request.resource.type = "document" /\ request.scope.type = "project"
     /\ <<request.resource.id, request.scope.id>> \in rows.documents

Belongs(rows, request) ==
  /\ request.subject.type = "user" /\ request.scope.type = "project"
  /\ <<request.subject.id, request.scope.id>> \in rows.members

\* The assignments, in order, of roles that hold the permission.
Granting(rows, request) ==
  {n \in DOMAIN rows.assignments :
     LET a == rows.assignments[n]
     IN /\ a.user = request.subject.id /\ a.project = request.scope.id
        /\ Granted(rows, "group", a.role, request)}

Verdict(rows, request) ==
  CASE ~InPlace(rows, request) -> Denial("resource_scope")
    [] InPlace(rows, request) /\ ~Belongs(rows, request) -> Denial("membership")
    [] OTHER ->
         IF Granted(rows, "subject", request.subject.id, request)
           THEN Allow("direct_permission", "direct", SubjectPrincipal(request.subject))
         ELSE IF Granting(rows, request) # {}
           THEN Allow("group_permission", "group",
                      [kind |-> "group", type |-> "project_role",
                       id |-> rows.assignments[Min(Granting(rows, request))].role])
         ELSE Denial("no_permission")

\* The outcome of a request of its own.
Expected(rows, request) ==
  IF IsValid(request)
    THEN BatchResult(request, Verdict(rows, request), NoError)
    ELSE BatchResult(request, NoDecision, ValidateRequest(request))

-----------------------------------------------------------------------------
\* A request is allowed only if the tables allowed it when the call started,
\* and is allowed if they still do when it is decided: a revocation during the
\* run takes effect or comes too late, but no mixture of old and new rows, and
\* no other request of the batch, ever allows what the rows did not.  When no
\* row was removed the decision is exactly what the rows say.
DecidedByFacts ==
  \A i \in DOMAIN items :
    items[i].done /\ items[i].err = NoError =>
      LET request == items[i].request
          decision == items[i].decision
      IN /\ decision.allowed => Verdict(before, request).allowed
         /\ Verdict(tables, request).allowed => decision.allowed
         /\ tables = before => decision = Verdict(before, request)

\* All entry points give the same answer about a request, alone or in a batch,
\* with one check per reader call or many: what the rows say, or the error of
\* its validation.  BatchCheck gives all of them, or that of the first invalid
\* request alone.
EntryPointsAgree ==
  replied /\ tables = before /\ ctxErr = Nil =>
    LET expected == [i \in DOMAIN items |-> Expected(before, items[i].request)]
    IN CASE entry = "BatchCheckResults" -> reply.results = expected
         [] entry = "BatchCheck" ->
              IF Invalid = {}
                THEN reply.decisions = [i \in DOMAIN items |-> expected[i].decision]
                ELSE /\ reply.decisions = <<>> /\ reply.index = Min(Invalid)
                     /\ reply.err = expected[Min(Invalid)].err
         [] entry \in {"CheckDecision", "CheckTrace"} ->
              reply.decision = expected[1].decision /\ reply.err = expected[1].err
         [] entry = "Check" ->
              reply.allowed = expected[1].decision.allowed /\ reply.err = expected[1].err

\* When the context ends during the run, BatchCheck returns no decision if any
\* request failed, even one decided after another had failed, and names the
\* first that failed; otherwise it returns the decision of every request.  No
\* reader is called for a batch it refuses.
BatchCheckIsAllOrNothing ==
  entry = "BatchCheck" =>
    /\ Invalid # {} => answers = {} /\ call = {}
    /\ replied /\ Invalid = {} =>
         LET failed == {i \in DOMAIN items : items[i].err # NoError}
         IN IF failed = {}
              THEN /\ reply.err = NoError
                   /\ reply.decisions = [i \in DOMAIN items |-> items[i].decision]
              ELSE /\ reply.decisions = <<>>
                   /\ reply.index = Min(failed)
                   /\ reply.err = items[Min(failed)].err

=============================================================================
