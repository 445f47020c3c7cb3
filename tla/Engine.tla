------------------------------- MODULE Engine -------------------------------
(***************************************************************************)
(* A call of the Engine (engine.go): the entry points as runs of the        *)
(* pipeline, what BatchCheck does before its run, and what each of them     *)
(* makes of the outcome.                                                    *)
(***************************************************************************)
EXTENDS Pipeline

CONSTANT Entries  \* the methods called

EntryPoint == {"Check", "CheckDecision", "CheckTrace", "BatchCheckResults", "BatchCheck"}

ASSUME EntryAssumption == Entries \subseteq EntryPoint

VARIABLES
  entry,    \* the method called
  replied,  \* whether it has returned
  reply     \* what it returned

engineVars == <<vars, entry, replied, reply>>

NoReply == BatchReply(<<>>, 0, NoError)

Invalid == {i \in DOMAIN items : ~IsValid(items[i].request)}

\* Faulty variant: the batch is refused by what its run finds.
NeverRefused == FALSE

\* BatchCheck validates every request before any reader is called.
Refused == entry = "BatchCheck" /\ Invalid # {}

EngineInit ==
  /\ Init
  /\ entry \in Entries
  /\ withTrace = (entry = "CheckTrace")
  /\ entry \in {"Check", "CheckDecision", "CheckTrace"} => Len(items) = 1
  /\ replied = FALSE
  /\ reply = NoReply

GiveReply(value) ==
  /\ ~replied
  /\ replied' = TRUE
  /\ reply' = value
  /\ UNCHANGED <<vars, entry>>

RefuseBatch ==
  /\ Refused
  /\ LET first == Min(Invalid)
     IN GiveReply(BatchReply(<<>>, first, ValidateRequest(items[first].request)))

Outcomes ==
  [i \in DOMAIN items |-> BatchResult(items[i].request, items[i].decision, items[i].err)]

\* What a method makes of the outcome of its run.
EntryReply ==
  CASE entry = "BatchCheckResults" -> [results |-> Outcomes]
    [] entry = "BatchCheck" -> DecisionsOrError(Outcomes)
    [] entry = "CheckTrace" ->
         [decision |-> items[1].decision, trace |-> items[1].trace,
          err |-> items[1].err]
    [] entry = "CheckDecision" ->
         [decision |-> items[1].decision, err |-> items[1].err]
    [] entry = "Check" ->
         [allowed |-> items[1].err = NoError /\ items[1].decision.allowed,
          err |-> items[1].err]

ReplyResults == stage = Returned /\ GiveReply(EntryReply)

\* A step of the run, or of its environment.
Running(step) == ~Refused /\ step /\ UNCHANGED <<entry, replied, reply>>

EngineDone == replied /\ UNCHANGED engineVars

=============================================================================
