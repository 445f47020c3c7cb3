# Verification of canery

TLA+ models of the `canery` authorization kernel (Go), their TLC runs, and
TLAPS proofs. File and line references are to `src/`.

canery answers one question: may this subject perform this action on this
resource within this scope? An `Engine` answers it from four backends that the
application supplies; a `PolicyAuthorizer` wraps an authorizer in middleware; a
`Builder` assembles requests. Nothing is persisted and the kernel starts no
goroutine: what is hard is not crash recovery or locking but *many requests
sharing few lookups* while readers fail and the context ends between any two
steps, and *arbitrary application code* running inside the chain of policies.

## Inventory

| Part | State it keeps | Operations | Hard behaviour | What makes it correct |
| --- | --- | --- | --- | --- |
| Data model and validation (`types.go`, `scope_runtime.go`, `helpers.go`, `engine.go:248-268`) | none (values) | `validateRequest`, `SubjectPrincipal`, `GroupPrincipal`, `requiresResourceScopeCheck` | blank is not empty: a resource id of spaces selects the scope check; the first blank field, in a fixed order, is reported | used by the properties of the pipeline |
| Evaluation pipeline (`evaluation_pipeline.go`) | per run: items (decision, error, trace, groups, done), the memo of the stage | seven stages over a batch; lookup, memo, batch call; fail, decide, deny | cancellation between any two steps; shared, failed and repeated lookups; whole-call failure of a batch reader; group order | allows are earned, denials evidenced, failures one's own, nothing asked twice or too early, equal requests agree, outcomes final, every run returns |
| Engine entry points (`engine.go`) | the four backends | `Check`, `CheckDecision`, `CheckTrace`, `BatchCheck`, `BatchCheckResults` | `BatchCheck` is all-or-nothing and validates before any reader is called | lowest failing index; no reader called for an invalid batch |
| Readers (`readers.go`) | the application's | `HasMembership`, `GroupsForSubject`, `HasPermission(s)`, `ResourceInScope` | slow, failing, `(true, err)`, wrong result counts, facts that change during a run | environment; the kernel must cope |
| Policy chain (`policy.go`) | bindings; per evaluation, the nesting of policies and what `next` returned | `CheckDecision`, `CheckTrace`, `BatchCheckResults`, `BatchCheck` | policies call next never, once or often, with other requests, swallow or invent errors; one recursion written twice; a batch is split and put together again | no policy bypassed; both calls agree; the trace accounts for the decision; results keep their place |
| Builders (`builder.go`, `authorizer.go`) | a request under construction, copied by value | `For`, `Can`, `CanMany`, `On`, `Within`, `WithContext`, `WithValue`, `Request(s)`, `Check` | derived builders share context nodes, and go on being derived while one is checked; repeated actions; failures per action; batch results in any number and for any action | derivations are independent; what an authorizer reads does not move; one report per action, that of the last result naming it |
| Authorization context (`authorization_context.go`) | an immutable linked list | `With`, `Value`, `IsZero` | shadowing, sharing, equality by identity | `With` changes no existing context |
| Example store (`examples/advanced/store`) | tables of documents, members, role assignments, grants | the reader interfaces, `DocumentAuthorizer` | `HasPermissions` answers from an index what `HasPermission` finds by a scan; grants are compared without the principal's type; rows that go during a call | every entry point says what the rows say; nobody else's id or role is enough |
| Example programs, package comment, CI | none | none | none | not modelled |

The engine calls the readers and reads `ctx.Err()`; a `PolicyAuthorizer` calls
policies, which call back into it through `next`; the outermost call reaches
the engine; a builder calls any authorizer, in a batch when it can. The only
state shared by concurrent evaluations is immutable.

## Modules

| Module | Role |
| --- | --- |
| `AuthorizationModel` | values: requests, principals, decisions, steps, errors, validation, and the lookups put to readers |
| `Pipeline` | one run of the engine over a batch |
| `PipelineProperties` | its properties, its refinement mapping, and documented claims it does not keep |
| `Authorization` | the abstract promise: requests are settled one by one by what their own facts say; no stages, memo or calls |
| `MCPipeline` | values for TLC |
| `PipelineProofs` | soundness of the outcomes of `Pipeline` |
| `PipelinePromiseProofs` | what a run asks, that it implements `Authorization`, that equal requests agree and traces tell |
| `PolicyChain` | one request through a `PolicyAuthorizer`, by `CheckDecision` or by `CheckTrace` |
| `PolicyChainProperties`, `MCPolicyChain`, `PolicyChainProofs` | its properties and documented claims it does not keep, values for TLC, theorems |
| `PolicyAgreement`, `MCPolicyAgreement`, `PolicyAgreementProofs` | both of these side by side, their property and a documented claim it does not keep; values for TLC; its theorem |
| `PolicyBatch` | a batch through a `PolicyAuthorizer`: extends `PolicyChain` with the loops around it |
| `PolicyBatchProperties`, `MCPolicyBatch`, `PolicyBatchProofs` | likewise (on those of `PolicyChainProofs`) |
| `Builder` | the builders, the contexts they share, and their checks |
| `RequestValues` | the abstract promise of builders: values, with nothing shared |
| `BuilderProperties`, `MCBuilder`, `BuilderProofs` | properties, the refinement mapping, values for TLC, theorems |
| `Engine` | the entry points: `Pipeline` with what comes before and after a run |
| `Store` | the example adapter: readers over tables |
| `StoreEngine` | the composition of the two, while the tables lose rows |
| `StoreEngineProperties`, `MCStoreEngine`, `StoreEngineProofs` | properties, values for TLC, theorems (on those of `PipelinePromiseProofs`) |
| `NaturalLemmas` | least and greatest numbers, for the proofs |

In the modules that model code, a definition introduced as a *faulty variant*
stands before the one it is a variant of. No action uses it; it is the bug with
which a property was tried.

### Pipeline and its code

A run is a single goroutine, so its actions follow each other in the order of
`run()` (`evaluation_pipeline.go:50-73`); what interleaves with them is a reader
that takes its time (`ReaderReturns`) and the context that ends (`Cancel`).

| Model | Code |
| --- | --- |
| `items` | `evaluationRun.items`: request, trace, decision, err, done, groups |
| `stage`, `todo` | the loop over stages, and the loop over the `pending()` snapshot inside one |
| `seen` | the local memo of a stage (`seen`, `results`), dropped with the stage |
| `call` | the lookups of the reader call in flight: one, or all of a `HasPermissions` |
| `ctxErr` | `ctx.Err()`, read by `EnterStage`/`SkipStage`, `CallReader`/`RefuseCall`, `ReaderFailure` |
| `answers` | history, not code: what readers answered; the properties rest on it |
| `Validate`, `CheckConfiguration` | `validate`, `checkConfiguration`: each in one step, since they read nothing that changes |
| `EnterStage`, `SkipStage` | the `cancelled()` check that opens a stage and its two ways on |
| `CallReader`, `RefuseCall` | `lookup` and `permissionResults`: the context is checked, and the call made, or its refusal memoised |
| `ReaderReturns` | the result, per lookup, or one error for a whole `HasPermissions` (its own, or `ErrBatchResultMismatch`) |
| `VerifyResourceScope` … `CheckGroupPermission` | the `switch` that settles one item, in index order |
| `Return` | `BatchCheckResults` / `evaluate` take the results |

An item is settled as soon as its lookup is in `seen`, except in the direct
stage, and in the group stage with a batch reader, where the code collects every
check first (`AskAhead`). One check goes through `HasPermission` even when the
reader has `HasPermissions` (`AsksInBulk`). A missing scope resolver matters only
to requests that need it. Strings are members of `Text`; only "blank when
trimmed" and "empty" are visible. `answers` and the stage counter are the only
additions; nothing in the model is bounded except by the batch.

Nothing relates the answer of one lookup to that of another: readers may
contradict themselves, and facts may change during a run.

### PolicyChain and its code

`frames` is the Go stack of `checkDecisionFrom` or `checkTraceFrom`: one frame for
each policy under way, with the request it was given, what each of its calls of
`next` returned (`heard`: a policy may remember them all) and, in `CheckTrace`,
the `traceContinuation` (`next`), which keeps the last call's decision and steps.
The two methods choose bindings by the same `nextBinding` (`Matching`); all else
the code has twice and so has the model, by `method`: the recursion (`RunPolicy`,
`TracePolicy`), where the closure goes on (`NextDecision`, `NextTrace`), what the
continuation does (`HearDecision`, `HearTrace`), and how a policy's return is
returned (`ReturnDecision` as it is, `ReturnTrace` with the trace put together
and the decision beside an error dropped).

A policy decides (`Decide`), fails with any decision beside its error (`Fail`),
calls `next` with any request (`CallNext`), returns what one of its calls heard
(`PassOn`), or uses the decision heard beside an error with no error of its own
(`Overlook`), although `docs/policies.md:44-45` says that this decision must be
ignored. The base is any authorizer that returns a decision with a source or an
error with no decision, as the engine does (`TraceAgreesWithDecision`); one step
stands for its trace.

### PolicyAgreement and its code

Two instances of `PolicyChain` over the same bindings, one for each method, each
with its own stack. Policies and the base are taken to be functions of what they
are told, so they act alike in both as long as they are asked the same and have
heard the same (`Alike`, `Together`). The decision beside an error does not count
as told (`Told`), since a policy must ignore it; a policy that uses it all the
same is given the one its method has, and when the two differ, `overlooked` notes
it. From then on the evaluations have nothing in common and go on by themselves
(`Apart`).

### PolicyBatch and its code

`BatchCheckResults` (`policy.go:206-234`) is two loops and a call. `position`
runs over the batch: a request that some binding matches is evaluated
(`CheckMatched`), through all the steps of `PolicyChain`, and its outcome stored
under the index it was taken from (`Store`); one that none matches is put aside
(`PutAside`, the slice `direct`). What was put aside goes to a base that takes
batches in one call (`Forward`, given the slice `Forwarded`), or is
evaluated one by one (`CheckDirect`). `BatchCheck` is `decisionsOrError` of the
same results.

A matcher is application code and is asked twice, to sort a request and to
evaluate it. `Shift` lets every matcher change its answers once, at any moment
in between; the policies behind them stay. The results of the base are any
(`BaseResults`), also for another request than the one it was given, and are
copied by position and whole (`Merged`): the request a result names is then the
base's. It may return one too few, which leaves the last request with a zero
result, or one too many, which panics in the code (`panicked`).

### Builder and its code

A builder is a Go value, so `builders` is the list of all values that were ever
made; each method appends a changed copy, and any of them may be the receiver of
the next call. What copies do share is the linked list behind their context:
`nodes` is the heap, and a context the index of a node in it. A `Check` takes its
requests at once (`StartCheck`). That of a `Builder` returns what the authorizer's
`Check` returns, an allow beside an error included (`AskSingle`). That of a
`MultiActionBuilder` asks one by one, and drops the decision beside an error
(`AskOne`, `WithoutDecision`), or in a single batch (`AskAll`), whose results it
reports one after the other (`ReportOne`, the loop at `builder.go:185`). A batch
authorizer returns any results, fewer or more than requests and for any action;
the loop keys them by the action they name. Other goroutines go on deriving
builders between any two of these steps, and what the authorizer finds in a
request's context is read from the heap at that moment. `Find` is the loop of
`Value` over the list, for all keys at once.

### Engine, Store and StoreEngine and their code

`Engine` adds to `Pipeline` the method called, the validation with which
`BatchCheck` may refuse its batch before the run (`RefuseBatch`), and what each
method makes of the items of a finished run (`ReplyResults`).

`Store` has the readers of `store.go` as operators over its tables, and
`StoreEngine` composes them with the engine as `NewEngine(store)` does: the
readers of the run no longer answer anything they like, but what the tables say
at the moment they return. `StoreAssumption` fixes the engine to the one that
`NewEngine` makes (`store.go:89-91`): the store is each of its four backends, and
it has `HasPermissions`. A call with several checks is answered by
`HasPermissions`, from an index; a call with one by `HasPermission`, by a scan.

The example never writes its tables, but a store of this kind does, and the
engine makes no snapshot: `Revoke` removes a row at any moment of a call. Only
removal is modelled. With rows added as well, a request could be allowed by a
membership that came and a grant that went, which the code permits and no
property about the rows at one moment can exclude; with removal alone everything
read was true at the start, and that is what the properties relate the reply to.

## What the runs check

States are distinct states.

| Run | Instance | Properties | States |
| --- | --- | --- | --- |
| `pipeline_batch` | batches of zero to three requests (a document, a type, a blank id, invalid, two subjects, repeated), six engines (single, batch, one backend missing each), single requests traced and untraced; none or two groups, repeated or not; a reader error that equals a context's and one that does not; two ways for the context to end | `TypeOK`, `AllowIsEarned`, `DenialIsEvidenced`, `FailureIsOwn`, `OnlyMembersAreLookedUp`, `GroupsAreCheckedInOrder`, `NoLookupIsRepeated`, `EqualRequestsAgree`, `TraceAgreesWithDecision`, `OutcomesAreFinal`, `RunReturns`, `KeepsPromise` (refinement of `Authorization`, its liveness included) | 216,640 |
| `policy_chain` | chains of zero to three policies and a nil one; two requests; either method; next called up to twice by one policy, once by others; a decision with and without source, the zero decision, errors with and without a decision; a missing base | `ChainTypeOK`, `NoPolicyIsBypassed`, `LastSourceIsTheDecisions`, `SwallowedErrorsAreMarked` | 6,527 |
| `policy_agreement` | both methods at once; chains of zero, two and four bindings, one of them nil; two requests; next called up to twice; an allow and a denial, errors with and without an allow beside them; a missing base | `CheckAndTraceAgree` | 1,686 |
| `policy_batch` | batches of zero to three requests, one put aside first, last or in between, repeated or invalid; no policy, one, or two nested; a base with batches, without, or none; one result too few or too many, for any request; matchers that change | `BatchTypeOK`, `ResultsKeepTheirPlace`, `BatchCheckIsAllOrNothing`, `NoPolicyIsLeftOut` | 283,808 |
| `builder` | up to four builders, two keys and two values, two actions and a repeated one; no authorizer, a plain one, and a batch one that returns up to two results | `BuilderTypeOK`, `KeepsValues` (refinement of `RequestValues`), `RequestsCarryTheirValues`, `ActionsAreAllReported` | 1,227,357 |
| `store_engine` | the demonstration data, and the same with a second role and a member named like a role; ten batches of one or two requests through five entry points; up to two rows removed; a deadline | `DecidedByFacts`, `EntryPointsAgree`, `BatchCheckIsAllOrNothing` | 331,651 |

*Bounds.* Two requests suffice for what one can do to another: they share a
lookup, or differ in one, and a third keeps a repetition from being the whole
batch. Two groups give an order, a first that fails and a second that matches.
One reader error that equals the context's and one that does not are all that
`readerFailure` tells apart. In a chain, three policies give an outermost, an
inner and an innermost one, and two calls of next a first and a last; `calls` in
a binding bounds how often its policy calls next, and is the only bound of
`PolicyChain`. For the two methods to differ it takes a policy that fails with a
decision and one around it that uses it. In a batch through policies, three
requests let the one put aside lie between two others, so that its place among
those put aside is not its place in the batch. `Surpluses` are the numbers of results a base may return beyond
those asked for, -1, 0 and 1: the code compares only positions. Matchers change
once (`shifted`), which is all that can happen between the two times a request
is matched. `MaxBuilders` = 4 makes a builder, two derived from it with values,
and one that takes a context from another; at that bound, without an authorizer,
nothing is left to do, hence `CHECK_DEADLOCK FALSE` in that run alone.
`MaxResults` = 2 makes a batch authorizer return fewer results than requests, as
many (of one action or of both) and, for one request, more. Keys and
values of contexts are symmetric there: they are only compared.
`MaxRevoked` = 2 takes away two of the facts that one allow needs.

*Fairness.* `Pipeline` assumes weak fairness of the run itself and of readers:
a goroutine with something to do goes on, and a reader that was called returns.
Nobody is obliged to end the context, and `RunReturns` holds whether it ends or
not. Without the second assumption a run waits for its reader for ever, as the
code does: it has no timeout of its own. The other modules state no liveness and
assume none.

### Where the code and its documentation differ

Each of these runs checks what a comment or a page says, and finds it violated.

- `claim_trace_ends`: "On error the trace … ending with the failing step"
  (`engine.go:178-179`). A context found done when a stage starts, and a missing
  backend, record no step.
- `claim_cancel`: "When it is done, every request not yet decided fails with
  `ctx.Err()`" (`docs/batch.md:118-119`). An answer in flight, or one that the stage
  already holds, still decides. `DenialIsEvidenced` and `AllowIsEarned` show that
  this is benign: the decision rests on real answers.
- `claim_same_decision`: "`CheckDecision` and `CheckTrace` return the same decision"
  (`docs/policies.md:65`). `policy.go:158` returns the decision of a policy beside its
  error and `policy.go:197` drops it; a policy further out that uses it decides one
  way in one call and another in the other. Nothing else sets the two calls apart:
  `CheckAndTraceAgree`.
- `claim_error_step`: "TraceResultError always means evaluation failed and an
  error was returned" (`types.go:161-162`). A policy may decide after next failed.
  `SwallowedErrorsAreMarked` is what holds instead.
- `claim_zero_decision`: a `BatchResult` with an error has a zero decision
  (`engine.go:105-107`). `policy.go:215` stores whatever the policy returned.
- `claim_batch_check`: `BatchCheck` "Validates every request first" and calls no
  reader for a batch with an invalid one (`docs/batch.md:100-101`), on a
  `PolicyAuthorizer` as on an engine (`docs/batch.md:9`). `policy.go:240` evaluates
  the batch and validates nothing first: in the run, the base is forwarded the whole
  batch and answers its valid request too. What it returns is nevertheless all or
  nothing (`BatchCheckIsAllOrNothing`).

`types.go:141-142` says that "the last step with a non-empty Source always matches
the returned Decision.Source". No run has this one to itself: when a policy overrides
with a decision that names no source, the step of `policy.go:193` has none either,
and the last source is that of the decision overridden. `LastSourceIsTheDecisions`
says what holds, of every decision that names its source.

## What is proved

For every value of the constants, that is, for every engine, batch of any
length, group list, error value, binding list and (typed) policy behaviour.

`PipelineProofs` (from `TextAssumption` and `PipelineAssumption`):
`TypeCorrect`, `Soundness` (`AllowIsEarned`), `DenialsAreEvidenced`,
`FailuresAreOwn`, `OutcomesStay`, and `NothingIsUndecided`, the safety half of
`RunReturns`: no run returns a request that no stage settled. None of the safety
properties is inductive: an item decided in the group stage rests on what
happened to it in the stages before, of which the item itself keeps nothing.
`IInv` adds

- of every undecided item, the evidence of each stage it has passed (`Passed`),
  where an item still in `todo` has passed one stage fewer;
- of the memo, that a result is one a reader gave or the refusal of a done
  context (`SeenIsKnown`): this is what carries an outcome back to `answers`.

Each stage then takes an item with the evidence of the stage before to one that
is decided with its evidence, failed for its own reason, or undecided with the
evidence of this stage; evidence never shrinks because answers only accumulate.

`PolicyChainProofs` (from `TextAssumption` and `ChainAssumption`):
`ChainTypeCorrect`, `LastSourceNamed`, `SwallowedErrorsShow`, `NoBypass`.
`ChainInv` says of every outcome of `CheckTrace`, kept in a continuation or
returned, that its trace accounts for its decision (`Accountable`), which an
enclosing policy step keeps (`Enclosed`); and of the stack of either method that
positions increase and no binding between two frames accepts the request of the
inner one (`Nested`).

`PolicyAgreementProofs`: `CallsAgree` (`CheckAndTraceAgree`). `AgreeInv` says that
until a decision is overlooked, the two stacks are as high as each other and their
frames alike but for decisions beside errors and what `CheckTrace` keeps for its
trace (`SameViews`). Each step of the one recursion is then matched by the other's
(`WalkKeeps`, `CallNextKeeps`, `ReturnBoth`, `BaseBoth`).

`PipelinePromiseProofs`: `NothingAskedTwice`, `MembersOnly`, `GroupsInOrder`, and
`KeepsPromiseSafely`, the safety half of the refinement of `Authorization`
(`Promise!Safety`). `CallInv` is what they need besides `IInv`: a lookup belongs
to one stage (`AskedAt`), an answer of the current stage is in the memo, and for
every lookup in flight there is a request still to be settled that waits for it
and does not find it in the memo. Each step is then `Learn`, `Settle` or `End`
of `Authorization`, or changes nothing there: what is asked is of use to a
waiting request, and a request is settled by its own facts.

Its second part has `EqualsAgree` (`EqualRequestsAgree`) and `TracesAgree`
(`TraceAgreesWithDecision`). Between two steps of a stage one of two equal
requests may have its outcome and the other not, so their equality is not
inductive. `OutcomeInv` says that while they differ, the memo already leads the
other one to the same outcome (`Leads`); a memo that only grows does not change
where it leads (`LargerMemoLeads`), although the context may end meanwhile. Of
traces it says that an undecided request has only steps without source or error
(`Quiet`), and a decided one exactly one with a source, the last (`Traced`).

`PolicyBatchProofs` (also from `BatchAssumption`): `BatchInvariant`,
`BatchTypeCorrect` (`BatchTypeOK`), `ResultsInPlace`, `AllOrNothing`,
`PoliciesComeFirst`. `BatchInv` relates the loop's position to the batch: an index
below it is either answered, once and in its place, as a whole, or listed in `direct`, in
order and without repetition; an index above it is neither. Matchers may change
at any time without breaking it. The types of a call are inductive only together
with those of the evaluation inside it (`EvaluationTypes`: what it was asked, its
frames and its outcome), since `Store` takes its result from there.

`StoreEngineProofs` (also from `EntryAssumption` and `StoreAssumption`):
`DecisionsFollowTheRows` (`DecidedByFacts`), `OneAnswerEverywhere`
(`EntryPointsAgree`) and `AllOrNothing`, for any tables,
batches of any length and any number of rows removed. `StoreInv` adds to `IInv`
and `CallInv`

- of the tables, that rows only go (`RowsOnlyGo`);
- of every answer, that it lies between the tables at the start and those of now
  (`Fact`): a yes was true then, what is still true was answered yes, a list of
  groups has all those of now and none that was not there, and as long as no row
  has gone it is the very list of the store, in its order;
- of the run, that an invalid request has failed with the error of its validation
  and a valid one fails only with the context, since the store never fails
  (`RunInv`);
- of the reply, that it is what the method makes of the outcomes of a run that has
  returned (`ReplyIsTheOutcome`).

The evidence that `IInv` keeps of every decision then leads, by `Fact`, to the
rows (`AllowedByRows`, `DeniedByRows`, `DecidedAsRowsSay`). The two ways of the
store to answer a permission are one by `Fact` too: what a call is told by the
index is what the scan says.

`BuilderProofs` (from `BuilderAssumption`): `BuilderInvariant`,
`BuilderTypeCorrect` (`BuilderTypeOK`), `ValuesAreCarried`
(`RequestsCarryTheirValues`), `AllActionsReported` (`ActionsAreAllReported`), and
`ValuesAreKept`: `Spec => KeepsValues`, the whole refinement of `RequestValues`,
which has no liveness. They hold for any number of builders, calls and actions.
`BuilderInv` has two parts. `HeapInv`: every node points to an older one, so that
a walk from a context ends, and to append a node changes no walk there was
(`FindInKept`, `ContentsKept`); this is all that independent copies rest on.
`CheckInv`: what was asked are the requests of the builder under check, in their
order, with the values of its context as found when it started, and each action
that the first `reported` results name has the outcome of the last of them
(`Reported`).

*Recursion.* `Find` is a recursive function over the nodes, and what it computes
is shown without an induction theorem, whose operator parameter no prover here
can instantiate: among the contexts at which a fact failed there would be a least
one (`LeastNat`), and its parent is less. So it is shown that the defining equation
has a solution (`WalkExists`) and only one (`WalkIsOne`). For the same reason the
store puts positions in order by a `CHOOSE` (`InOrder`), whose existence is proved
the same way (`OrderExists`), instead of a recursive filter of the sequence.

*Only model-checked:* that runs do end, in `RunReturns` and the liveness half of
`KeepsPromise`: liveness under fairness, and ENABLED, are out of the prover's
reach. The six documented claims are violated, so there
is nothing to prove of them; every other property of a run is a theorem.

## What is not modelled

- The text of errors and reasons, formatting and redaction of contexts.
- The panics of `With` on a nil or incomparable key, and the type assertion of
  `ContextValue`: they end or filter a single call and touch no state.
- A typed nil put into an interface, which passes every nil check of the engine.
- A reader that goes on writing to a slice it returned
  (`evaluation_pipeline.go:274` keeps the slice itself); `docs/adapters.md:37`
  forbids it.
- Concurrent evaluations on one engine or policy authorizer: they share only
  fields that are never assigned after construction. Each call is modelled alone.
- The matcher constructors (`policy.go:60-95`): pure predicates on a request; a
  matcher is any set of requests in the models.
- `UsersByEmail`, `ProjectsByName` and `DocumentsByTitle` of the example store,
  which index rows for printing; the example programs; the package comment.

## Plan

Every module planned is written: `AuthorizationModel`, `Pipeline`,
`Authorization` and their proofs first, then `PolicyChain`, `PolicyAgreement`,
`PolicyBatch`, `Builder` with `RequestValues`, `Engine`, `Store` and `StoreEngine`, and every
safety property that a run checks is proved. What would be worth adding:

1. an abstract specification of a batch call through policies (each request
   answered by its own evaluation, in any order), with `PolicyBatch` shown to
   implement it, in TLC and by proof;
2. the composition of `PolicyBatch` with `Engine` as its base, instead of a base
   that returns anything;
3. a store that also adds rows, with properties about what a run may read at
   different moments.
