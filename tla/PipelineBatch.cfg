SPECIFICATION Spec
CONSTANTS
  Text <- MCText
  BlankText <- MCBlank
  EmptyText = ""
  Context <- MCContext
  Engines <- AnyEngine
  Batches <- AllBatches
  GroupLists <- RepeatedGroups
  ReaderErrors <- BackendOrDeadline
  ContextErrors <- CancelOrDeadline
INVARIANTS
  TypeOK
  AllowIsEarned
  DenialIsEvidenced
  FailureIsOwn
  OnlyMembersAreLookedUp
  GroupsAreCheckedInOrder
  NoLookupIsRepeated
  EqualRequestsAgree
  TraceAgreesWithDecision
PROPERTIES
  OutcomesAreFinal
  RunReturns
  KeepsPromise
