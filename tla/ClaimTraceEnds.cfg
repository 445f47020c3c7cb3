SPECIFICATION Spec
CONSTANTS
  Text <- MCText
  BlankText <- MCBlank
  EmptyText = ""
  Context <- MCContext
  Engines <- AnyEngine
  Batches <- Singles
  GroupLists <- NoGroupsOrOne
  ReaderErrors <- Deadline
  ContextErrors <- Deadline
INVARIANTS
  TraceEndsWithFailingStep
