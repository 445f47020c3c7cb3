SPECIFICATION Spec
CONSTANTS
  Text <- MCText
  BlankText <- MCBlank
  EmptyText = ""
  Context <- MCContext
  Engines <- AllReaders
  Batches <- Repeats
  GroupLists <- NoGroupsOrOne
  ReaderErrors <- Deadline
  ContextErrors <- CancelOrDeadline
PROPERTIES
  UndecidedFailWhenDone
