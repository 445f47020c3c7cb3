SPECIFICATION StoreSpec
CONSTANTS
  Text <- MCText
  BlankText <- MCBlank
  EmptyText = ""
  Context <- MCContext
  Engines <- MCEngines
  Batches <- MCBatches
  GroupLists <- MCGroupLists
  ReaderErrors <- NoErrors
  ContextErrors <- Deadline
  Entries <- MCEntries
  Tables <- MCTables
  MaxRevoked = 2
INVARIANTS
  DecidedByFacts
  EntryPointsAgree
  BatchCheckIsAllOrNothing
