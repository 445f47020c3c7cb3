SPECIFICATION BatchSpec
CONSTANTS
  Text <- MCText
  BlankText <- MCBlank
  EmptyText = ""
  Context <- MCContext
  Requests <- MCRequests
  Chains <- MCChains
  Decisions <- MCDecisions
  BesideErrors <- MCBesideErrors
  PolicyErrors <- MCErrors
  MayMissBase = TRUE
  Batches <- MCBatches
  Surpluses <- MCSurpluses
INVARIANTS
  BatchTypeOK
  ResultsKeepTheirPlace
  BatchCheckIsAllOrNothing
PROPERTIES
  NoPolicyIsLeftOut
