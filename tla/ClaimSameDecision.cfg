SPECIFICATION Spec
CONSTANTS
  Text <- MCText
  BlankText <- MCBlank
  EmptyText = ""
  Context <- MCContext
  Requests <- MCRequests
  Chains <- MCChains
  Decisions <- MCDecisions
  BesideErrors <- MCBesideErrors
  PolicyErrors <- MCErrors
  MayMissBase = FALSE
INVARIANTS
  SameDecision
