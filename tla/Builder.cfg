SPECIFICATION Spec
CONSTANTS
  Subjects = {"ana"}
  Actions = {"read", "write"}
  Resources = {"doc"}
  Scopes = {"org"}
  Unset = ""
  Keys = {k1, k2}
  Values = {v1, v2}
  Absent = "absent"
  ActionLists <- MCActionLists
  MaxBuilders = 4
  MaxResults = 2
SYMMETRY KeysAndValues
INVARIANTS
  BuilderTypeOK
  RequestsCarryTheirValues
  ActionsAreAllReported
PROPERTIES
  KeepsValues
CHECK_DEADLOCK FALSE
