SPECIFICATION Spec
CONSTANTS
  RankLosses = {0, 1}
INVARIANTS
  FeetAreConstrained
  BoundsBelongToRows
  SlackRelaxesItsRow
  PrioritiesAreKept
