SPECIFICATION Spec
CONSTANTS
  Namespace = {1, 2, 3}
  Root = 0
  Listings <- MCListings
  MaxCreates = 1
INVARIANTS
  NoNamespaceTwice
  EveryNamespaceSelected
PROPERTY WalkEnds
CHECK_DEADLOCK FALSE
