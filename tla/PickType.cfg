SPECIFICATION Spec
CONSTANTS
  Types <- MCTypes
  Catalogs <- MCCatalogs
  Orders <- MCOrders
  Requirements <- MCRequirements
INVARIANTS
  PickedRight
  EarliestPicked
CHECK_DEADLOCK FALSE
