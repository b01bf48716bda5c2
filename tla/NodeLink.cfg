SPECIFICATION FairLinkSpec
CONSTANTS
  Claims = {c1}
  VMs = {v1, v2}
  Types <- OneType
  Catalogs <- OneCatalog
  Requirements <- OneRequirement
INVARIANTS
  LinkedToOwnNode
PROPERTIES
  LinkStays
  ImplementsProvisioning
  EventuallyLinked
CHECK_DEADLOCK FALSE
