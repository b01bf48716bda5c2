SPECIFICATION Spec
CONSTANTS
  Claims = {c1}
  VMs = {}
  Types <- MCTypes
  Catalogs <- MCCatalogs
  Requirements <- MCRequirements
INVARIANT
  PoolCleanedUp
