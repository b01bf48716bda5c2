SPECIFICATION Spec
CONSTANTS
  Claims = {c1}
  VMs = {v1}
  Types <- MCTypes
  Catalogs <- MCCatalogs
  Requirements <- MCRequirements
INVARIANTS
  TypeOK
  NoOrphan
  TargetGone
  OnePool
  KindPermitted
  LaunchedHasServer
PROPERTIES
  RetryKeepsProgress
  ImplementsLease
