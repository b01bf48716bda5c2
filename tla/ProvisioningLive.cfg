SPECIFICATION FairSpec
CONSTANTS
  Claims = {c1}
  VMs = {}
  Types <- FewTypes
  Catalogs <- FewCatalogs
  Requirements <- FewRequirements
PROPERTIES
  DeletionCompletes
  ServedIsLaunched
