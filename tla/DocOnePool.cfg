SPECIFICATION Spec
CONSTANTS
  Claims = {c1}
  VMs = {}
  Types <- FewTypes
  Catalogs <- FewCatalogs
  Requirements <- FewRequirements
INVARIANT
  OnePoolPerNodeClaim
