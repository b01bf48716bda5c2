SPECIFICATION Spec
CONSTANTS
  Claims = {c1}
  VMs = {v1, v2}
  Customs <- MCCustoms
SYMMETRY Symmetry
INVARIANTS
  ListComplete
  LoneNodeListed
  GetFinds
