\* Creations without images: one call shows it.
SPECIFICATION Spec
CONSTANTS
  Calls = {c1}
  Files = {f1}
  BasePaths <- Paths
  None = none
INVARIANTS
  ImagesAreOptional
