\* Items, images and their deletions, and the uploads of the client.
SPECIFICATION Spec
CONSTANTS
  Calls = {c1, c2, c3}
  Files = {f1, f2}
  BasePaths <- Paths
  None = none
SYMMETRY Symmetry
INVARIANTS
  ObjectsHaveRows
  UploadedRowsKeepObjects
  ImagesComeTogether
