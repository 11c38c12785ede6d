CONSTANTS
  r1 = r1
  r2 = r2
  d1 = d1
  d2 = d2
  d3 = d3
  u1 = u1
  u2 = u2
  yes = yes
  NoDoc = NoDoc
  NoRun = NoRun
  NoManifest = NoManifest
  OpenItem = OpenItem
  Docs <- ThreeDocs
  Uploads <- TwoUploads
  Runs <- TwoRuns
  Decisions <- Yes
  MaxLocks = 2
  MaxFilings = 2
  MaxEvents = 1
SPECIFICATION Spec
CHECK_DEADLOCK FALSE
SYMMETRY Likeness
CONSTRAINT Bounded
INVARIANTS
  DocumentsSound
  FilingDescribesItsRun
PROPERTIES
  FilingKeepsManifest
