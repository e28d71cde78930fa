SPECIFICATION Spec
CONSTANTS
  Viewer = {v1, v2}
  NoViewer = none
  Dims = {d1, d2}
  InitialDims = d1
  NoDims = nodims
  Unset = unset
  FrameTypes = {"session-snapshot-applied", "terminal-reset"}
  SlowViewer = {v1, v2}
  MaxOutput = 1
  MaxFrames = 2
  MaxResizes = 1
SYMMETRY ViewerSymmetry
INVARIANTS
  TypeOK
  LiveScreenIsCanonical
PROPERTIES
  HistoryOnceAfterSnapshot
