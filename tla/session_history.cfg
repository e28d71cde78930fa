SPECIFICATION Spec
CONSTANTS
  Viewer = {v1, v2}
  NoViewer = none
  Dims = {d1, d2}
  InitialDims = d1
  NoDims = nodims
  Unset = unset
  FrameTypes = {"session-snapshot-applied"}
  SlowViewer = {}
  MaxOutput = 2
  MaxFrames = 1
  MaxResizes = 0
SYMMETRY ViewerSymmetry
INVARIANTS
  HistoryStopsAtSnapshot
