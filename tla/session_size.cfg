SPECIFICATION Spec
CONSTANTS
  Viewer = {v1, v2}
  NoViewer = none
  Dims = {d1, d2}
  InitialDims = d1
  NoDims = nodims
  Unset = unset
  FrameTypes = {"resize", "terminal-size-claim", "terminal-size-release"}
  SlowViewer = {}
  MaxOutput = 1
  MaxFrames = 2
  MaxResizes = 1
SYMMETRY ViewerSymmetry
INVARIANTS
  OwnerIsMostRecentClaimant
  ViewersKnowTheOwner
  StationGridRestored
  AnnouncedGridIsSnapshotGrid
  CurrentIsQueuedGrid
  DetachedLeavesNothing
  FramesHandledInOrder
PROPERTIES
  ImplementsSizeArbiter
