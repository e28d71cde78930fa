SPECIFICATION FairSpec
CONSTANTS
  Viewer = {v1, v2}
  NoViewer = none
  Dims = {d1, d2}
  InitialDims = d1
  NoDims = nodims
  Unset = unset
  FrameTypes = {"input", "malformed", "resize", "terminal-size-claim", "terminal-size-release"}
  SlowViewer = {}
  MaxOutput = 1
  MaxFrames = 1
  MaxResizes = 0
PROPERTIES
  EveryAttachEnds
  EndClosesEveryViewer
  SizeReturnsToStation
