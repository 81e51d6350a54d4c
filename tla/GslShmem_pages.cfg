CONSTANTS
  Page = {p1, p2, p3}
  FramesPerPage = 2
  MaxScratch = 4
  PreAlloc = 5
  MaxFrames = 5
SPECIFICATION Spec
SYMMETRY Pages
INVARIANTS
  PagesTiled
  OwnersMatchBlocks
  NoIdlePage
PROPERTY KeepsExtentsApart
