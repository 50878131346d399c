CONSTANTS
  NoVal = NoVal  NoOp = NoOp  NoBlob = NoBlob  NoFile = NoFile
  Torn = Torn  Closed = Closed  NoTmp = NoTmp  Left = Left
  Handles = {h1, h2}
  Masters = {m1, m2}
  Names = {n1, n2}
  Vals = {1, 2}
  Cap = 3
  MaxGen = 2
  MaxPending = 2
  DirStates = {"rw", "noperm"}
  LiveRemount = FALSE
SPECIFICATION Spec
SYMMETRY Symmetric
INVARIANTS TypeOK LoadableFile OneGeneration OkIsDurable
  ServesWhatDiskMayHold ReadsBackWhatItHolds NoTmpLeftBehind
PROPERTIES ImplementsMap
