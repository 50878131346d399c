CONSTANTS
  SaltLen = 16
  KeyIdLen = 16
  MaxNameLen = 2
  MaxStoreBytes = 62
  SubjectLens = {40}
  Inputs <- AllInputs
  Recognize <- Recognized
  Guess <- ByLength
  LabelOf <- Labelled
  PemHolds <- InPem
  HexHolds <- InHex
  Base64Holds <- InBase64
  LayersOf <- Depth
SPECIFICATION Spec
INVARIANTS TypeOK ReadsBack StoreReadsBack ToldAsItself LayersTold
PROPERTY EveryStepGetsNearer
