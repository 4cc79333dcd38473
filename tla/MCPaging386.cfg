SPECIFICATION Spec
CONSTANTS
  PageCells = 2
  TLB_SIZE = 2
  Widths = {1, 2}
  InitMem <- MCInitMem
  Directories = {0, 1}
  StoreWord <- MCStoreWord
  MaxStores = 1
INVARIANT TlbCoherent
INVARIANT AccessIsWalk
INVARIANT FaultKeepsData
INVARIANT ChangesAreStamped
