CONSTANTS
  one = one
  two = two
  three = three
  four = four
  five = five
  odd = odd
  Images = {three, odd}
  NoImage = NoImage
  Version <- MCVersion
  MediaSize <- MCMediaSize
  FileSize <- MCFileSize
  Level1 <- MCLevel1
  Tables <- MCTables
  StreamSize <- MCStreamSize
  Encrypted <- MCEncrypted
  Unreliable = {odd}
  Backing <- MCBacking
  ParentSize = 14
  ClusterSize = 4
  SectorSize = 2
  TableEntries = 2
  TableSize = 4
  TableSlots = 1
  BlockSlots = 2
  MaxOffset = 18
  MaxRead = 6
SPECIFICATION Spec
INVARIANT OddOffsetIsOffset
