CONSTANTS
  one = one
  two = two
  three = three
  four = four
  five = five
  odd = odd
  Images = {one, two, three, four, five, odd}
  NoImage = NoImage
  Version <- MCVersion
  MediaSize <- MCMediaSize
  FileSize <- MCFileSize
  Level1 <- MCLevel1
  Tables <- MCTables
  StreamSize <- MCStreamSize
  Encrypted <- MCEncrypted
  Unreliable = {one, two}
  Backing <- MCBacking
  ParentSize = 14
  ClusterSize = 4
  SectorSize = 2
  TableEntries = 2
  TableSize = 4
  TableSlots = 1
  BlockSlots = 2
  MaxOffset = 18
  MaxRead = 6
SPECIFICATION Spec
INVARIANT TypeOK
INVARIANT ReadsMedia
INVARIANT CachesOfSession
INVARIANT ReadComplete
INVARIANT OnlyDamageFails
PROPERTY ReadEnds
