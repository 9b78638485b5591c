SPECIFICATION Spec
CONSTANTS
  Names = {"base", "middle", "top", "short", "lost", "nowhere", "loop"}
  BackingName <- MCBackingName
  Openable <- MCOpenable
  Encrypted = {}
  MediaSize <- MCMediaSize
  Block <- MCBlockAt
  Users = {u1, u2}
  Subsystems = {"fuse", "dokan"}
  KeyOptions = {FALSE}
  Paths <- MCPaths
  Radix = 2
  MaxListed = 2
  Files = {f1, f2, f3}
  MaxOffset = 2
  MaxCount = 2
  NoName = NoName
  NoFile = NoFile
  NoUser = NoUser
INVARIANTS
  TypeOK
  ChainMounted
  NoFileLost
  ParentOutlivesChild
  LocksFollowParents
  CallbacksProgress
  ReadsOverlay
  ListedNamesOpen
PROPERTIES
  OpeningEnds
  FuseCallbackEnds
CHECK_DEADLOCK FALSE
