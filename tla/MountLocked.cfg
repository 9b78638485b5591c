SPECIFICATION Spec
CONSTANTS
  Names = {"base", "middle", "top", "short", "lost", "nowhere", "loop"}
  BackingName <- MCBackingName
  Openable <- MCOpenable
  Encrypted = {"base"}
  MediaSize <- MCMediaSize
  Block <- MCBlockAt
  Users = {u1, u2}
  Subsystems = {"fuse", "dokan"}
  KeyOptions = {FALSE, TRUE}
  Paths <- MCPaths
  Radix = 2
  MaxListed = 2
  Files = {f1, f2, f3}
  MaxOffset = 2
  MaxCount = 2
  NoName = NoName
  NoFile = NoFile
  NoUser = NoUser
INVARIANTS
  LockedIsRefused
CHECK_DEADLOCK FALSE
