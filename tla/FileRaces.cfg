CONSTANTS
  owner = owner
  reader = reader
  plain = plain
  differential = differential
  broken = broken
  missing = missing
  Threads = {owner, reader}
  MayCall <- Racing
  Handles = {h1, h2}
  Images = {plain, differential, broken, missing}
  Parents = {p1}
  Keys = {k0}
  ZeroKey = k0
  NoThread = NoThread
  NoHandle = NoHandle
  NoImage = NoImage
  NoParent = NoParent
  NoKey = NoKey
  MediaSize <- MCMediaSize
  Backing <- MCBacking
  Encrypted <- MCEncrypted
  OpenOutcome <- MCOpenOutcome
  Block <- MCDamagedBlock
  MaxOffset = 2
  MaxCount = 2
SPECIFICATION FairSpec
INVARIANT TypeOK
INVARIANT LockHeld
INVARIANT SessionConsistent
INVARIANT IoOnLiveHandle
INVARIANT ReadIsOneExtent
PROPERTY LockIsReleased
