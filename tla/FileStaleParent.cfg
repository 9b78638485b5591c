CONSTANTS
  owner = owner
  reader = reader
  plain = plain
  differential = differential
  broken = broken
  missing = missing
  Threads = {owner, reader}
  MayCall <- OneOwner
  Handles = {h1}
  Images = {plain, differential, broken, missing}
  Parents = {p1}
  Keys = {k0, k1}
  ZeroKey = k0
  NoThread = NoThread
  NoHandle = NoHandle
  NoImage = NoImage
  NoParent = NoParent
  NoKey = NoKey
  MediaSize <- MCMediaSize
  Backing <- MCBacking
  Encrypted <- MCEncrypted
  OpenOutcome <- MCOpenOutcome
  Block <- MCBlock
  MaxOffset = 2
  MaxCount = 2
SPECIFICATION Spec
INVARIANT ParentOnlyWithBacking
