CONSTANTS
  owner = owner
  reader = reader
  base = base
  child = child
  object1 = object1
  object2 = object2
  Threads = {owner, reader}
  Files = {base, child}
  Objects = {object1, object2}
  Handles = {h1, h2}
  NoThread = NoThread
  NoFile = NoFile
  NoObject = NoObject
  NoHandle = NoHandle
  Program <- MCProgram
  Backed = {child}
  End = 2
  Reopens = FALSE
SPECIFICATION Spec
INVARIANT HandlesLive
INVARIANT ParentsLive
INVARIANT ReadsOwnPlace
PROPERTY CallsReturn
CHECK_DEADLOCK FALSE
