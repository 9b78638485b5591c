CONSTANTS
  NoFile = NoFile
  Files <- MCFiles
  Calls <- MCCalls
  Width = 16
  SectorBits = 3
  EntryBits = 1
  HeaderSize = 16
  MaxAllocation = 8192
  MaxReferences = 1000
SPECIFICATION Spec
INVARIANT TypeOK
INVARIANT ShiftsDefined
INVARIANT OffsetsSplit
INVARIANT ReadsWhatWasWritten
INVARIANT BitsInOrder
INVARIANT StaysInBuffer
INVARIANT WritesText
INVARIANT OnlyDamageFails
INVARIANT CutIsNoticed
PROPERTY Terminates
CHECK_DEADLOCK FALSE
