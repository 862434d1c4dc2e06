SPECIFICATION StorageSpec
CONSTANTS
  Values = {1, 255}
  Blank = 255
  NoFile = NoFile
  Sizes = {0, 1, 2, 3, 5}
  Sector = 4
  Word = 2
  MaxLength = 3
  AvrValues = {0, 1}
  Length = 3
  None = None
  Sources = {"", "u"}
  MaxUpdates = 2
  MaxChunks = 2
  Paths = {"a", "b"}
  Inodes = {1, 2}
  Impls = {1, 2}
  Files = {1, 2}
  Modes <- MCModes
  MaxSize = 1
  Walks = {1, 2}
CHECK_DEADLOCK FALSE
INVARIANTS EepromPersists  TerminalKept
 
