\* Sixteen stands for 2^32: the sums that wrap are among the arguments.
CONSTANTS
  FS_BLOCK_SIZE = 2
  MAX_DATA_BLOCKS = 3
  UINT = 16
  num_inodes = 4
  num_data_blocks = 4
  file_length <- MCFileLength
  data_blocks <- MCDataBlocks
  Inodes <- AllInodes
  Offsets <- AllOffsets
  Lengths <- AllLengths
SPECIFICATION FairSpec
INVARIANTS
  CopiesTheFile
  ReturnsWhatIsLeft
PROPERTIES
  CallReturns
