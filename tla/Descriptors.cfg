\* Two descriptors beside stdin and stdout.
CONSTANTS
  MAX_FILE_DESCRIPTORS = 4
  MAX_FILE_NAME_LENGTH = 2
  directory_entries <- MCEntries
  file_length <- MCFileLength
  Names <- MCNames
  Lengths = {0, 1, 2}
  dot <- MCdot
  helloo <- MChelloo
  shel <- MCshel
  BUFSIZE = 2
SPECIFICATION ProgramsSpec
INVARIANTS
  ReadsInOrder
  OpensWhatWasNamed
  SysErrPasses
  CopiesWhole
