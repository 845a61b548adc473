\* Four-byte strings on the user space side, messages of up to seven bytes.
CONSTANTS
  STR_LEN = 4
  MaxBytes = 7
  Levels = {1, 5}
  ProgramLengths <- MCProgramLengths
  Files <- MCFiles
  Cpus <- MCCpus
  Lines <- MCLines

SPECIFICATION Spec

INVARIANTS
  DecodesWhatWasWritten
  RejectsOnlyCutCharacters
  NeverAnotherEvent
