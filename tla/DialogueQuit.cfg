SPECIFICATION DialogueSpec
CONSTANTS
  MaxBehind = 2
CHECK_DEADLOCK FALSE
INVARIANTS QuitCloses
