SPECIFICATION Spec
CONSTANTS
  Keys <- MCKeys
  Values = {0, 127, 128}
  MaxList = 260
INVARIANTS
  TrieIsCanonical
  HashDeterminesContents
CHECK_DEADLOCK FALSE
