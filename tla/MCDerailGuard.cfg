SPECIFICATION Spec
CONSTANTS
  a = a
  b = b
  NL = NL
  None = None
  Letters = {a, b}
  MaxDelta = 3
  TokenCapChars = 9
  REPETITION_NGRAM = 2
  REPETITION_THRESHOLD = 2
  WARMUP_CHARS = 3
INVARIANT
  TripIsChunkFree
