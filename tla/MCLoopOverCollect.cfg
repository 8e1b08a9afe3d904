SPECIFICATION Spec
CONSTANTS
  f1 = f1
  f2 = f2
  a = a
  b = b
  stray = stray
  NoFrame = NoFrame
  Outside = Outside
  Seed = Seed
  None = None
  Files = {f1, f2}
  Replies <- TaskReplies
  Extract <- TaskExtract
  Scores <- OverScores
  ExpectedTests = 2
  MaxAttempts = 2
INVARIANT
  GreenIsKept
