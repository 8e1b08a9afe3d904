SPECIFICATION DispatchSpec
CONSTANTS
  f1 = f1
  f2 = f2
  f2_lf = f2_lf
  a = a
  b = b
  prose = prose
  NoFrame = NoFrame
  Outside = Outside
  Seed = Seed
  None = None
  Files = {f1, f2}
  Replies <- TaskReplies
  Extract <- TaskExtract
  ReadText <- TaskReadText
  Scores <- TaskScores
  ExpectedTests = 1
  MaxAttempts = 3
INVARIANT
  AdmittedIsGreen
  CodeIsScored
  ClientIsReleased
  WorktreeIsSettled
