SPECIFICATION Spec
CONSTANTS
  w = w
  out = out
  src = src
  impl_py = impl_py
  other = other
  pkg = pkg
  alias = alias
  away = away
  deep = deep
  code = code
  seed = seed
  Nl = Nl
  Cr = Cr
  FilePrefix = FilePrefix
  Fence = Fence
  Info = Info
  Analysis = Analysis
  Final = Final
  Return = Return
  End = End
  Surrogate = Surrogate
  NoReply = NoReply
  Up = Up
  Dot = Dot
  Slash = Slash
  Barred = Barred
  Nowhere = Nowhere
  OracleName = OracleName
  OracleText = OracleText
  Root <- TaskRoot
  Trees <- TaskTrees
  ImplPaths <- TaskImplPaths
  Replies <- TaskReplies
  Scores = {0, 1}
  MaxAttempts = 2
INVARIANTS
  OnlyImplChanges
  WrittenAsMeant
  RestoreIsExact
