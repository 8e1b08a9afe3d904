SPECIFICATION Spec
CONSTANTS
  Lf = Lf
  Cr = Cr
  Sp = Sp
  Data = Data
  Done = Done
  None = None
  Bad = Bad
  MaxFrameBytes = 3
  Wires <- StreamWires
  Json <- StreamJson
  Raising <- DeepFrames
INVARIANTS
  DecodesAsWhole
  ScannedOnce
  FloodIsCapped
  AllOrNothing
