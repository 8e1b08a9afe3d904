SPECIFICATION Spec
CONSTANTS
  Models = 2
  Cases = 2
  None = None
INVARIANT
  OneResident
