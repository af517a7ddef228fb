SPECIFICATION Spec
CONSTANTS
  r1 = r1
  r2 = r2
  Ids = {r1, r2}
  Loops = {1, 2}
  Setups <- AllSetups
INVARIANTS OneTrueAnswer
PROPERTIES NobodyWaitsForEver
