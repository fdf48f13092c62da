SPECIFICATION Spec
CONSTANTS
  first = first
  again = again
  next = next
  Runs <- MCRuns
  Version <- MCVersion
  Old = Old
  None = None
  Torn = Torn
  OldVersion = 1
  Replacing = {again}
  MaxFaults = 2
INVARIANTS
  DeploymentIInv
  MigratesAlone
  FailureIsContained
  SuccessIsWhole
