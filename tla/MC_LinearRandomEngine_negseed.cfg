CONSTANTS
  Multiplier = 48271
  Increment = 0
  Modulus <- MC_Modulus
  ForkMultiplier = 32767
  ForkModulus <- MC_ForkModulus
  Seeds <- MC_SeedsNegative
  DeviceRandomValues <- MC_DeviceRandomValues
  MaxDraws = 12
SPECIFICATION Spec
INVARIANT
  NeverAborts
CHECK_DEADLOCK FALSE
