CONSTANTS
  Multiplier = 48271
  Increment = 0
  Modulus <- MC_Modulus
  ForkMultiplier = 32767
  ForkModulus <- MC_ForkModulus
  Seeds <- MC_Seeds
  DeviceRandomValues <- MC_DeviceRandomValues
  MaxDraws = 12
SPECIFICATION Spec
INVARIANTS
  TypeOK
  StateInRange
\* The engine has no terminal state of its own: once MaxDraws calls are
\* used up only InitState remains, which is always enabled.
