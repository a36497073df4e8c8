CONSTANTS
  S1 = S1
  S2 = S2
  Bool = Bool
  Float32 = Float32
  Shapes <- MC_Shapes
  Types <- MC_Types
  MaxInputs = 3
SPECIFICATION Spec
INVARIANT
  NumInputsHonoured
CHECK_DEADLOCK FALSE
