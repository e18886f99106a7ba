SPECIFICATION Spec
CONSTANTS
  Proposals <- ToolProposals
  MaxSteps = 20
  FloatMin <- MCFloatMin
  FloatMax <- MCFloatMax
  Coarse <- MCCoarse
  Spacing <- MCSpacing
  NearZero <- MCNearZero
  Snap <- MCSnap
INVARIANTS
  FormulasAgree
  AlgorithmsAgree
  
PROPERTIES
  IterationIsSound
  EveryCallSettles
