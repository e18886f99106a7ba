SPECIFICATION Spec
CONSTANTS
  Proposals <- OfferedProposals
  MaxSteps = 20
  FloatMin <- MCFloatMin
  FloatMax <- MCFloatMax
  Coarse <- MCCoarse
  Spacing <- MCSpacing
  NearZero <- MCNearZero
  Snap <- MCSnap
INVARIANT
  OfferedIsSupported
