CONSTANTS
  CanvasW = 6
  CanvasH = 4
  OutW = 4
  OutH = 2
  MaxDimension = 6
  UIntRange = 37
  Anims <- MCAnims
SPECIFICATION Spec
INVARIANTS KeyFrameLosesNothing ScalingKeepsTheLayout
PROPERTIES ImplementsCompositor
