CONSTANTS
  W = 3
  Opaque <- MCOpaque
  Translucent <- MCTranslucent
  Clear = "clear"
  SimilarColours <- MCSimilar
  MaxDuration = 4
  Callers <- MCCallers
SPECIFICATION Spec
INVARIANTS StateIsSound ShowsTheInput DurationsAddUp KeyFramesInReach
