SPECIFICATION Spec
CONSTANTS
  Configs <- MixedConfigs
  Values <- ThreeValues
  History = 3
INVARIANTS
  OutcomeIsFirstFailure
  StableEdgeFiresOnce
  StableEdgeSeesTransition
