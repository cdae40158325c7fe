SPECIFICATION Spec
CONSTANTS
  FailureThreshold <- MCFailureThreshold
  RecoveryThreshold <- MCRecoveryThreshold
  MaxHistory <- MCMaxHistory
INVARIANTS
  HealthMatchesHistory
  EffectsMatchHistory
