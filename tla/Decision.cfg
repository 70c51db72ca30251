CONSTANTS
  Contexts <- MCContexts
  Policies <- MCPolicies
  Probabilities <- MCProbabilities
SPECIFICATION Spec
CHECK_DEADLOCK FALSE
INVARIANT DecisionPossible
INVARIANT GuardrailsRespected
INVARIANT ActionIsEligible
INVARIANT NearOptimal
INVARIANT LooserPolicyStillRecovers
INVARIANT TierFollowsHistory
