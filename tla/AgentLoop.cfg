SPECIFICATION FairSpec
CONSTANTS
  MaxToolIterations = 2
  MaxContextTokens = 5
  Sizes = {1, 3}
  MaxTurns = 3
CHECK_DEADLOCK FALSE
INVARIANTS WellFormed IdleMeansAnswered BudgetRespected
PROPERTIES RollbackSound PromptSurvives TurnEnds
