SPECIFICATION ExecSpec
CHECK_DEADLOCK FALSE
CONSTANTS
  Workflows <- LooseOnly
  MaxStepRetries = 1  StepAttempts = 1  MaxSteps = 12  MaxDeaths = 1
INVARIANT EveryResultIsCurrent
