CONSTANTS
  MemSize = 96
  Scenarios <- AllScenarios
  Environments <- Answers
  Interruptible <- InterruptedScenarios
  MaxInterrupts = 1
  MaxCycles = 60
SPECIFICATION Spec
INVARIANT ImplementationsAgree
PROPERTY FaultKeepsState
PROPERTY StopsWhenAsked
