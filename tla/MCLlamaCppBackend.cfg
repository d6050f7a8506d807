SPECIFICATION Spec
CONSTANTS
  Configs <- MCConfigs
  PromptLengths = {1, 2, 3}
  EmptyPath = ""
  None = None
INVARIANTS
  TypeOK
  NothingLeaks
  ContextHoldsTheRequest
  FailureHasACause
  OnlyLongPromptsAbort
PROPERTIES
  EveryRequestIsAnswered
\* The object is destroyed at the end of the program, or the process ends.
CHECK_DEADLOCK FALSE
