SPECIFICATION Spec
CONSTANTS
  ByteMax = 3
  Word64Max = 7
  Emissions <- MCEmissions
  BrainError = BrainError
  EmptyText = EmptyText
  EmptyLine = ""
  None = None
  Stimuli <- MCStimuli
  Requests <- MCRequests
  Outcomes <- MCOutcomes
  Answers <- MockAnswers
  Rejections <- MCRejections
  MaxLines = 3
INVARIANT
  ReformulatesAfterDenial
\* The kernel really stops: on "exit" and at the end of the input.
CHECK_DEADLOCK FALSE
