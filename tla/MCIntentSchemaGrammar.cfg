SPECIFICATION Spec
CONSTANTS
  ByteMax = 3
  Word64Max = 7
INVARIANTS
  GrammarPermitsOnlyTheContract
\* A document with three fields is complete.
CHECK_DEADLOCK FALSE
