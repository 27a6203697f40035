SPECIFICATION Spec
CONSTANTS
  LineLen = 4
  Byte = {"x", "y", "n"}
  NL = "n"
  MaxTyped = 5
  Raised = {1, 2, 3, 15}
INVARIANT InStep
PROPERTIES
  ShortLinesRun
  HangupEnds
