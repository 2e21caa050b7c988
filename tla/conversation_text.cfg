\* A model that says something and calls a tool.
SPECIFICATION Spec
CONSTANTS
  Inputs <- Formats
  Texts = {"", "text"}
  Refs = {"", "ref1"}
  CallInputs = {"nil", "object"}
  Results = {"null", "bigNumber"}
  MaxCalls = 2
  MaxTurns = 1
INVARIANTS CallsComeAlone
