\* Every combination within each group of request fields, all answers of up to
\* two tool calls, and the follow-up they lead to.
SPECIFICATION Spec
CONSTANTS
  Inputs <- MCInputs
  Texts = {"", "text", "json"}
  Refs = {"", "ref1"}
  CallInputs = {"nil", "object"}
  Results = {"null", "bigNumber"}
  MaxCalls = 2
  MaxTurns = 1
INVARIANTS RefusedIffMalformed AcceptedIsHeard TextDeliveredOnce FollowUpAccepted ToolCallsComeBack
