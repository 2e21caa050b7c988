\* Two requests of two tenants and strangers, behind gateway authentication and in
\* pass-through, budgets of one, three layers, two windows.
SPECIFICATION Spec
CONSTANTS
  Requests = {r1, r2}
  Inputs <- MCInputs
  ProviderOf <- MCProviderOf
  Configs <- MCConfigs
  NoToken = NoToken
  NoSecret = NoSecret
  Unavailable = Unavailable
  NoKey = NoKey
  VertexAI <- vertexai
  MaxWindow = 1
  MaxErrors = 1
  alice = alice
  bob = bob
  stranger = stranger
  gemini = gemini
  gpt = gpt
  vertex = vertex
  banned = banned
  googleai = googleai
  openai = openai
  vertexai = vertexai
  aliceKey = aliceKey
  bobKey = bobKey
  aliceRef = aliceRef
  bobRef = bobRef
  goneRef = goneRef
SYMMETRY RequestSymmetry
INVARIANTS TypeOK BudgetPerLayer DenialIsDue ServedAsConfigured OwnCredentialOnly MetricsMatchAnswers
