CONSTANTS
  VocabSize = 3
  LogitBound = 8
  Families = {"ling", "qwen"}
  LayerCount = 3
  GroupSize = 2
  Kernels = {1, 3}
  Prompts <- MCPrompts
  MaxPrompt = 3
  PrefillChunk = 2
  LogitSet <- MCLogitSet
  GenConfigs <- MCGenConfigs
  Eos = {2}
  MaxNew = 2
  Requests = 2
SPECIFICATION Spec
INVARIANTS TypeOK CausalContext FreshLogits FiniteLogits
  DrawnAsConfigured
CHECK_DEADLOCK FALSE
