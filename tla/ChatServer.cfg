CONSTANTS
  Requests = {r1, r2}
  MaxNewTokens <- MCMaxNewTokens
  r1 = r1
SPECIFICATION Spec
INVARIANTS TypeOK EngineIsolation NeverPartial StreamEqualsText
PROPERTY EveryRequestAnswered
CHECK_DEADLOCK FALSE
