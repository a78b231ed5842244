CONSTANTS
  Dialects = {"ling", "qwen", "other"}
  Calls <- MCCalls
  Typed <- MCTyped
  MaxPieces = 3
SPECIFICATION ReplySpec
INVARIANTS NothingLost CallsAsMeant StreamAgrees
