CONSTANTS
  Names <- MCNames
  Scope <- MCScope
  MaxTurns = 3
  MaxCalls = 2
  MaxRounds = 2
SPECIFICATION Spec
CHECK_DEADLOCK FALSE
INVARIANTS
  ConversationAnswered
  EditsInScope
