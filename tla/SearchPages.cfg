CONSTANTS
  Undef = Undef
  Vals = {0}
  MaxArray = 1
  Alphabet = {"a"}
  MaxWord = 1
  Tokens = {"foo"}
  Files = {0, 1}
  Stems = {"foo", "bar"}
SPECIFICATION SearchSpec
INVARIANT RequirementsMatched
CHECK_DEADLOCK FALSE
