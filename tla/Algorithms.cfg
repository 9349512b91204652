CONSTANTS
  Undef = Undef
  Vals = {0, 1, 2}
  MaxArray = 4
  Alphabet = {"a", "b", "y", "s", "e"}
  MaxWord = 5
  Tokens = {"the", "Foo", "foos", "ies", "generously"}
  Files = {0, 1}
  Stems = {"foo", "bar"}
  MaxNodes = 4
  Bytes <- EdgeBytes
  MaxBytes = 3
SPECIFICATION Spec
INVARIANTS
  UnderscoreExact
  SearchExact
  PageToolsExact
  SelectionExact
  AjaxDataExact
  HexExact
CHECK_DEADLOCK FALSE
