SPECIFICATION Spec
CONSTANTS
  Vals = {a, b}
  NULL = NULL
  Undef = Undef
  MaxElts = 5
PROPERTIES
  ImplementsSeqCursor
