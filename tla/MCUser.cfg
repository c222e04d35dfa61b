CONSTANTS
  N = 4
  Args = 2
  WordTexts <- Words
SPECIFICATION Spec
CHECK_DEADLOCK FALSE
INVARIANTS
  ParsesGrammar
  DescriptorsExact
  WaitsInOrder
  
PROPERTIES
  ShellGoesOn
