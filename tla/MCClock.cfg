CONSTANTS
  Instructions = {i}
SPECIFICATION Spec
PROPERTIES BackwardChangeRestarts
