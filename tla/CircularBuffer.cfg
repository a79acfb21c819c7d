\* Three bytes and inputs that fit, just fit or do not: every pointer wraps.
CONSTANTS
  Bytes = {"a", "b"}
  MAX_LEN = 3
  Inputs <- MCInputs
  Lens <- MCLens
SPECIFICATION Spec
PROPERTIES
  ImplementsDeque
