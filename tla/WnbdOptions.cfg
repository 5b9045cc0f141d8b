SPECIFICATION Spec
CONSTANTS
  BoolOptions = {"NewMappingsAllowed"}
  IntOptions = {"LogLevel"}
  UnknownNames = {"NoSuchOption"}
  Default <- MCDefault
  IntValues = {0, 1, 4}
  Callers = {c1, c2}
SYMMETRY CallerSymmetry
INVARIANTS
  InForce
