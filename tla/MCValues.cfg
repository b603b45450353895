CONSTANTS
  Objs = {o1, o2, o3}
  Handles = {h1, h2, h3}
  None = None
  Null = Null
  Payloads = {p, q}
  MaxLen = 2
SPECIFICATION Spec
SYMMETRY Symmetry
INVARIANTS
  CountsExact
  NoDanglingValue
  NothingLeaks
PROPERTIES
  ChangesStayPrivate
