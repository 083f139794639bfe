SPECIFICATION Spec
CONSTANTS
  Pages = {p1, p2}
  Requests = {r1, r2, r3}
  NoPage = NoPage
SYMMETRY Symmetric
INVARIANT OneTimeReveal
CHECK_DEADLOCK FALSE
