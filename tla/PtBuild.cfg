CONSTANTS
  pytorch = pytorch
  fbgemm = fbgemm
  r1 = r1
  r2 = r2
  p1 = p1
  p2 = p2
  c1 = c1
  hipified = hipified
  none = none
  Root = pytorch
  Sub = {fbgemm}
  Ref = {r1, r2}
  Shipped = {p1, p2}
  Local = {c1}
  Hipify = hipified
  None = none
  MaxCommands = 4
SPECIFICATION Spec
SYMMETRY Symmetry
PROPERTIES RoundTrip SavedExactly CheckoutExact
CHECK_DEADLOCK FALSE
