SPECIFICATION Spec
CONSTANTS
  p = p  q = q  r = r  w1 = w1
  Requests = {p, q, r}
  Consumers = {w1}
  consumer = w1
  Capacity = 3
  None = None
INVARIANTS ConsumerTypeOK
PROPERTIES ForwardedInOrder ForwardedAll
