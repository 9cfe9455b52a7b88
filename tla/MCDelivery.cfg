CONSTANTS
  x1 = x1
  x2 = x2
  p1 = p1
  p2 = p2
  t1 = t1
  t2 = t2
  r1 = r1
  r2 = r2
  Exchanges = {x1, x2}
  Ports = {p1, p2}
  Threads = {t1, t2}
  Readings = {r1, r2}
  None = None
  PortReuse = "forgotten"
SYMMETRY Symmetry
SPECIFICATION DeliverySpec
INVARIANTS DeliveryTypeOK AcknowledgedOrAttended SettledIsStored
CHECK_DEADLOCK FALSE
