CONSTANTS
  h1 = h1
  h2 = h2
  t1 = t1
  t2 = t2
  w1 = w1
  w2 = w2
  Workers = {w1, w2}
  FlaskWorkers = {w2}
  Addrs = {h1, h2}
  Times = {t1}
  NoKey = NoKey
SYMMETRY Symmetry
SPECIFICATION Spec
INVARIANTS TypeOK RowsBelongToRegisteredNodes NumberBelowPosition CopiesBounded
