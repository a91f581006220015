\* Two sessions over a portfolio row and an account row of one day.
SPECIFICATION Spec
CONSTANTS
  w1 = w1
  w2 = w2
  p1 = p1
  a1 = a1
  u = u
  v = v
  None = None
  Writers = {w1, w2}
  Scopes = {p1, a1}
  OfAccount = {a1}
  Values = {u, v}
  MaxCommits = 4
  MaxBatch = 1
SYMMETRY Interchangeable
INVARIANTS
  HistoryIsServed
