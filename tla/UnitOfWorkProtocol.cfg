SPECIFICATION Spec
CONSTANTS
  m1 = m1
  m2 = m2
  m3 = m3
  t1 = t1
  t2 = t2
  Models = {m1, m2, m3}
  Types = {t1, t2}
  TypeOf <- TwoClasses
  Completing = {t1}
SYMMETRY Symmetry
INVARIANTS ChangesAreTracked DeletedIsGone
