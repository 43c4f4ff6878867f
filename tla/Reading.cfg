SPECIFICATION Spec
CONSTANTS
  c1 = c1
  c2 = c2
  Payments = {p1, p2, p3}
  Clients = {c1, c2}
  Unreadable = {p2}
  Nameless = {p3}
  NoPayment = NoPayment
SYMMETRY Symmetry
INVARIANTS TypeOK ToldIsRead ReadIsStored
PROPERTIES ReadsNeverGoBack
