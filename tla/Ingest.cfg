SPECIFICATION Spec
CONSTANTS
  JobCount = 2
  a1 = a1
  a2 = a2
  c1 = c1
  c2 = c2
  Actors = {a1, a2}
  Contents = {c1, c2}
  Shelves = {s1}
  MaxTouches = 2
  Empty = Empty
  Junk = Junk
  Nobody = Nobody
  Nowhere = Nowhere
SYMMETRY Symmetric
INVARIANTS
    TypeOK
    VouchedIsGenuine
    Recovery
PROPERTIES
    Archives
    RemovedStaysRemoved
    KeepsCatalogue
