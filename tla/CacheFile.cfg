\* Two updates and two readers, databases of up to three parts.
SPECIFICATION Spec
CONSTANTS
  w1 = w1
  w2 = w2
  r1 = r1
  r2 = r2
  Writers <- MCWriters
  Readers <- MCReaders
  N = 3
  Sizes <- MCSizes
  Old = Old
  Hole = Hole
  Gone = Gone
  Nobody = Nobody
INVARIANTS
  TypeOK
  OneDatabasePerRead
  QuiescentWhole
PROPERTIES
  AllFinish
  RegisterSpec
