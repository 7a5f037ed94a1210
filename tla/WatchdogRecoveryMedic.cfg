SPECIFICATION Spec
CONSTANTS
  MaxRecord = 1
  MaxSeq = 0
INVARIANTS
  MedicHoldsFlag
