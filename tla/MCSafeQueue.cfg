CONSTANTS
  a = a
  b = b
  Torn = Torn
  SIZE = 4
  Elem <- MCElem
SPECIFICATION Spec
INVARIANTS
  TypeOK
  NoSlotRace
  PublishedWhole
PROPERTY
  FIFOSpec
