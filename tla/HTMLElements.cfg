SPECIFICATION Spec
CONSTANTS
  first = first
  second = second
  NULL = NULL
  Garbage = Garbage
  Element = {first, second}
  Tag <- MCTag
  Word = {"junk"}
  Reading <- MCReading
  Modulus = 4
  Given = {"junk", "1"}
  MaxAttributes = 1
SYMMETRY MCSymmetry
INVARIANT
  PropertiesReadBack
PROPERTY
  ChangesOneProperty
CHECK_DEADLOCK FALSE
