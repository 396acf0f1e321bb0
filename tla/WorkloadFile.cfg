\* Words of three bits; arrays start at even cells.
CONSTANTS
  Bits = 3
  Alignment = 2
  HeaderSize = 2
  Instances <- SomeInstances
  MaxChanges = 2
SPECIFICATION FileSpec
INVARIANTS ReadersAgree OneChangeIsNoticed
CHECK_DEADLOCK FALSE
