SPECIFICATION Spec
INVARIANTS
  TypeOK
  NothingRunOver
  AllEdible
PROPERTY DoorShut
