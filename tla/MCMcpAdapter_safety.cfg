SPECIFICATION Spec
CONSTANTS
  Calls = {c1, c2, c3}
  MaxActive = 2
  MaxSeen = 3
SYMMETRY Symmetric
INVARIANTS
  TypeOK
  OneFinal
  NoDuplicateSend
PROPERTIES
  NoSendAfterCancel
  KeepsCallContract
CHECK_DEADLOCK FALSE
