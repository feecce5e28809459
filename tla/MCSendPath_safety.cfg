SPECIFICATION Spec
CONSTANTS
  Sends = {s1, s2}
  Flows = {f1, f2}
  Addresses = {a}
  Senders = {x}
  SenderOf <- MCSenderOf
  LeaseLength = 1
  MaxTime = 1
  None = None
SYMMETRY Symmetric
INVARIANTS
  TypeOK
  AtMostOnce
  TruthfulAnswer
  NoLeaseLeft
PROPERTY KeepsContract
