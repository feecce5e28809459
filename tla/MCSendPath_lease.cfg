SPECIFICATION Spec
CONSTANTS
  Sends = {s1}
  Flows = {f1, f2}
  Addresses = {a}
  Senders = {x}
  SenderOf <- MCSenderOf
  LeaseLength = 1
  MaxTime = 2
  None = None
SYMMETRY Symmetric
INVARIANT LockReturnedAfterRefusal
