SPECIFICATION Spec
CONSTANTS
  r1 = r1
  r2 = r2
  r3 = r3
  r4 = r4
  c1 = c1
  c2 = c2
  c3 = c3
  an = an
  binh = binh
  chi = chi
  Creates = {r1, r2, r3, r4}
  Changes = {c1, c2}
  Members = {an, binh, chi}
  MemberOf <- MCMemberOf
  Nothing = Nothing
  MaxFaults = 1
  OneChange = TRUE
INVARIANTS
  QueueInOrder
PROPERTIES
  ClosedForGood
  Compacted
  ListSpec
SYMMETRY MCChanges
CHECK_DEADLOCK FALSE
