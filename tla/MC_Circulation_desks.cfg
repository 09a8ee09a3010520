SPECIFICATION Spec
CONSTANTS
  c1 = c1
  c2 = c2
  c3 = c3
  l1 = l1
  l2 = l2
  u1 = u1
  u2 = u2
  None = None
  Copies = {c1}
  Loans = {l1}
  Users = {u1}
  Borrower <- MCOneMember
  Baskets <- MCTwice
  Desk = {d1, d2}
  MaxActiveItems = 2
  MaxRenewals = 1
  LoanDays = 0
  ExtendDays = 1
  MaxDay = 1
  MaxFaults = 1
  MaxFines = 1
  LockOutlivesRequest = FALSE
  OneJobPerLoan = FALSE
  MarksBorrowedOnly = FALSE
CHECK_DEADLOCK FALSE
INVARIANTS
  BorrowedAccounted
  RenewCap
