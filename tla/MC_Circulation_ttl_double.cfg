SPECIFICATION Spec
CONSTANTS
  c1 = c1
  c2 = c2
  c3 = c3
  l1 = l1
  l2 = l2
  u1 = u1
  u2 = u2
  None = None
  Copies = {c1, c2}
  Loans = {l1, l2}
  Users = {u1, u2}
  Borrower <- MCTwoMembers
  Baskets <- MCSingles
  Desk = {}
  MaxActiveItems = 2
  MaxRenewals = 1
  LoanDays = 0
  ExtendDays = 1
  MaxDay = 1
  MaxFaults = 0
  MaxFines = 1
  LockOutlivesRequest = FALSE
  OneJobPerLoan = TRUE
  MarksBorrowedOnly = TRUE
CHECK_DEADLOCK FALSE
INVARIANTS
  NoDoubleLoan
