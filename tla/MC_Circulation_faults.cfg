SPECIFICATION Spec
CONSTANTS
  c1 = c1
  c2 = c2
  c3 = c3
  l1 = l1
  l2 = l2
  u1 = u1
  u2 = u2
  None = None
  Copies = {c1}
  Loans = {l1, l2}
  Users = {u1, u2}
  Borrower <- MCTwoMembers
  Baskets <- MCSingles
  Desk = {d1}
  MaxActiveItems = 2
  MaxRenewals = 1
  LoanDays = 0
  ExtendDays = 1
  MaxDay = 1
  MaxFaults = 2
  MaxFines = 3
  LockOutlivesRequest = TRUE
  OneJobPerLoan = TRUE
  MarksBorrowedOnly = TRUE
CHECK_DEADLOCK FALSE
INVARIANTS
  CopyFollowsItem
  OneOverdueFine
  LoanClosedWhenBack
PROPERTIES
  LedgerSpec
