SPECIFICATION FairSpec
CONSTANTS
  c1 = c1
  c2 = c2
  c3 = c3
  l1 = l1
  l2 = l2
  u1 = u1
  u2 = u2
  None = None
  Copies = {c1, c2, c3}
  Loans = {l1, l2}
  Users = {u1}
  Borrower <- MCOneMember
  Baskets <- MCBaskets
  Desk = {}
  MaxActiveItems = 2
  MaxRenewals = 1
  LoanDays = 0
  ExtendDays = 1
  MaxDay = 0
  MaxFaults = 3
  MaxFines = 1
  LockOutlivesRequest = TRUE
  OneJobPerLoan = TRUE
  MarksBorrowedOnly = TRUE
CHECK_DEADLOCK FALSE
INVARIANTS
  NoDoubleLoan
  LoanLimit
PROPERTIES
  LockRemovedByOwner
  RequestAnswered
  LockFreed
