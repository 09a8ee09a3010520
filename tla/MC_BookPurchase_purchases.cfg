SPECIFICATION FairSpec
CONSTANTS
  o1 = o1
  o2 = o2
  an = an
  ebook = ebook
  novel = novel
  Orders = {o1, o2}
  Readers = {an}
  Books = {ebook, novel}
  Wishes <- MCWishes
  Codes = {101, 102}
  NoCode = 0
  NoOrder = NoOrder
  w1 = w1
  w2 = w2
  Hooks = {w1, w2}
  MaxFaults = 1
INVARIANTS
  PaidIsReadable
  BooksBalance
PROPERTIES
  SaleSpec
  TransferOpensBook
  WindowLearns
CHECK_DEADLOCK FALSE
