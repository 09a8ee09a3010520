--------------------------- MODULE CirculationInv ---------------------------
(***************************************************************************)
(* The inductive invariant of Circulation under the assumptions on its     *)
(* deployment, and the refinement of LoanLedger.  TLC checks both on small *)
(* instances, Circulation_proofs proves them.                              *)
(***************************************************************************)
EXTENDS Circulation

\* Locks outlive the requests that take them, and the desk serves one call
\* per loan and reports only BORROWED items.
CarefulLibrary == LockOutlivesRequest /\ OneJobPerLoan /\ MarksBorrowedOnly

\* How far a request is: the positions read as AVAILABLE, and those written.
Passed(l) ==
  IF pc[l] \in {"lock", "read"} THEN at[l] - 1 ELSE Len(basket[l])
Written(l) ==
  IF pc[l] \in {"insert", "items"} THEN Len(basket[l])
  ELSE IF pc[l] = "write" THEN at[l] - 1 ELSE 0

ReqShape(l) ==
  /\ pc[l] \in Checking \cup Working => at[l] \in 1..Len(basket[l])
  /\ pc[l] \in {"idle"} \cup Checking => at[l] = 1 /\ held[l] = 0
  /\ pc[l] = "lock" => held[l] = at[l] - 1
  /\ pc[l] = "read" => held[l] = at[l]
  /\ pc[l] \in {"write", "insert", "items"} =>
       held[l] = Len(basket[l])
  /\ pc[l] = "release" => held[l] \in 0..Len(basket[l])

\* A working request owns every lock it took.
OwnsLocks(l) ==
  pc[l] \in Working =>
    \A i \in 1..held[l] : lock[basket[l][i]] = <<l, i>>

\* What a request found AVAILABLE stays with nobody until it inserts, and has
\* the status the request last saw or wrote.
Reserves(l) ==
  pc[l] \in Working =>
    \A i \in 1..Passed(l) :
      /\ \A m \in Loans : ~ Open(m, basket[l][i])
      /\ copyStatus[basket[l][i]] =
           IF i <= Written(l) THEN "BORROWED" ELSE "AVAILABLE"

\* A loan has no items before its request inserts them.
NoItemsYet(l) ==
  pc[l] \in {"idle"} \cup Checking \cup Working =>
    \A c \in Copies : items[l][c].status = "NONE"

OneOpenItem ==
  \A c \in Copies : \A l, m \in Loans : Open(l, c) /\ Open(m, c) => l = m

\* What a desk call read is still so when it writes.
Fresh(d, c) == seen[d][c] = items[deskLoan[d]][c]

DeskShape(d) ==
  /\ deskPc[d] = "idle" <=> deskLoan[d] = None
  /\ deskPc[d] \in {"item", "copy", "renew", "markItem", "markCopy"} =>
       deskCopy[d] \in Copies
  /\ deskPc[d] \in {"item", "copy"} => deskCopy[d] \in todo[d]
  /\ deskPc[d] \in {"return", "item", "copy"} =>
       \A c \in todo[d] :
         \/ deskPc[d] = "copy" /\ deskCopy[d] = c
         \/ Fresh(d, c) /\ Open(deskLoan[d], c)
  /\ deskPc[d] \in {"renew", "markItem"} =>
       /\ Fresh(d, deskCopy[d])
       /\ items[deskLoan[d]][deskCopy[d]].status = "BORROWED"
  /\ deskPc[d] = "markCopy" =>
       items[deskLoan[d]][deskCopy[d]].status = mark[d]

OneCallPerLoan ==
  \A d, e \in Desk : deskLoan[d] = deskLoan[e] /\ deskLoan[d] # None => d = e

\* Between the item and the copy of a return, the copy belongs to nobody else:
\* not AVAILABLE, no open item, no checkout that wrote it, no second return.
ShelfPending(d) ==
  deskPc[d] = "copy" =>
    /\ copyStatus[deskCopy[d]] # "AVAILABLE"
    /\ \A l \in Loans : ~ Open(l, deskCopy[d])
    /\ \A l \in Loans : pc[l] \in Working =>
         \A i \in 1..Written(l) : basket[l][i] # deskCopy[d]
    /\ \A e \in Desk : deskPc[e] = "copy" /\ deskCopy[e] = deskCopy[d] => e = d

\* The inductive invariant behind NoDoubleLoan, CopyFollowsItem and the
\* refinement: every part of BorrowingService's bookkeeping agrees.
IInv ==
  /\ TypeOK
  /\ \A l \in Loans : ReqShape(l)
  /\ \A l \in Loans : OwnsLocks(l)
  /\ \A l \in Loans : Reserves(l)
  /\ \A l \in Loans : NoItemsYet(l)
  /\ OneOpenItem
  /\ CopyFollowsItem
  /\ \A d \in Desk : DeskShape(d)
  /\ OneCallPerLoan
  /\ \A d \in Desk : ShelfPending(d)

\* The ledger entry an item document stands for.
EntryOf(status) ==
  CASE status = "NONE" -> "none"
    [] status = "BORROWED" -> "out"
    [] status \in {"LOST", "DAMAGED"} -> "missing"
    [] status = "RETURNED" -> "back"

ledgerOf == [l \in Loans |-> [c \in Copies |-> EntryOf(items[l][c].status)]]

Ledger == INSTANCE LoanLedger WITH ledger <- ledgerOf

\* BorrowingService lends, takes back and reports as the ledger says: locks,
\* separate document writes and failures in between do not show.
LedgerSpec == Ledger!Spec

-----------------------------------------------------------------------------
(***************************************************************************)
(* What the invariants that count and close rest on, each inductive        *)
(* together with IInv.                                                     *)
(***************************************************************************)

\* The item has been fined for good, or is about to be written as RETURNED.
Fined(l, c) ==
  \/ items[l][c].status = "RETURNED"
  \/ \E d \in Desk : deskPc[d] = "item" /\ deskLoan[d] = l /\ deskCopy[d] = c

\* Only a failure forgets an overdue fine between its insert and the item.
FineInv ==
  \A l \in Loans, c \in Copies :
    /\ overdueFines[l][c] <= 1 + faults
    /\ ~ Fined(l, c) => overdueFines[l][c] <= faults

Unfinished(l) == pc[l] \in {"idle"} \cup Checking \cup Working

GivenBack(l) ==
  \A c \in Copies : items[l][c].status \in {"NONE", "RETURNED", "LOST"}

\* A loan whose items are not there yet is not worked on, and has the status
\* its own request gave it.
LoanBegins(l) ==
  /\ Unfinished(l) => /\ \A d \in Desk : deskLoan[d] # l
                      /\ loanStatus[l] \in {"NONE", "OPEN"}
  /\ pc[l] = "items" => loanStatus[l] = "OPEN"
  /\ (\E c \in Copies : items[l][c].status # "NONE") => loanStatus[l] # "NONE"

\* The status a return has computed still fits the items when it is written,
\* and a mark that is about to be fined is on the item.
CallCloses(d) ==
  /\ deskPc[d] = "close" =>
       /\ verdict[d] \in {"RETURNED", "PARTIALLY_RETURNED"}
       /\ verdict[d] = "RETURNED" <=> GivenBack(deskLoan[d])
  /\ deskPc[d] = "markFine" =>
       /\ deskCopy[d] \in Copies
       /\ items[deskLoan[d]][deskCopy[d]].status = mark[d]

CloseInv ==
  /\ \A l \in Loans : LoanBegins(l)
  /\ \A d \in Desk : CallCloses(d)
  /\ LoanClosedWhenBack

InHand(u) ==
  {item \in Loans \X Copies :
     /\ Borrower[item[1]] = u
     /\ items[item[1]][item[2]].status = "BORROWED"}

\* What a member's unraced loans hold and what her unraced request has been
\* allowed to add stay within the limit together; there is one such request.
LimitInv ==
  /\ \A l, m \in Loans \ raced :
       Borrower[l] = Borrower[m] /\ pc[l] \in Working /\ pc[m] \in Working
         => l = m
  /\ \A u \in Users : /\ IsFiniteSet(InHand(u))
                       /\ Cardinality(Counted(u)) <= MaxActiveItems
  /\ \A l \in Loans \ raced : pc[l] \in Working =>
       Cardinality(Counted(Borrower[l])) + Len(basket[l]) <= MaxActiveItems
=============================================================================
