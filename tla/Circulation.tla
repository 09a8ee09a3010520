----------------------------- MODULE Circulation -----------------------------
(***************************************************************************)
(* The circulation desk of LibraryHub: BorrowingService with the           *)
(* repositories it writes and the Redis lock it takes.                     *)
(*                                                                         *)
(* MongoDB is used without transactions, so every handler is a sequence of *)
(* awaits between which any other request may run.  An action is the code  *)
(* from one await to the next: a read together with the decisions taken on *)
(* what it returned, or one write.  Every write of an existing document is *)
(* a ReplaceOne of the whole document as the handler read it, so a handler *)
(* that read early overwrites what others wrote in between.                *)
(*                                                                         *)
(* A checkout request is identified with the loan it tries to create, and  *)
(* an item with its loan and copy: (borrowingId, copyId) is a unique index *)
(* of borrowing_items.                                                     *)
(***************************************************************************)
EXTENDS Integers, Sequences, FiniteSets

CONSTANTS
  Copies,         \* physical copies (book_copies)
  Loans,          \* checkout requests, each the loan it may create
  Users,          \* members
  Borrower,       \* the member a request names: [Loans -> Users]
  Baskets,        \* lists of copy ids a request may carry (duplicates too)
  Desk,           \* handler instances serving return, renew and mark calls
  None,           \* no lock, no loan, no copy
  MaxActiveItems, \* 5 in the code
  MaxRenewals,    \* 2 in the code
  LoanDays,       \* days until an item is due
  ExtendDays,     \* days a renewal adds
  MaxDay,         \* bound: the clock stops here
  MaxFaults,      \* bound: exceptions, crashes and Redis failures
  MaxFines        \* bound: overdue fines per item

\* What the deployment and its clients are assumed to do.  Each is a switch
\* so that a run can show what the code relies on.
CONSTANTS
  LockOutlivesRequest, \* no checkout runs past the 10 s its locks live
  OneJobPerLoan,       \* one return/renew/mark call per loan at a time
  MarksBorrowedOnly    \* LOST/DAMAGED is reported for BORROWED items only,
                       \* as the admin page offers it

ASSUME ModelAssumption ==
  /\ Borrower \in [Loans -> Users]
  /\ Baskets \subseteq Seq(Copies)
  /\ None \notin Loans /\ None \notin Copies /\ None \notin Loans \X Nat
  /\ MaxActiveItems \in Nat /\ MaxRenewals \in Nat
  /\ LoanDays \in Nat /\ ExtendDays \in Nat
  /\ MaxDay \in Nat /\ MaxFaults \in Nat /\ MaxFines \in Nat
  /\ {LockOutlivesRequest, OneJobPerLoan, MarksBorrowedOnly} \subseteq BOOLEAN

VARIABLES
  copyStatus,   \* book_copies.status
  lock,         \* Redis borrow_lock:{copyId}: token <<request, position>>
  items,        \* borrowing_items by loan and copy
  loanStatus,   \* borrowings.status, NONE before the document exists
  unpaid,       \* number of UNPAID fines of each member
  overdueFines, \* number of OVERDUE fines ever issued for an item
  now,          \* the day
  faults        \* failures so far

\* A checkout request: where it is, CopyIds, the loop index, locks taken.
VARIABLES pc, basket, at, held

\* A desk call: where it is, its loan and current copy, the copies still to be
\* returned and the late ones among them, the item documents it read, the
\* status it reports, the loan status it computed.
VARIABLES deskPc, deskLoan, deskCopy, todo, late, seen, mark, verdict

\* History, read by no action: the requests whose count of active items could
\* not see those of another checkout of the same member under way.
VARIABLE raced

shelfVars == <<copyStatus, items>>
fineVars == <<unpaid, overdueFines>>
reqVars == <<pc, basket, at, held>>
deskVars == <<deskPc, deskLoan, deskCopy, todo, late, seen, mark, verdict>>

vars == <<copyStatus, lock, items, loanStatus, unpaid, overdueFines, now,
          faults, reqVars, deskVars, raced>>

CopyStatus == {"AVAILABLE", "BORROWED", "LOST", "DAMAGED"}
ItemStatus == {"NONE", "BORROWED", "RETURNED", "LOST", "DAMAGED"}
LoanStatus == {"NONE", "OPEN", "PARTIALLY_RETURNED", "RETURNED"}

ItemDoc == [status : ItemStatus, renews : Nat, due : Nat]
NoItem == [status |-> "NONE", renews |-> 0, due |-> 0]

Checking == {"fines", "limit"}
Working == {"lock", "read", "write", "insert", "items"}
Ended == {"done", "dead"}
ReqPc == {"idle", "release"} \cup Checking \cup Working \cup Ended
DeskPc == {"idle", "return", "item", "copy", "close",
           "renew", "markItem", "markCopy", "markFine"}

Init ==
  /\ copyStatus = [c \in Copies |-> "AVAILABLE"]
  /\ lock = [c \in Copies |-> None]
  /\ items = [l \in Loans |-> [c \in Copies |-> NoItem]]
  /\ loanStatus = [l \in Loans |-> "NONE"]
  /\ unpaid = [u \in Users |-> 0]
  /\ overdueFines = [l \in Loans |-> [c \in Copies |-> 0]]
  /\ now = 0
  /\ faults = 0
  /\ pc = [l \in Loans |-> "idle"]
  /\ basket = [l \in Loans |-> << >>]
  /\ at = [l \in Loans |-> 1]
  /\ held = [l \in Loans |-> 0]
  /\ deskPc = [d \in Desk |-> "idle"]
  /\ deskLoan = [d \in Desk |-> None]
  /\ deskCopy = [d \in Desk |-> None]
  /\ todo = [d \in Desk |-> {}]
  /\ late = [d \in Desk |-> {}]
  /\ seen = [d \in Desk |-> [c \in Copies |-> NoItem]]
  /\ mark = [d \in Desk |-> "LOST"]
  /\ verdict = [d \in Desk |-> "NONE"]
  /\ raced = {}

-----------------------------------------------------------------------------
(***************************************************************************)
(* Checkout: CreateBorrowingAsync.                                         *)
(***************************************************************************)

Target(l) == basket[l][at[l]]

GoTo(l, step) == pc' = [pc EXCEPT ![l] = step]

\* The next loop iteration at the same step, or the next step after the last.
Advance(l, again, next) ==
  \/ /\ at[l] < Len(basket[l])
     /\ GoTo(l, again)
     /\ at' = [at EXCEPT ![l] = at[l] + 1]
     /\ UNCHANGED <<basket, held>>
  \/ /\ at[l] >= Len(basket[l])
     /\ GoTo(l, next)
     /\ at' = [at EXCEPT ![l] = 1]
     /\ UNCHANGED <<basket, held>>

\* Leave the try block: the finally block releases the locks taken so far.
Leave(l) ==
  /\ GoTo(l, "release")
  /\ at' = [at EXCEPT ![l] = 1]
  /\ UNCHANGED <<basket, held>>

\* The request is over and its memory gone.
End(l, how) ==
  /\ GoTo(l, how)
  /\ basket' = [basket EXCEPT ![l] = << >>]
  /\ at' = [at EXCEPT ![l] = 1]
  /\ held' = [held EXCEPT ![l] = 0]

\* The request arrives and its user is found ACTIVE (otherwise it is refused
\* without having touched anything).
Submit(l, copyIds) ==
  /\ pc[l] = "idle"
  /\ copyIds # << >>
  /\ GoTo(l, "fines")
  /\ basket' = [basket EXCEPT ![l] = copyIds]
  /\ UNCHANGED <<raced, at, held, shelfVars, lock, loanStatus, fineVars, now,
                 faults, deskVars>>

CheckFines(l) ==
  /\ pc[l] = "fines"
  /\ \/ unpaid[Borrower[l]] > 0 /\ Leave(l)
     \/ unpaid[Borrower[l]] = 0 /\ GoTo(l, "limit") /\ UNCHANGED <<basket, at,
                                                                   held>>
  /\ UNCHANGED <<raced, shelfVars, lock, loanStatus, fineVars, now, faults,
                 deskVars>>

\* GetActiveItemsByUserIdAsync: the BORROWED items of the member's loans that
\* are not closed.  (The code also looks for OVERDUE, which nothing writes.)
ActiveItems(u) ==
  {item \in Loans \X Copies :
     /\ Borrower[item[1]] = u
     /\ loanStatus[item[1]] \in {"OPEN", "PARTIALLY_RETURNED"}
     /\ items[item[1]][item[2]].status = "BORROWED"}

\* Another checkout of the member has been counted and not inserted its items.
Racing(l) ==
  \E m \in Loans \ {l} : Borrower[m] = Borrower[l] /\ pc[m] \in Working

\* Mutant: the copies being asked for are not counted.
CheckLimitWithoutBasket(l) ==
  /\ pc[l] = "limit"
  /\ Cardinality(ActiveItems(Borrower[l])) < MaxActiveItems
  /\ GoTo(l, "lock")
  /\ raced' = IF Racing(l) THEN raced \cup {l} ELSE raced
  /\ UNCHANGED <<basket, at, held, shelfVars, lock, loanStatus, fineVars, now,
                 faults, deskVars>>

CheckLimit(l) ==
  LET total == Cardinality(ActiveItems(Borrower[l])) + Len(basket[l])
  IN  /\ pc[l] = "limit"
      /\ \/ total > MaxActiveItems /\ Leave(l) /\ UNCHANGED raced
         \/ /\ total <= MaxActiveItems
            /\ GoTo(l, "lock")
            /\ raced' = IF Racing(l) THEN raced \cup {l} ELSE raced
            /\ UNCHANGED <<basket, at, held>>
      /\ UNCHANGED <<shelfVars, lock, loanStatus, fineVars, now, faults,
                     deskVars>>

\* Mutant: SET without NX.
AcquireLockHeld(l) ==
  /\ pc[l] = "lock"
  /\ lock' = [lock EXCEPT ![Target(l)] = <<l, at[l]>>]
  /\ GoTo(l, "read")
  /\ held' = [held EXCEPT ![l] = held[l] + 1]
  /\ UNCHANGED <<raced, basket, at, shelfVars, loanStatus, fineVars, now,
                 faults, deskVars>>

\* SET NX EX with a GUID of this acquisition.
AcquireLock(l) ==
  /\ pc[l] = "lock"
  /\ lock[Target(l)] = None
  /\ lock' = [lock EXCEPT ![Target(l)] = <<l, at[l]>>]
  /\ GoTo(l, "read")
  /\ held' = [held EXCEPT ![l] = held[l] + 1]
  /\ UNCHANGED <<raced, basket, at, shelfVars, loanStatus, fineVars, now,
                 faults, deskVars>>

\* SET NX finds the key, be it another request's or this request's own (a
\* copy id given twice): the whole checkout is refused.
LockTaken(l) ==
  /\ pc[l] = "lock"
  /\ lock[Target(l)] # None
  /\ Leave(l)
  /\ UNCHANGED <<raced, shelfVars, lock, loanStatus, fineVars, now, faults,
                 deskVars>>

\* Mutant: each copy is written as soon as it is read, in the same loop.
ReadAndWriteCopy(l) ==
  /\ pc[l] = "read"
  /\ \/ /\ copyStatus[Target(l)] = "AVAILABLE"
        /\ copyStatus' = [copyStatus EXCEPT ![Target(l)] = "BORROWED"]
        /\ Advance(l, "lock", "insert")
     \/ copyStatus[Target(l)] # "AVAILABLE" /\ Leave(l) /\ UNCHANGED copyStatus
  /\ UNCHANGED <<raced, items, lock, loanStatus, fineVars, now, faults,
                 deskVars>>

ReadCopy(l) ==
  /\ pc[l] = "read"
  /\ \/ copyStatus[Target(l)] = "AVAILABLE" /\ Advance(l, "lock", "write")
     \/ copyStatus[Target(l)] # "AVAILABLE" /\ Leave(l)
  /\ UNCHANGED <<raced, shelfVars, lock, loanStatus, fineVars, now, faults,
                 deskVars>>

WriteCopy(l) ==
  /\ pc[l] = "write"
  /\ copyStatus' = [copyStatus EXCEPT ![Target(l)] = "BORROWED"]
  /\ Advance(l, "write", "insert")
  /\ UNCHANGED <<raced, items, lock, loanStatus, fineVars, now, faults,
                 deskVars>>

InsertBorrowing(l) ==
  /\ pc[l] = "insert"
  /\ loanStatus' = [loanStatus EXCEPT ![l] = "OPEN"]
  /\ GoTo(l, "items")
  /\ UNCHANGED <<raced, basket, at, held, shelfVars, lock, fineVars, now,
                 faults, deskVars>>

\* InsertMany of one item per basket entry.  The unique index on borrowing and
\* copy stops it at the first copy that is in the basket for a second time.
Inserted(l) ==
  {basket[l][i] : i \in {i \in 1..Len(basket[l]) :
     \A j, k \in 1..i : basket[l][j] = basket[l][k] => j = k}}

InsertItems(l) ==
  /\ pc[l] = "items"
  /\ items' = [items EXCEPT ![l] = [c \in Copies |->
                 IF c \in Inserted(l)
                   THEN [status |-> "BORROWED", renews |-> 0,
                         due |-> now + LoanDays]
                   ELSE NoItem]]
  /\ Leave(l)
  /\ UNCHANGED <<raced, copyStatus, lock, loanStatus, fineVars, now, faults,
                 deskVars>>

\* Mutant: DEL without comparing the token.
ReleaseAnyLock(l) ==
  /\ pc[l] = "release"
  /\ at[l] <= held[l]
  /\ lock' = [lock EXCEPT ![Target(l)] = None]
  /\ at' = [at EXCEPT ![l] = at[l] + 1]
  /\ UNCHANGED <<raced, pc, basket, held, shelfVars, loanStatus, fineVars, now,
                 faults, deskVars>>

\* Mutant: try again until the key was this request's to delete.
ReleaseUntilDeleted(l) ==
  /\ pc[l] = "release"
  /\ at[l] <= held[l]
  /\ lock[Target(l)] = <<l, at[l]>>
  /\ lock' = [lock EXCEPT ![Target(l)] = None]
  /\ at' = [at EXCEPT ![l] = at[l] + 1]
  /\ UNCHANGED <<raced, pc, basket, held, shelfVars, loanStatus, fineVars, now,
                 faults, deskVars>>

\* The finally block, one compare-and-delete per lock taken.
ReleaseLock(l) ==
  /\ pc[l] = "release"
  /\ at[l] <= held[l]
  /\ lock' = IF lock[Target(l)] = <<l, at[l]>>
               THEN [lock EXCEPT ![Target(l)] = None]
               ELSE lock
  /\ at' = [at EXCEPT ![l] = at[l] + 1]
  /\ UNCHANGED <<raced, pc, basket, held, shelfVars, loanStatus, fineVars, now,
                 faults, deskVars>>

Answer(l) ==
  /\ pc[l] = "release"
  /\ at[l] > held[l]
  /\ End(l, "done")
  /\ UNCHANGED <<raced, shelfVars, lock, loanStatus, fineVars, now, faults,
                 deskVars>>

-----------------------------------------------------------------------------
(***************************************************************************)
(* Failures of a checkout, and the lock's time to live.                    *)
(***************************************************************************)

\* An await throws: MongoDB is unreachable, or InsertOne meets a borrowing
\* code already in use (a random four-digit suffix under a unique index).  A
\* Redis failure while acquiring is caught and refuses the same way.
RequestFails(l) ==
  /\ faults < MaxFaults
  /\ pc[l] \in Checking \cup Working
  /\ Leave(l)
  /\ faults' = faults + 1
  /\ UNCHANGED <<raced, shelfVars, lock, loanStatus, fineVars, now, deskVars>>

\* Redis sets the key but the answer is lost: AcquireLockAsync returns false,
\* and no finally block knows of the key.
AcquireUnheard(l) ==
  /\ faults < MaxFaults
  /\ pc[l] = "lock"
  /\ lock[Target(l)] = None
  /\ lock' = [lock EXCEPT ![Target(l)] = <<l, at[l]>>]
  /\ Leave(l)
  /\ faults' = faults + 1
  /\ UNCHANGED <<raced, shelfVars, loanStatus, fineVars, now, deskVars>>

\* ReleaseLockAsync swallows a Redis failure: the key stays until it expires.
ReleaseFails(l) ==
  /\ faults < MaxFaults
  /\ pc[l] = "release"
  /\ at[l] <= held[l]
  /\ at' = [at EXCEPT ![l] = at[l] + 1]
  /\ faults' = faults + 1
  /\ UNCHANGED <<raced, pc, basket, held, shelfVars, lock, loanStatus,
                 fineVars, now, deskVars>>

\* The API process dies in mid-request: no finally block runs.
RequestDies(l) ==
  /\ faults < MaxFaults
  /\ pc[l] \notin {"idle"} \cup Ended
  /\ End(l, "dead")
  /\ faults' = faults + 1
  /\ UNCHANGED <<raced, shelfVars, lock, loanStatus, fineVars, now, deskVars>>

\* Mutant: the key is set without a time to live.
LockStays(c) == lock[c] # None /\ FALSE /\ UNCHANGED vars

\* Ten seconds after SET NX EX the key is gone.
LockExpires(c) ==
  /\ lock[c] # None
  /\ LockOutlivesRequest => pc[lock[c][1]] \notin Working
  /\ lock' = [lock EXCEPT ![c] = None]
  /\ UNCHANGED <<raced, reqVars, shelfVars, loanStatus, fineVars, now, faults,
                 deskVars>>

-----------------------------------------------------------------------------
(***************************************************************************)
(* Return, renew and mark calls.  A call that is refused changes nothing   *)
(* and is not a step.                                                      *)
(***************************************************************************)

DeskGoTo(d, step) == deskPc' = [deskPc EXCEPT ![d] = step]

\* A call on loan l starts, having read the loan's items.
Begin(d, l, step) ==
  /\ deskPc[d] = "idle"
  /\ OneJobPerLoan => \A e \in Desk : deskLoan[e] # l
  /\ DeskGoTo(d, step)
  /\ deskLoan' = [deskLoan EXCEPT ![d] = l]
  /\ seen' = [seen EXCEPT ![d] = items[l]]

\* The call is over and its memory gone.
Finish(d) ==
  /\ DeskGoTo(d, "idle")
  /\ deskLoan' = [deskLoan EXCEPT ![d] = None]
  /\ deskCopy' = [deskCopy EXCEPT ![d] = None]
  /\ todo' = [todo EXCEPT ![d] = {}]
  /\ late' = [late EXCEPT ![d] = {}]
  /\ seen' = [seen EXCEPT ![d] = [c \in Copies |-> NoItem]]
  /\ mark' = [mark EXCEPT ![d] = "LOST"]
  /\ verdict' = [verdict EXCEPT ![d] = "NONE"]

\* A call replaces the item it works on by a document made from what it read.
ReplaceItem(d, doc) ==
  items' = [items EXCEPT ![deskLoan[d]][deskCopy[d]] = doc]

\* Mutant: items already RETURNED are not skipped.
StartReturnOfAll(d, l, requested) ==
  /\ requested # {}
  /\ \A c \in requested : items[l][c].status # "NONE"
  /\ \A c \in Copies : overdueFines[l][c] < MaxFines
  /\ Begin(d, l, "return")
  /\ todo' = [todo EXCEPT ![d] = requested]
  /\ late' = [late EXCEPT ![d] = {c \in requested : now > items[l][c].due}]
  /\ UNCHANGED <<raced, deskCopy, mark, verdict, reqVars, shelfVars, lock,
                 loanStatus, fineVars, now, faults>>

\* ReturnBorrowingItemsAsync reads the borrowing, its items and the clock.
\* Requested items already RETURNED are skipped; late ones will be fined.
StartReturn(d, l, requested) ==
  /\ requested # {}
  /\ \A c \in requested : items[l][c].status # "NONE"
  /\ \A c \in Copies : overdueFines[l][c] < MaxFines
  /\ Begin(d, l, "return")
  /\ todo' = [todo EXCEPT ![d] =
                {c \in requested : items[l][c].status # "RETURNED"}]
  /\ late' = [late EXCEPT ![d] = {c \in requested : now > items[l][c].due}]
  /\ UNCHANGED <<raced, deskCopy, mark, verdict, reqVars, shelfVars, lock,
                 loanStatus, fineVars, now, faults>>

\* The next item of the list: a late one is fined before anything is written.
TakeItem(d, c) ==
  /\ deskPc[d] = "return"
  /\ c \in todo[d]
  /\ \/ /\ c \in late[d]
        /\ overdueFines' = [overdueFines EXCEPT ![deskLoan[d]][c] = @ + 1]
        /\ unpaid' = [unpaid EXCEPT ![Borrower[deskLoan[d]]] = @ + 1]
     \/ c \notin late[d] /\ UNCHANGED fineVars
  /\ DeskGoTo(d, "item")
  /\ deskCopy' = [deskCopy EXCEPT ![d] = c]
  /\ UNCHANGED <<raced, deskLoan, todo, late, seen, mark, verdict, reqVars,
                 shelfVars, lock, loanStatus, now, faults>>

\* The item document as the handler read it, but RETURNED.
WriteReturned(d) ==
  /\ deskPc[d] = "item"
  /\ ReplaceItem(d, [seen[d][deskCopy[d]] EXCEPT !.status = "RETURNED"])
  /\ DeskGoTo(d, "copy")
  /\ UNCHANGED <<raced, deskLoan, deskCopy, todo, late, seen, mark, verdict,
                 reqVars, copyStatus, lock, loanStatus, fineVars, now, faults>>

\* The copy goes back on the shelf whatever its status was; no lock is taken.
Shelve(d) ==
  /\ deskPc[d] = "copy"
  /\ copyStatus' = [copyStatus EXCEPT ![deskCopy[d]] = "AVAILABLE"]
  /\ DeskGoTo(d, "return")
  /\ todo' = [todo EXCEPT ![d] = todo[d] \ {deskCopy[d]}]
  /\ deskCopy' = [deskCopy EXCEPT ![d] = None]
  /\ UNCHANGED <<raced, deskLoan, late, seen, mark, verdict, reqVars, items,
                 lock, loanStatus, fineVars, now, faults>>

\* Mutant: the status is decided on the items as read at the start.
DecideOnSnapshot(d) ==
  LET allReturned == \A c \in Copies :
        seen[d][c].status \in {"NONE", "RETURNED", "LOST"}
  IN  /\ deskPc[d] = "return"
      /\ todo[d] = {}
      /\ DeskGoTo(d, "close")
      /\ verdict' = [verdict EXCEPT ![d] =
                       IF allReturned THEN "RETURNED" ELSE "PARTIALLY_RETURNED"]
      /\ UNCHANGED <<raced, deskLoan, deskCopy, todo, late, seen, mark,
                     reqVars, shelfVars, lock, loanStatus, fineVars, now,
                     faults>>

\* With the list done the items are read again to decide the loan's status.
RefreshItems(d) ==
  LET allReturned == \A c \in Copies :
        items[deskLoan[d]][c].status \in {"NONE", "RETURNED", "LOST"}
  IN  /\ deskPc[d] = "return"
      /\ todo[d] = {}
      /\ DeskGoTo(d, "close")
      /\ verdict' = [verdict EXCEPT ![d] =
                       IF allReturned THEN "RETURNED" ELSE "PARTIALLY_RETURNED"]
      /\ UNCHANGED <<raced, deskLoan, deskCopy, todo, late, seen, mark,
                     reqVars, shelfVars, lock, loanStatus, fineVars, now,
                     faults>>

WriteLoan(d) ==
  /\ deskPc[d] = "close"
  /\ loanStatus' = [loanStatus EXCEPT ![deskLoan[d]] = verdict[d]]
  /\ Finish(d)
  /\ UNCHANGED <<raced, reqVars, shelfVars, lock, fineVars, now, faults>>

\* RenewBorrowingItemAsync reads one item and checks it ...
StartRenew(d, l, c) ==
  /\ items[l][c].status = "BORROWED"
  /\ now <= items[l][c].due
  /\ items[l][c].renews < MaxRenewals
  /\ Begin(d, l, "renew")
  /\ deskCopy' = [deskCopy EXCEPT ![d] = c]
  /\ UNCHANGED <<raced, todo, late, mark, verdict, reqVars, shelfVars, lock,
                 loanStatus, fineVars, now, faults>>

\* Mutant: the counter and the due date of the stored item are moved on.
IncrementRenewed(d) ==
  /\ deskPc[d] = "renew"
  /\ ReplaceItem(d, [items[deskLoan[d]][deskCopy[d]]
                       EXCEPT !.renews = @ + 1, !.due = @ + ExtendDays])
  /\ Finish(d)
  /\ UNCHANGED <<raced, reqVars, copyStatus, lock, loanStatus, fineVars, now,
                 faults>>

\* ... and replaces it by what it read, one renewal further.
WriteRenewed(d) ==
  /\ deskPc[d] = "renew"
  /\ ReplaceItem(d, [seen[d][deskCopy[d]] EXCEPT !.renews = @ + 1,
                                                 !.due = @ + ExtendDays])
  /\ Finish(d)
  /\ UNCHANGED <<raced, reqVars, copyStatus, lock, loanStatus, fineVars, now,
                 faults>>

\* MarkItemStatusAsync asks nothing of the item's current status.
StartMark(d, l, c, status) ==
  /\ items[l][c].status # "NONE"
  /\ MarksBorrowedOnly => items[l][c].status = "BORROWED"
  /\ unpaid[Borrower[l]] < MaxFines
  /\ Begin(d, l, "markItem")
  /\ deskCopy' = [deskCopy EXCEPT ![d] = c]
  /\ mark' = [mark EXCEPT ![d] = status]
  /\ UNCHANGED <<raced, todo, late, verdict, reqVars, shelfVars, lock,
                 loanStatus, fineVars, now, faults>>

MarkItem(d) ==
  /\ deskPc[d] = "markItem"
  /\ ReplaceItem(d, [seen[d][deskCopy[d]] EXCEPT !.status = mark[d]])
  /\ DeskGoTo(d, "markCopy")
  /\ UNCHANGED <<raced, deskLoan, deskCopy, todo, late, seen, mark, verdict,
                 reqVars, copyStatus, lock, loanStatus, fineVars, now, faults>>

MarkCopy(d) ==
  /\ deskPc[d] = "markCopy"
  /\ copyStatus' = [copyStatus EXCEPT ![deskCopy[d]] = mark[d]]
  /\ DeskGoTo(d, "markFine")
  /\ UNCHANGED <<raced, deskLoan, deskCopy, todo, late, seen, mark, verdict,
                 reqVars, items, lock, loanStatus, fineVars, now, faults>>

MarkFine(d) ==
  /\ deskPc[d] = "markFine"
  /\ unpaid' = [unpaid EXCEPT ![Borrower[deskLoan[d]]] = @ + 1]
  /\ Finish(d)
  /\ UNCHANGED <<raced, reqVars, shelfVars, lock, loanStatus, overdueFines,
                 now, faults>>

\* An await of the call throws or its process dies: nothing is undone.
DeskFails(d) ==
  /\ faults < MaxFaults
  /\ deskPc[d] # "idle"
  /\ Finish(d)
  /\ faults' = faults + 1
  /\ UNCHANGED <<raced, reqVars, shelfVars, lock, loanStatus, fineVars, now>>

-----------------------------------------------------------------------------
\* FineService settles one UNPAID fine (paid or waived).
SettleFine(u) ==
  /\ unpaid[u] > 0
  /\ unpaid' = [unpaid EXCEPT ![u] = @ - 1]
  /\ UNCHANGED <<raced, reqVars, shelfVars, lock, loanStatus, overdueFines,
                 now, faults, deskVars>>

Tick ==
  /\ now < MaxDay
  /\ now' = now + 1
  /\ UNCHANGED <<raced, reqVars, shelfVars, lock, loanStatus, fineVars, faults,
                 deskVars>>

Checkout(l) ==
  \/ \E copyIds \in Baskets : Submit(l, copyIds)
  \/ CheckFines(l) \/ CheckLimit(l)
  \/ AcquireLock(l) \/ LockTaken(l) \/ ReadCopy(l)
  \/ WriteCopy(l) \/ InsertBorrowing(l) \/ InsertItems(l)
  \/ ReleaseLock(l) \/ Answer(l)
  \/ RequestFails(l) \/ AcquireUnheard(l) \/ ReleaseFails(l) \/ RequestDies(l)

DeskCall(d) ==
  \/ \E l \in Loans :
       \/ \E requested \in SUBSET Copies : StartReturn(d, l, requested)
       \/ \E c \in Copies : StartRenew(d, l, c)
       \/ \E c \in Copies, s \in {"LOST", "DAMAGED"} : StartMark(d, l, c, s)
  \/ \E c \in Copies : TakeItem(d, c)
  \/ WriteReturned(d) \/ Shelve(d) \/ RefreshItems(d) \/ WriteLoan(d)
  \/ WriteRenewed(d)
  \/ MarkItem(d) \/ MarkCopy(d) \/ MarkFine(d)
  \/ DeskFails(d)

Next ==
  \/ \E l \in Loans : Checkout(l)
  \/ \E d \in Desk : DeskCall(d)
  \/ \E c \in Copies : LockExpires(c)
  \/ \E u \in Users : SettleFine(u)
  \/ Tick

Spec == Init /\ [][Next]_vars

\* A request that is being served goes on, a desk call goes on, and Redis
\* expires keys.  Nobody is obliged to send a request.
Proceed(l) ==
  \/ CheckFines(l) \/ CheckLimit(l)
  \/ AcquireLock(l) \/ LockTaken(l) \/ ReadCopy(l)
  \/ WriteCopy(l) \/ InsertBorrowing(l) \/ InsertItems(l)
  \/ ReleaseLock(l) \/ Answer(l)

Fairness ==
  /\ \A l \in Loans : WF_vars(Proceed(l))
  /\ \A c \in Copies : WF_vars(LockExpires(c))

FairSpec == Spec /\ Fairness

-----------------------------------------------------------------------------
TypeOK ==
  /\ copyStatus \in [Copies -> CopyStatus]
  /\ lock \in [Copies -> (Loans \X Nat) \cup {None}]
  /\ items \in [Loans -> [Copies -> ItemDoc]]
  /\ loanStatus \in [Loans -> LoanStatus]
  /\ unpaid \in [Users -> Nat]
  /\ overdueFines \in [Loans -> [Copies -> Nat]]
  /\ now \in Nat
  /\ faults \in Nat
  /\ pc \in [Loans -> ReqPc]
  /\ basket \in [Loans -> Seq(Copies)]
  /\ at \in [Loans -> Nat \ {0}]
  /\ held \in [Loans -> Nat]
  /\ deskPc \in [Desk -> DeskPc]
  /\ deskLoan \in [Desk -> Loans \cup {None}]
  /\ deskCopy \in [Desk -> Copies \cup {None}]
  /\ todo \in [Desk -> SUBSET Copies]
  /\ late \in [Desk -> SUBSET Copies]
  /\ seen \in [Desk -> [Copies -> ItemDoc]]
  /\ mark \in [Desk -> {"LOST", "DAMAGED"}]
  /\ verdict \in [Desk -> LoanStatus]
  /\ raced \in SUBSET Loans

\* An item not given back: its loan still answers for the copy.
Open(l, c) == items[l][c].status \in {"BORROWED", "LOST", "DAMAGED"}

\* The request has taken the copy's lock and not yet left the try block.
Handling(l, c) ==
  /\ pc[l] \in Working
  /\ \E i \in 1..held[l] : basket[l][i] = c

\* No copy is lent by two loans at once: what the checkout lock is for
\* (CreateBorrowingAsync with its borrow_lock).
NoDoubleLoan ==
  \A c \in Copies : \A l, m \in Loans :
    items[l][c].status = "BORROWED" /\ items[m][c].status = "BORROWED" => l = m

\* A copy's status never contradicts an item that is out: while an item is
\* BORROWED so is its copy, and a copy some loan still answers for (LOST or
\* DAMAGED included) is not offered as AVAILABLE.
CopyFollowsItem ==
  \A l \in Loans, c \in Copies :
    /\ items[l][c].status = "BORROWED" => copyStatus[c] = "BORROWED"
    /\ Open(l, c) => copyStatus[c] # "AVAILABLE"

\* At most one checkout is between taking a copy's lock and leaving its try
\* block, even though requests and expiries interleave freely.
OneHandlerPerCopy ==
  \A c \in Copies : \A l, m \in Loans :
    Handling(l, c) /\ Handling(m, c) => l = m

\* A lock disappears by expiry or in a step of the request that owns it: the
\* compare-and-delete never frees a lock a later request has taken since.
LockRemovedByOwner ==
  [][\A c \in Copies : lock[c] # None /\ lock'[c] # lock[c] =>
       \A m \in Loans : pc'[m] # pc[m] \/ at'[m] # at[m] => m = lock[c][1]]_vars

\* As long as nothing failed, a BORROWED copy is accounted for: by a BORROWED
\* item, by a checkout that is about to insert it, or by a desk call about to
\* write the copy.  A refused checkout therefore strands no copy.
BorrowedAccounted ==
  faults = 0 => \A c \in Copies : copyStatus[c] = "BORROWED" =>
    \/ \E l \in Loans : items[l][c].status = "BORROWED"
    \/ \E l \in Loans : /\ pc[l] \in {"write", "insert", "items"}
                        /\ Handling(l, c)
    \/ \E d \in Desk : deskPc[d] \in {"copy", "markCopy"} /\ deskCopy[d] = c

\* The member's BORROWED items on loans whose check raced with no other.
Counted(u) ==
  {item \in (Loans \ raced) \X Copies :
     /\ Borrower[item[1]] = u
     /\ items[item[1]][item[2]].status = "BORROWED"}

\* A member gets past the limit only on loans that were checked while another
\* checkout of hers stood between its own check and its insertion: the count
\* of step 3 of CreateBorrowingAsync is awaits away from the items it allows,
\* and nothing else that happens in between can make it too small.
LoanLimit == \A u \in Users : Cardinality(Counted(u)) <= MaxActiveItems

\* A closed loan has nothing out, and (nothing having failed) a loan all of
\* whose items are back is closed once no call is working on it: the status
\* written last agrees with the items.
LoanClosedWhenBack ==
  \A l \in Loans :
    /\ loanStatus[l] = "RETURNED" =>
         \A c \in Copies : items[l][c].status \in {"NONE", "RETURNED", "LOST"}
    /\ /\ faults = 0
       /\ \A d \in Desk : deskLoan[d] # l
       /\ \E c \in Copies : items[l][c].status = "RETURNED"
       /\ \A c \in Copies : items[l][c].status \in {"NONE", "RETURNED"}
       => loanStatus[l] = "RETURNED"

\* An item is fined for being late once, plus at most once for every return
\* that failed between the fine and the item (the fine is inserted first).
OneOverdueFine ==
  \A l \in Loans, c \in Copies : overdueFines[l][c] <= 1 + faults

\* No interleaving of renewals and returns, stale writes included, takes an
\* item past the renewal limit or its due date past what the renewals give.
RenewCap ==
  \A l \in Loans, c \in Copies :
    /\ items[l][c].renews <= MaxRenewals
    /\ items[l][c].due <= MaxDay + LoanDays + ExtendDays * items[l][c].renews

\* Every checkout that was sent is answered or dies with its process: the
\* all-or-nothing taking of locks cannot deadlock.
RequestAnswered ==
  \A l \in Loans : pc[l] # "idle" ~> pc[l] \in Ended

\* Whatever becomes of its holder, a lock is freed in the end.
LockFreed == \A c \in Copies : lock[c] # None ~> lock[c] = None

=============================================================================
