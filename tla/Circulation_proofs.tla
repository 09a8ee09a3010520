------------------------- MODULE Circulation_proofs -------------------------
(***************************************************************************)
(* Proofs about Circulation for every number of copies, loans, members,    *)
(* desks, days and failures.                                               *)
(***************************************************************************)
EXTENDS CirculationInv, FiniteSetTheorems, TLAPS

-----------------------------------------------------------------------------
(***************************************************************************)
(* Type correctness.                                                       *)
(***************************************************************************)

LEMMA InitType == Init => TypeOK
  BY ModelAssumption
  DEF Init, TypeOK, CopyStatus, ItemDoc, ItemStatus, LoanStatus, NoItem,
      ReqPc, DeskPc

\* The memory of the requests, and the ways a step changes it.
ReqTypeOK ==
  /\ pc \in [Loans -> ReqPc]
  /\ basket \in [Loans -> Seq(Copies)]
  /\ at \in [Loans -> Nat \ {0}]
  /\ held \in [Loans -> Nat]

LEMMA ReqMemoryType ==
  ASSUME TypeOK, NEW l \in Loans
  PROVE  /\ \A step \in ReqPc : GoTo(l, step) => pc' \in [Loans -> ReqPc]
         /\ Leave(l) => ReqTypeOK'
         /\ \A how \in ReqPc : End(l, how) => ReqTypeOK'
         /\ \A again, next \in ReqPc : Advance(l, again, next) => ReqTypeOK'
<1>1. \A step \in ReqPc : GoTo(l, step) => pc' \in [Loans -> ReqPc]
  BY DEF TypeOK, GoTo
<1>2. "release" \in ReqPc
  BY DEF ReqPc
<1>3. ASSUME Leave(l) PROVE ReqTypeOK'
  BY <1>1, <1>2, <1>3 DEF TypeOK, ReqTypeOK, Leave
<1>4. ASSUME NEW how \in ReqPc, End(l, how) PROVE ReqTypeOK'
  BY <1>1, <1>4 DEF TypeOK, ReqTypeOK, End
<1>5. ASSUME NEW again \in ReqPc, NEW next \in ReqPc, Advance(l, again, next)
      PROVE  ReqTypeOK'
  <2>1. /\ GoTo(l, again) \/ GoTo(l, next)
        /\ at' = [at EXCEPT ![l] = at[l] + 1] \/ at' = [at EXCEPT ![l] = 1]
        /\ UNCHANGED <<basket, held>>
    BY <1>5 DEF Advance
  <2>2. at[l] + 1 \in Nat \ {0} /\ 1 \in Nat \ {0}
    BY DEF TypeOK
  <2>3. at' \in [Loans -> Nat \ {0}]
    BY <2>1, <2>2 DEF TypeOK
  <2> QED BY <1>1, <2>1, <2>3 DEF TypeOK, ReqTypeOK
<1> QED BY <1>1, <1>3, <1>4, <1>5

\* A checkout step keeps every variable in its type.
LEMMA CheckoutType ==
  ASSUME TypeOK, NEW l \in Loans, Checkout(l)
  PROVE  TypeOK'
<1> USE DEF shelfVars, fineVars, deskVars
<1>0. /\ {"fines", "limit", "lock", "read", "write", "insert", "items",
          "release", "done", "dead"} \subseteq ReqPc
      /\ ReqTypeOK
  BY DEF ReqPc, Checking, Working, Ended, TypeOK, ReqTypeOK
<1>1. ASSUME NEW copyIds \in Baskets, Submit(l, copyIds) PROVE TypeOK'
  BY <1>0, <1>1, ReqMemoryType, ModelAssumption DEF Submit, TypeOK
<1>2. CASE CheckFines(l)
  <2>1. ReqTypeOK'
    BY <1>0, <1>2, ReqMemoryType DEF CheckFines, ReqTypeOK
  <2> QED BY <1>2, <2>1 DEF CheckFines, TypeOK, ReqTypeOK
<1>3. CASE CheckLimit(l)
  <2>1. ReqTypeOK'
    BY <1>0, <1>3, ReqMemoryType DEF CheckLimit, ReqTypeOK
  <2> QED BY <1>3, <2>1 DEF CheckLimit, TypeOK, ReqTypeOK
<1>4. CASE AcquireLock(l)
  <2>1. <<l, at[l]>> \in Loans \X Nat
    BY DEF TypeOK
  <2>2. lock' \in [Copies -> (Loans \X Nat) \cup {None}]
    BY <1>4, <2>1 DEF AcquireLock, TypeOK
  <2>3. ReqTypeOK'
    BY <1>0, <1>4, ReqMemoryType DEF AcquireLock, ReqTypeOK
  <2> QED BY <1>4, <2>2, <2>3 DEF AcquireLock, TypeOK, ReqTypeOK
<1>5. CASE LockTaken(l)
  BY <1>5, ReqMemoryType DEF LockTaken, TypeOK, ReqTypeOK
<1>6. CASE ReadCopy(l)
  <2>1. ReqTypeOK'
    BY <1>0, <1>6, ReqMemoryType DEF ReadCopy
  <2> QED BY <1>6, <2>1 DEF ReadCopy, TypeOK, ReqTypeOK
<1>7. CASE WriteCopy(l)
  <2>1. ReqTypeOK'
    BY <1>0, <1>7, ReqMemoryType DEF WriteCopy
  <2>2. copyStatus' \in [Copies -> CopyStatus]
    BY <1>7 DEF WriteCopy, TypeOK, CopyStatus
  <2> QED BY <1>7, <2>1, <2>2 DEF WriteCopy, TypeOK, ReqTypeOK
<1>8. CASE InsertBorrowing(l)
  BY <1>0, <1>8, ReqMemoryType DEF InsertBorrowing, LoanStatus, TypeOK
<1>9. CASE InsertItems(l)
  <2>1. items' \in [Loans -> [Copies -> ItemDoc]]
    BY <1>9, ModelAssumption
    DEF InsertItems, TypeOK, ItemDoc, ItemStatus, NoItem
  <2> QED BY <1>9, <2>1, ReqMemoryType DEF InsertItems, TypeOK, ReqTypeOK
<1>10. CASE ReleaseLock(l)
  <2>1. lock' \in [Copies -> (Loans \X Nat) \cup {None}]
    BY <1>10 DEF ReleaseLock, TypeOK
  <2> QED BY <1>10, <2>1 DEF ReleaseLock, TypeOK
<1>11. CASE Answer(l)
  BY <1>0, <1>11, ReqMemoryType DEF Answer, TypeOK, ReqTypeOK
<1>12. CASE RequestFails(l)
  <2>1. ReqTypeOK' /\ faults' \in Nat
    BY <1>12, ReqMemoryType DEF RequestFails, TypeOK
  <2> QED BY <1>12, <2>1 DEF RequestFails, TypeOK, ReqTypeOK
<1>13. CASE ReleaseFails(l)
  BY <1>13 DEF ReleaseFails, TypeOK
<1>14. CASE RequestDies(l)
  <2>1. ReqTypeOK' /\ faults' \in Nat
    BY <1>0, <1>14, ReqMemoryType DEF RequestDies, TypeOK
  <2> QED BY <1>14, <2>1 DEF RequestDies, TypeOK, ReqTypeOK
<1>15. CASE AcquireUnheard(l)
  <2>1. <<l, at[l]>> \in Loans \X Nat
    BY DEF TypeOK
  <2>2. lock' \in [Copies -> (Loans \X Nat) \cup {None}]
    BY <1>15, <2>1 DEF AcquireUnheard, TypeOK
  <2>3. faults' \in Nat
    BY <1>15 DEF AcquireUnheard, TypeOK
  <2>4. ReqTypeOK'
    BY <1>15, ReqMemoryType DEF AcquireUnheard
  <2> QED BY <1>15, <2>2, <2>3, <2>4 DEF AcquireUnheard, TypeOK, ReqTypeOK
<1> QED
  BY <1>1, <1>2, <1>3, <1>4, <1>5, <1>6, <1>7, <1>8, <1>9, <1>10, <1>11,
     <1>12, <1>13, <1>14, <1>15 DEF Checkout

\* Counters: adding one at a place keeps a function into Nat, even when the
\* place is outside its domain (then nothing changes).
LEMMA BumpType ==
  ASSUME NEW S, NEW f \in [S -> Nat], NEW i
  PROVE  [f EXCEPT ![i] = @ + 1] \in [S -> Nat]
<1> DEFINE v == f[i] + 1
<1>1. CASE i \in S
  <2>1. v \in Nat BY <1>1
  <2> QED BY <1>1, <2>1
<1>2. CASE i \notin S
  <2>1. [f EXCEPT ![i] = v] = f
    <3> HIDE DEF v
    <3> QED BY <1>2
  <2> QED BY <2>1
<1> QED BY <1>1, <1>2

\* What a call writes over an item is an item document again.
LEMMA ReplaceItemType ==
  ASSUME TypeOK, NEW d \in Desk, NEW doc,
         deskCopy[d] \in Copies => doc \in ItemDoc,
         ReplaceItem(d, doc)
  PROVE  items' \in [Loans -> [Copies -> ItemDoc]]
<1> USE DEF TypeOK, ReplaceItem
<1>1. CASE deskLoan[d] \in Loans /\ deskCopy[d] \in Copies
  <2>1. [items[deskLoan[d]] EXCEPT ![deskCopy[d]] = doc] \in [Copies -> ItemDoc]
    BY <1>1
  <2> QED BY <1>1, <2>1
<1>2. CASE deskLoan[d] \in Loans /\ deskCopy[d] \notin Copies
  <2>1. items[deskLoan[d]] \in [Copies -> ItemDoc]
    BY <1>2
  <2>2. [items[deskLoan[d]] EXCEPT ![deskCopy[d]] = doc] = items[deskLoan[d]]
    BY <1>2, <2>1
  <2> QED BY <1>2, <2>1, <2>2
<1>3. CASE deskLoan[d] \notin Loans
  BY <1>3
<1> QED BY <1>1, <1>2, <1>3

\* Documents derived from a document.
LEMMA DocType ==
  ASSUME NEW doc \in ItemDoc
  PROVE  /\ \A s \in ItemStatus : [doc EXCEPT !.status = s] \in ItemDoc
         /\ [doc EXCEPT !.renews = @ + 1, !.due = @ + ExtendDays] \in ItemDoc
<1> DEFINE renews == doc.renews + 1
           due == doc.due + ExtendDays
<1>1. \A s \in ItemStatus : [doc EXCEPT !.status = s] \in ItemDoc
  BY DEF ItemDoc
<1>2. renews \in Nat /\ due \in Nat
  BY ModelAssumption DEF ItemDoc
<1>3. [doc EXCEPT !.renews = renews, !.due = due] \in ItemDoc
  <2> HIDE DEF renews, due
  <2> QED BY <1>2 DEF ItemDoc
<1> QED BY <1>1, <1>3

LEMMA SeenDocType ==
  ASSUME TypeOK, NEW d \in Desk, deskCopy[d] \in Copies
  PROVE  /\ \A s \in ItemStatus :
              [seen[d][deskCopy[d]] EXCEPT !.status = s] \in ItemDoc
         /\ [seen[d][deskCopy[d]] EXCEPT !.renews = @ + 1,
                                         !.due = @ + ExtendDays] \in ItemDoc
<1> DEFINE doc == seen[d][deskCopy[d]]
<1>1. doc \in ItemDoc
  BY DEF TypeOK
<1> HIDE DEF doc
<1>2. /\ \A s \in ItemStatus : [doc EXCEPT !.status = s] \in ItemDoc
      /\ [doc EXCEPT !.renews = @ + 1, !.due = @ + ExtendDays] \in ItemDoc
  BY <1>1, DocType
<1> QED BY <1>2 DEF doc

LEMMA FinishType ==
  ASSUME TypeOK, NEW d \in Desk, Finish(d)
  PROVE  /\ deskPc' \in [Desk -> DeskPc]
         /\ deskLoan' \in [Desk -> Loans \cup {None}]
         /\ deskCopy' \in [Desk -> Copies \cup {None}]
         /\ todo' \in [Desk -> SUBSET Copies]
         /\ late' \in [Desk -> SUBSET Copies]
         /\ seen' \in [Desk -> [Copies -> ItemDoc]]
         /\ mark' \in [Desk -> {"LOST", "DAMAGED"}]
         /\ verdict' \in [Desk -> LoanStatus]
  BY DEF TypeOK, Finish, DeskGoTo, DeskPc, ItemDoc, ItemStatus, NoItem,
         LoanStatus

\* A step of a desk call keeps every variable in its type.
LEMMA DeskCallType ==
  ASSUME TypeOK, NEW d \in Desk, DeskCall(d)
  PROVE  TypeOK'
<1> USE DEF TypeOK, DeskPc, DeskGoTo, shelfVars, fineVars, reqVars
<1>1. ASSUME NEW l \in Loans, NEW requested \in SUBSET Copies,
             StartReturn(d, l, requested)
      PROVE  TypeOK'
  BY <1>1 DEF StartReturn, Begin
<1>2. ASSUME NEW l \in Loans, NEW c \in Copies, StartRenew(d, l, c)
      PROVE  TypeOK'
  BY <1>2 DEF StartRenew, Begin
<1>3. ASSUME NEW l \in Loans, NEW c \in Copies,
             NEW s \in {"LOST", "DAMAGED"}, StartMark(d, l, c, s)
      PROVE  TypeOK'
  BY <1>3 DEF StartMark, Begin
<1>4. ASSUME NEW c \in Copies, TakeItem(d, c) PROVE TypeOK'
  <2>1. unpaid' \in [Users -> Nat]
    BY <1>4, BumpType DEF TakeItem
  <2>2. deskLoan[d] \in Loans =>
          [overdueFines[deskLoan[d]] EXCEPT ![c] = @ + 1] \in [Copies -> Nat]
    BY BumpType
  <2>3. overdueFines' \in [Loans -> [Copies -> Nat]]
    <3>1. CASE deskLoan[d] \in Loans BY <1>4, <2>2, <3>1 DEF TakeItem
    <3>2. CASE deskLoan[d] \notin Loans BY <1>4, <3>2 DEF TakeItem
    <3> QED BY <3>1, <3>2
  <2> QED BY <1>4, <2>1, <2>3 DEF TakeItem
<1>5. CASE WriteReturned(d)
  <2>1. deskCopy[d] \in Copies =>
          [seen[d][deskCopy[d]] EXCEPT !.status = "RETURNED"] \in ItemDoc
    BY SeenDocType DEF ItemStatus
  <2> QED BY <1>5, <2>1, ReplaceItemType DEF WriteReturned
<1>6. CASE Shelve(d) BY <1>6 DEF Shelve, CopyStatus
<1>7. CASE RefreshItems(d) BY <1>7 DEF RefreshItems, LoanStatus
<1>8. CASE WriteLoan(d) BY <1>8, FinishType DEF WriteLoan
<1>9. CASE WriteRenewed(d)
  <2>1. deskCopy[d] \in Copies =>
          [seen[d][deskCopy[d]] EXCEPT !.renews = @ + 1,
                                       !.due = @ + ExtendDays] \in ItemDoc
    BY SeenDocType
  <2> QED BY <1>9, <2>1, ReplaceItemType, FinishType DEF WriteRenewed
<1>10. CASE MarkItem(d)
  <2>1. deskCopy[d] \in Copies =>
          [seen[d][deskCopy[d]] EXCEPT !.status = mark[d]] \in ItemDoc
    BY SeenDocType DEF ItemStatus
  <2> QED BY <1>10, <2>1, ReplaceItemType DEF MarkItem
<1>11. CASE MarkCopy(d) BY <1>11 DEF MarkCopy, CopyStatus
<1>12. CASE MarkFine(d)
  <2>1. unpaid' \in [Users -> Nat]
    BY <1>12, BumpType DEF MarkFine
  <2> QED BY <1>12, <2>1, FinishType DEF MarkFine
<1>13. CASE DeskFails(d)
  <2>1. faults' \in Nat
    BY <1>13 DEF DeskFails
  <2>2. Finish(d) /\ UNCHANGED <<copyStatus, items, lock, loanStatus, unpaid, overdueFines, now,
                                 pc, basket, at, held, raced>>
    BY <1>13 DEF DeskFails
  <2> QED BY <2>1, <2>2, FinishType
<1> HIDE DEF TypeOK
<1> QED
  BY <1>1, <1>2, <1>3, <1>4, <1>5, <1>6, <1>7, <1>8, <1>9, <1>10, <1>11,
     <1>12, <1>13 DEF DeskCall

LEMMA NextType == TypeOK /\ [Next]_vars => TypeOK'
<1> SUFFICES ASSUME TypeOK, [Next]_vars PROVE TypeOK'
  OBVIOUS
<1>1. ASSUME NEW c \in Copies, LockExpires(c) PROVE TypeOK'
  BY <1>1 DEF LockExpires, TypeOK, reqVars, shelfVars, fineVars, deskVars
<1>2. ASSUME NEW u \in Users, SettleFine(u) PROVE TypeOK'
  BY <1>2 DEF SettleFine, TypeOK, reqVars, shelfVars, deskVars
<1>3. CASE Tick
  BY <1>3 DEF Tick, TypeOK, reqVars, shelfVars, fineVars, deskVars
<1>4. CASE UNCHANGED vars
  BY <1>4 DEF vars, TypeOK, reqVars, deskVars
<1> QED BY <1>1, <1>2, <1>3, <1>4, CheckoutType, DeskCallType DEF Next

\* Every variable keeps its type, from any start and whatever fails.
THEOREM TypeCorrect == Spec => []TypeOK
  BY InitType, NextType, PTL DEF Spec

-----------------------------------------------------------------------------
(***************************************************************************)
(* What a step leaves alone.                                               *)
(***************************************************************************)

SameReq(m) ==
  pc'[m] = pc[m] /\ basket'[m] = basket[m] /\ at'[m] = at[m] /\ held'[m] = held[m]

\* A checkout step changes its own request only, and no desk call.
LEMMA CheckoutFrame ==
  ASSUME TypeOK, NEW l \in Loans, Checkout(l)
  PROVE  /\ UNCHANGED deskVars
         /\ \A m \in Loans \ {l} : SameReq(m) /\ items'[m] = items[m]
<1> USE DEF TypeOK, SameReq, GoTo, Leave, End, Advance, shelfVars
<1>1. ASSUME NEW copyIds \in Baskets, Submit(l, copyIds)
      PROVE  /\ UNCHANGED deskVars
             /\ \A m \in Loans \ {l} : SameReq(m) /\ items'[m] = items[m]
  BY <1>1 DEF Submit
<1>2. CASE CheckFines(l) BY <1>2 DEF CheckFines
<1>3. CASE CheckLimit(l) BY <1>3 DEF CheckLimit
<1>4. CASE AcquireLock(l) BY <1>4 DEF AcquireLock
<1>5. CASE LockTaken(l) BY <1>5 DEF LockTaken
<1>6. CASE ReadCopy(l) BY <1>6 DEF ReadCopy
<1>7. CASE WriteCopy(l) BY <1>7 DEF WriteCopy
<1>8. CASE InsertBorrowing(l) BY <1>8 DEF InsertBorrowing
<1>9. CASE InsertItems(l) BY <1>9 DEF InsertItems
<1>10. CASE ReleaseLock(l) BY <1>10 DEF ReleaseLock
<1>11. CASE Answer(l) BY <1>11 DEF Answer
<1>12. CASE RequestFails(l) BY <1>12 DEF RequestFails
<1>13. CASE ReleaseFails(l) BY <1>13 DEF ReleaseFails
<1>14. CASE RequestDies(l) BY <1>14 DEF RequestDies
<1>15. CASE AcquireUnheard(l) BY <1>15 DEF AcquireUnheard
<1> QED
  BY <1>1, <1>2, <1>3, <1>4, <1>5, <1>6, <1>7, <1>8, <1>9, <1>10, <1>11,
     <1>12, <1>13, <1>14, <1>15 DEF Checkout

SameCall(e) ==
  /\ deskPc'[e] = deskPc[e] /\ deskLoan'[e] = deskLoan[e]
  /\ deskCopy'[e] = deskCopy[e] /\ todo'[e] = todo[e] /\ seen'[e] = seen[e]
  /\ mark'[e] = mark[e]

\* A desk step changes its own call only, and neither requests nor locks.
LEMMA DeskCallFrame ==
  ASSUME TypeOK, NEW d \in Desk, DeskCall(d)
  PROVE  /\ UNCHANGED <<lock, reqVars>>
         /\ \A e \in Desk \ {d} : SameCall(e)
<1> USE DEF TypeOK, SameCall, DeskGoTo, Finish, Begin
<1>1. ASSUME NEW l \in Loans, NEW requested \in SUBSET Copies,
             StartReturn(d, l, requested)
      PROVE  UNCHANGED <<lock, reqVars>> /\ \A e \in Desk \ {d} : SameCall(e)
  BY <1>1 DEF StartReturn
<1>2. ASSUME NEW l \in Loans, NEW c \in Copies, StartRenew(d, l, c)
      PROVE  UNCHANGED <<lock, reqVars>> /\ \A e \in Desk \ {d} : SameCall(e)
  BY <1>2 DEF StartRenew
<1>3. ASSUME NEW l \in Loans, NEW c \in Copies,
             NEW s \in {"LOST", "DAMAGED"}, StartMark(d, l, c, s)
      PROVE  UNCHANGED <<lock, reqVars>> /\ \A e \in Desk \ {d} : SameCall(e)
  BY <1>3 DEF StartMark
<1>4. ASSUME NEW c \in Copies, TakeItem(d, c)
      PROVE  UNCHANGED <<lock, reqVars>> /\ \A e \in Desk \ {d} : SameCall(e)
  BY <1>4 DEF TakeItem
<1>5. CASE WriteReturned(d) BY <1>5 DEF WriteReturned
<1>6. CASE Shelve(d) BY <1>6 DEF Shelve
<1>7. CASE RefreshItems(d) BY <1>7 DEF RefreshItems
<1>8. CASE WriteLoan(d) BY <1>8 DEF WriteLoan
<1>9. CASE WriteRenewed(d) BY <1>9 DEF WriteRenewed
<1>10. CASE MarkItem(d) BY <1>10 DEF MarkItem
<1>11. CASE MarkCopy(d) BY <1>11 DEF MarkCopy
<1>12. CASE MarkFine(d) BY <1>12 DEF MarkFine
<1>13. CASE DeskFails(d) BY <1>13 DEF DeskFails
<1> QED
  BY <1>1, <1>2, <1>3, <1>4, <1>5, <1>6, <1>7, <1>8, <1>9, <1>10, <1>11,
     <1>12, <1>13 DEF DeskCall

-----------------------------------------------------------------------------
(***************************************************************************)
(* The requests: their shape, and the locks they own.                      *)
(***************************************************************************)

\* The loop index stays in the basket and the lock count follows it.
LEMMA ShapeStep ==
  ASSUME TypeOK, NEW l \in Loans, ReqShape(l), Checkout(l)
  PROVE  ReqShape(l)'
<1> USE DEF TypeOK, ReqShape, ReqPc, Checking, Working, Ended, GoTo
<1>0. /\ Len(basket[l]) \in Nat /\ at[l] \in Nat \ {0} /\ held[l] \in Nat
      /\ basket[l] \in Seq(Copies)
  OBVIOUS
<1>a. ASSUME Leave(l), held[l] \in 0..Len(basket[l]) PROVE ReqShape(l)'
  BY <1>0, <1>a DEF Leave
<1>b. ASSUME NEW how \in Ended, End(l, how) PROVE ReqShape(l)'
  BY <1>0, <1>b DEF End
<1>c. pc[l] \in Checking \cup Working => held[l] \in 0..Len(basket[l])
  BY <1>0
<1>1. ASSUME NEW copyIds \in Baskets, Submit(l, copyIds) PROVE ReqShape(l)'
  <2>1. copyIds \in Seq(Copies) /\ copyIds # << >>
    BY <1>1, ModelAssumption DEF Submit
  <2>2. Len(copyIds) \in Nat \ {0}
    BY <2>1
  <2> QED BY <1>1, <2>2 DEF Submit
<1>2. CASE CheckFines(l)
  <2>1. CASE Leave(l) BY <1>2, <1>a, <1>c, <2>1 DEF CheckFines
  <2>2. CASE ~ Leave(l) BY <1>0, <1>2, <2>2 DEF CheckFines
  <2> QED BY <2>1, <2>2
<1>3. CASE CheckLimit(l)
  <2>1. CASE Leave(l) BY <1>3, <1>a, <1>c, <2>1 DEF CheckLimit
  <2>2. CASE ~ Leave(l) BY <1>0, <1>3, <2>2 DEF CheckLimit
  <2> QED BY <2>1, <2>2
<1>4. CASE AcquireLock(l) BY <1>0, <1>4 DEF AcquireLock
<1>5. CASE LockTaken(l) BY <1>5, <1>a, <1>c DEF LockTaken
<1>6. CASE ReadCopy(l)
  <2>1. CASE Leave(l) BY <1>6, <1>a, <1>c, <2>1 DEF ReadCopy
  <2>2. CASE Advance(l, "lock", "write")
    BY <1>0, <1>6, <2>2 DEF ReadCopy, Advance
  <2> QED BY <1>6, <2>1, <2>2 DEF ReadCopy
<1>7. CASE WriteCopy(l) BY <1>0, <1>7 DEF WriteCopy, Advance
<1>8. CASE InsertBorrowing(l) BY <1>0, <1>8 DEF InsertBorrowing
<1>9. CASE InsertItems(l) BY <1>9, <1>a, <1>c DEF InsertItems
<1>10. CASE ReleaseLock(l) BY <1>0, <1>10 DEF ReleaseLock
<1>11. CASE Answer(l) BY <1>11, <1>b DEF Answer
<1>12. CASE RequestFails(l) BY <1>12, <1>a, <1>c DEF RequestFails
<1>13. CASE ReleaseFails(l) BY <1>0, <1>13 DEF ReleaseFails
<1>14. CASE RequestDies(l) BY <1>14, <1>b DEF RequestDies
<1>15. CASE AcquireUnheard(l) BY <1>15, <1>a, <1>c DEF AcquireUnheard
<1> QED
  BY <1>1, <1>2, <1>3, <1>4, <1>5, <1>6, <1>7, <1>8, <1>9, <1>10, <1>11,
     <1>12, <1>13, <1>14, <1>15 DEF Checkout

\* What a checkout step does to a lock: it takes a free one, or frees its own
\* while releasing.
LEMMA LockFrame ==
  ASSUME TypeOK, NEW l \in Loans, Checkout(l), NEW c \in Copies,
         lock'[c] # lock[c]
  PROVE  \/ lock[c] = None
         \/ lock[c] = <<l, at[l]>> /\ pc[l] = "release"
<1>1. ASSUME NEW copyIds \in Baskets, Submit(l, copyIds) PROVE FALSE
  BY <1>1 DEF Submit
<1>2. CASE CheckFines(l) BY <1>2 DEF CheckFines
<1>3. CASE CheckLimit(l) BY <1>3 DEF CheckLimit
<1>4. CASE AcquireLock(l) BY <1>4 DEF AcquireLock, TypeOK
<1>5. CASE LockTaken(l) BY <1>5 DEF LockTaken
<1>6. CASE ReadCopy(l) BY <1>6 DEF ReadCopy
<1>7. CASE WriteCopy(l) BY <1>7 DEF WriteCopy
<1>8. CASE InsertBorrowing(l) BY <1>8 DEF InsertBorrowing
<1>9. CASE InsertItems(l) BY <1>9 DEF InsertItems
<1>10. CASE ReleaseLock(l) BY <1>10 DEF ReleaseLock, TypeOK
<1>11. CASE Answer(l) BY <1>11 DEF Answer
<1>12. CASE RequestFails(l) BY <1>12 DEF RequestFails
<1>13. CASE ReleaseFails(l) BY <1>13 DEF ReleaseFails
<1>14. CASE RequestDies(l) BY <1>14 DEF RequestDies
<1>15. CASE AcquireUnheard(l) BY <1>15 DEF AcquireUnheard, TypeOK
<1> QED
  BY <1>1, <1>2, <1>3, <1>4, <1>5, <1>6, <1>7, <1>8, <1>9, <1>10, <1>11,
     <1>12, <1>13, <1>14, <1>15 DEF Checkout

\* The positions a working request holds locks for are positions of its basket.
LEMMA HeldInBasket ==
  ASSUME TypeOK, NEW l \in Loans, ReqShape(l), pc[l] \in Working
  PROVE  /\ held[l] \in 0..Len(basket[l])
         /\ \A i \in 1..held[l] : basket[l][i] \in Copies
         /\ Passed(l) \in 0..held[l]
         /\ Written(l) \in 0..Passed(l)
<1>1. /\ Len(basket[l]) \in Nat /\ at[l] \in Nat \ {0} /\ held[l] \in Nat
      /\ basket[l] \in Seq(Copies)
  BY DEF TypeOK
<1>2. held[l] \in 0..Len(basket[l])
  BY <1>1 DEF ReqShape, Working
<1>3. \A i \in 1..held[l] : basket[l][i] \in Copies
  BY <1>1, <1>2
<1>4. Passed(l) \in 0..held[l] /\ Written(l) \in 0..Passed(l)
  BY <1>1 DEF ReqShape, Working, Passed, Written
<1> QED BY <1>2, <1>3, <1>4

\* No step of a request disturbs the locks of a working request.
LEMMA OwnsStep ==
  ASSUME TypeOK, NEW l \in Loans, Checkout(l),
         NEW m \in Loans, ReqShape(m), OwnsLocks(m)
  PROVE  OwnsLocks(m)'
<1>1. SUFFICES ASSUME pc'[m] \in Working, NEW i \in 1..held'[m]
               PROVE  lock'[basket'[m][i]] = <<m, i>>
  BY DEF OwnsLocks
<1>2. CASE m # l
  <2>1. SameReq(m)
    BY <1>2, CheckoutFrame
  <2>2. /\ lock[basket[m][i]] = <<m, i>>
        /\ basket[m][i] \in Copies
    BY <1>1, <2>1, HeldInBasket DEF SameReq, OwnsLocks
  <2>3. <<m, i>> # None /\ <<m, i>> # <<l, at[l]>>
    BY <1>1, <1>2, <2>1, ModelAssumption DEF TypeOK, SameReq
  <2> QED BY <2>1, <2>2, <2>3, LockFrame DEF SameReq
<1>3. CASE m = l
  <2> USE DEF TypeOK, Working, Ended, GoTo, Leave, End, Advance
  <2>0. /\ at[l] \in Nat /\ held[l] \in Nat /\ Len(basket[l]) \in Nat
        /\ basket[l] \in Seq(Copies)
    OBVIOUS
  <2>1. ASSUME NEW copyIds \in Baskets, Submit(l, copyIds) PROVE FALSE
    BY <1>1, <1>3, <2>1 DEF Submit
  <2>2. CASE CheckFines(l) BY <1>1, <1>3, <2>2 DEF CheckFines
  <2>3. CASE CheckLimit(l)
    BY <1>1, <1>3, <2>0, <2>3 DEF CheckLimit, ReqShape, Checking
  <2>4. CASE AcquireLock(l)
    <3>1. Target(l) \in Copies /\ held[l] = at[l] - 1
      BY <1>3, <2>0, <2>4 DEF AcquireLock, ReqShape, Target
    <3>2. CASE i = at[l]
      BY <1>3, <2>0, <2>4, <3>1, <3>2 DEF AcquireLock, Target
    <3>3. CASE i # at[l]
      <4>1. i \in 1..held[l]
        BY <1>1, <1>3, <2>0, <2>4, <3>1, <3>3 DEF AcquireLock
      <4>2. lock[basket[l][i]] = <<l, i>> /\ <<l, i>> # None
        BY <1>3, <2>4, <4>1, ModelAssumption DEF AcquireLock, OwnsLocks
      <4>3. basket[l][i] # Target(l)
        BY <2>4, <4>2 DEF AcquireLock
      <4> QED BY <1>3, <2>4, <3>1, <4>2, <4>3 DEF AcquireLock
    <3> QED BY <3>2, <3>3
  <2>5. CASE LockTaken(l) BY <1>1, <1>3, <2>5 DEF LockTaken
  <2>6. CASE ReadCopy(l) BY <1>1, <1>3, <2>0, <2>6 DEF ReadCopy, OwnsLocks
  <2>7. CASE WriteCopy(l) BY <1>1, <1>3, <2>0, <2>7 DEF WriteCopy, OwnsLocks
  <2>8. CASE InsertBorrowing(l)
    BY <1>1, <1>3, <2>8 DEF InsertBorrowing, OwnsLocks
  <2>9. CASE InsertItems(l) BY <1>1, <1>3, <2>9 DEF InsertItems
  <2>10. CASE ReleaseLock(l) BY <1>1, <1>3, <2>10 DEF ReleaseLock
  <2>11. CASE Answer(l) BY <1>1, <1>3, <2>11 DEF Answer
  <2>12. CASE RequestFails(l) BY <1>1, <1>3, <2>12 DEF RequestFails
  <2>13. CASE ReleaseFails(l) BY <1>1, <1>3, <2>13 DEF ReleaseFails
  <2>14. CASE RequestDies(l) BY <1>1, <1>3, <2>14 DEF RequestDies
  <2>15. CASE AcquireUnheard(l) BY <1>1, <1>3, <2>15 DEF AcquireUnheard
  <2> QED
    BY <2>1, <2>2, <2>3, <2>4, <2>5, <2>6, <2>7, <2>8, <2>9, <2>10, <2>11,
       <2>12, <2>13, <2>14, <2>15 DEF Checkout
<1> QED BY <1>2, <1>3

\* Locks outliving requests, an expiry does not disturb a working one either.
LEMMA OwnsExpiry ==
  ASSUME LockOutlivesRequest, TypeOK, NEW c \in Copies, LockExpires(c),
         NEW m \in Loans, ReqShape(m), OwnsLocks(m)
  PROVE  OwnsLocks(m)'
<1>1. SUFFICES ASSUME pc[m] \in Working, NEW i \in 1..held[m]
               PROVE  lock'[basket[m][i]] = <<m, i>>
  BY DEF OwnsLocks, LockExpires, reqVars
<1>2. lock[basket[m][i]] = <<m, i>>
  BY <1>1 DEF OwnsLocks
<1>3. c # basket[m][i]
  BY <1>1, <1>2 DEF LockExpires
<1> QED BY <1>2, <1>3, HeldInBasket, <1>1 DEF LockExpires, TypeOK

\* Two positions that hold the same copy's lock are one position.
LEMMA OnePosition ==
  ASSUME TypeOK, NEW l \in Loans, NEW m \in Loans,
         ReqShape(l), ReqShape(m), OwnsLocks(l), OwnsLocks(m),
         pc[l] \in Working, pc[m] \in Working,
         NEW i \in 1..held[l], NEW j \in 1..held[m],
         basket[l][i] = basket[m][j]
  PROVE  l = m /\ i = j
<1>1. lock[basket[l][i]] = <<l, i>> /\ lock[basket[m][j]] = <<m, j>>
  BY DEF OwnsLocks
<1> QED BY <1>1

-----------------------------------------------------------------------------
(***************************************************************************)
(* What a request found AVAILABLE stays reserved for it.                   *)
(***************************************************************************)

\* What a checkout step does to copies and items: it writes the copy it is at,
\* or inserts the items of its basket.
LEMMA CopyFrame ==
  ASSUME TypeOK, NEW l \in Loans, Checkout(l)
  PROVE  \/ WriteCopy(l) /\ UNCHANGED items
         \/ InsertItems(l) /\ UNCHANGED copyStatus
         \/ UNCHANGED shelfVars
<1>1. ASSUME NEW copyIds \in Baskets, Submit(l, copyIds)
      PROVE  UNCHANGED shelfVars
  BY <1>1 DEF Submit
<1>2. CASE CheckFines(l) BY <1>2 DEF CheckFines
<1>3. CASE CheckLimit(l) BY <1>3 DEF CheckLimit
<1>4. CASE AcquireLock(l) BY <1>4 DEF AcquireLock
<1>5. CASE LockTaken(l) BY <1>5 DEF LockTaken
<1>6. CASE ReadCopy(l) BY <1>6 DEF ReadCopy
<1>7. CASE WriteCopy(l) BY <1>7 DEF WriteCopy
<1>8. CASE InsertBorrowing(l) BY <1>8 DEF InsertBorrowing
<1>9. CASE InsertItems(l) BY <1>9 DEF InsertItems
<1>10. CASE ReleaseLock(l) BY <1>10 DEF ReleaseLock
<1>11. CASE Answer(l) BY <1>11 DEF Answer
<1>12. CASE RequestFails(l) BY <1>12 DEF RequestFails
<1>13. CASE ReleaseFails(l) BY <1>13 DEF ReleaseFails
<1>14. CASE RequestDies(l) BY <1>14 DEF RequestDies
<1>15. CASE AcquireUnheard(l) BY <1>15 DEF AcquireUnheard
<1> QED
  BY <1>1, <1>2, <1>3, <1>4, <1>5, <1>6, <1>7, <1>8, <1>9, <1>10, <1>11,
     <1>12, <1>13, <1>14, <1>15 DEF Checkout

\* The copy a request writes, and those it inserts items for, are at positions
\* it holds locks for.
LEMMA OwnTarget ==
  ASSUME TypeOK, NEW l \in Loans, ReqShape(l)
  PROVE  /\ pc[l] \in {"read", "write"} =>
              at[l] \in 1..held[l] /\ Target(l) = basket[l][at[l]]
         /\ pc[l] = "items" =>
              \A c \in Inserted(l) : \E i \in 1..held[l] :
                c = basket[l][i] /\ c \in Copies
<1>1. /\ Len(basket[l]) \in Nat /\ at[l] \in Nat \ {0} /\ held[l] \in Nat
      /\ basket[l] \in Seq(Copies)
  BY DEF TypeOK
<1>2. pc[l] \in {"read", "write"} =>
        at[l] \in 1..held[l] /\ Target(l) = basket[l][at[l]]
  BY <1>1 DEF ReqShape, Target, Working, Checking
<1>3. ASSUME pc[l] = "items", NEW c \in Inserted(l)
      PROVE  \E i \in 1..held[l] : c = basket[l][i] /\ c \in Copies
  <2>1. PICK i \in 1..Len(basket[l]) : c = basket[l][i]
    BY DEF Inserted
  <2>2. held[l] = Len(basket[l])
    BY <1>3 DEF ReqShape
  <2>3. basket[l][i] \in Copies
    BY <1>1
  <2> QED BY <2>1, <2>2, <2>3
<1> QED BY <1>2, <1>3

\* Open items appear only where the inserting request put them.
LEMMA InsertOpens ==
  ASSUME TypeOK, NEW l \in Loans, InsertItems(l), NEW m \in Loans,
         NEW c \in Copies, Open(m, c)'
  PROVE  Open(m, c) \/ (m = l /\ c \in Inserted(l))
<1>1. CASE m # l
  BY <1>1 DEF InsertItems, Open, TypeOK
<1>2. CASE m = l
  <2>1. items'[l][c] = IF c \in Inserted(l)
                         THEN [status |-> "BORROWED", renews |-> 0,
                               due |-> now + LoanDays]
                         ELSE NoItem
    BY DEF InsertItems, TypeOK
  <2> QED BY <1>2, <2>1 DEF Open, NoItem
<1> QED BY <1>1, <1>2

\* No checkout step takes from a working request what it reserved.
LEMMA ReservesStep ==
  ASSUME TypeOK, NEW l \in Loans, Checkout(l),
         NEW m \in Loans, ReqShape(l), ReqShape(m),
         OwnsLocks(l), OwnsLocks(m), Reserves(m), CopyFollowsItem
  PROVE  Reserves(m)'
<1> DEFINE Mine(i) ==
      /\ \A k \in Loans : ~ Open(k, basket[m][i])
      /\ copyStatus[basket[m][i]] =
           IF i <= Written(m) THEN "BORROWED" ELSE "AVAILABLE"
<1>0. /\ at[m] \in Nat \ {0} /\ held[m] \in Nat /\ Len(basket[m]) \in Nat
      /\ basket[m] \in Seq(Copies)
  BY DEF TypeOK
<1>1. CASE m # l
  <2>1. SameReq(m) /\ Passed(m)' = Passed(m) /\ Written(m)' = Written(m)
    BY <1>1, CheckoutFrame DEF SameReq, Passed, Written
  <2>2. SUFFICES ASSUME pc[m] \in Working, NEW i \in 1..Passed(m)
                 PROVE  /\ \A k \in Loans : ~ Open(k, basket[m][i])'
                        /\ copyStatus'[basket[m][i]] = copyStatus[basket[m][i]]
    BY <2>1 DEF SameReq, Reserves
  <2>3. i \in 1..held[m] /\ basket[m][i] \in Copies /\ Mine(i)
    BY <2>2, HeldInBasket, <1>0 DEF Reserves
  <2>4. CASE WriteCopy(l) /\ UNCHANGED items
    <3>1. Target(l) # basket[m][i]
      BY <1>1, <2>2, <2>3, <2>4, OwnTarget, OnePosition DEF WriteCopy, Working
    <3> QED BY <2>1, <2>3, <2>4, <3>1 DEF WriteCopy, Open, SameReq, TypeOK
  <2>5. CASE InsertItems(l) /\ UNCHANGED copyStatus
    <3>1. basket[m][i] \notin Inserted(l)
      BY <1>1, <2>2, <2>3, <2>5, OwnTarget, OnePosition
      DEF InsertItems, Working
    <3> QED BY <2>1, <2>3, <2>5, <3>1, InsertOpens DEF SameReq
  <2>6. CASE UNCHANGED shelfVars
    BY <2>1, <2>3, <2>6 DEF shelfVars, Open, SameReq
  <2> QED BY <2>4, <2>5, <2>6, CopyFrame
<1>2. CASE m = l
  <2>1. CASE ReadCopy(l)
    <3>1. CASE Advance(l, "lock", "write") /\ copyStatus[Target(l)] = "AVAILABLE"
      <4>1. /\ pc[l] = "read" /\ basket'[l] = basket[l]
            /\ UNCHANGED <<copyStatus, items>>
        BY <2>1, <3>1 DEF ReadCopy, Advance, shelfVars
      <4>2. Passed(l) = at[l] - 1 /\ Written(l) = 0
        BY <4>1 DEF Passed, Written
      <4>3. Passed(l)' \in 0..at[l] /\ Written(l)' = 0
        <5>1. CASE at[l] < Len(basket[l])
          BY <1>0, <1>2, <3>1, <5>1 DEF Advance, GoTo, Passed, Written, TypeOK
        <5>2. CASE at[l] >= Len(basket[l])
          <6>1. at[l] = Len(basket[l])
            BY <1>0, <1>2, <4>1, <5>2 DEF ReqShape, Working
          <6> QED
            BY <1>0, <1>2, <3>1, <5>2, <6>1
            DEF Advance, GoTo, Passed, Written, TypeOK
        <5> QED BY <1>0, <1>2, <5>1, <5>2
      <4>4. at[l] \in 1..Len(basket[l]) /\ Target(l) \in Copies
        BY <1>0, <1>2, <4>1 DEF ReqShape, Working, Target
      <4>5. ASSUME NEW i \in 1..at[l]
            PROVE  /\ \A k \in Loans : ~ Open(k, basket[l][i])
                   /\ copyStatus[basket[l][i]] = "AVAILABLE"
        <5>1. CASE i = at[l]
          BY <3>1, <4>4, <5>1 DEF Target, CopyFollowsItem
        <5>2. CASE i # at[l]
          BY <1>0, <1>2, <4>1, <4>2, <5>2 DEF Reserves, Working
        <5> QED BY <5>1, <5>2
      <4> QED
        BY <1>0, <1>2, <4>1, <4>3, <4>5 DEF Reserves, Open
    <3>2. CASE Leave(l)
      BY <1>2, <3>2 DEF Leave, GoTo, Reserves, Working, TypeOK
    <3> QED BY <2>1, <3>1, <3>2 DEF ReadCopy
  <2>2. CASE WriteCopy(l)
    <3>1. /\ pc[l] = "write" /\ basket'[l] = basket[l]
          /\ UNCHANGED items
          /\ at[l] \in 1..held[l] /\ held[l] = Len(basket[l])
          /\ Target(l) = basket[l][at[l]]
      BY <2>2, OwnTarget DEF WriteCopy, Advance, ReqShape
    <3>2. Passed(l) = Len(basket[l]) /\ Written(l) = at[l] - 1
      BY <3>1 DEF Passed, Written
    <3>3. Passed(l)' = Len(basket[l]) /\ Written(l)' = at[l]
      <4>1. CASE at[l] < Len(basket[l])
        BY <1>0, <1>2, <2>2, <4>1
        DEF WriteCopy, Advance, GoTo, Passed, Written, TypeOK
      <4>2. CASE at[l] = Len(basket[l])
        BY <1>0, <1>2, <2>2, <4>2
        DEF WriteCopy, Advance, GoTo, Passed, Written, TypeOK
      <4> QED BY <1>0, <1>2, <3>1, <4>1, <4>2
    <3>4. ASSUME NEW i \in 1..Len(basket[l])
          PROVE  /\ \A k \in Loans : ~ Open(k, basket[l][i])
                 /\ copyStatus'[basket[l][i]] =
                      IF i <= at[l] THEN "BORROWED" ELSE "AVAILABLE"
      <4>1. /\ \A k \in Loans : ~ Open(k, basket[l][i])
            /\ copyStatus[basket[l][i]] =
                 IF i <= at[l] - 1 THEN "BORROWED" ELSE "AVAILABLE"
        BY <1>2, <3>1, <3>2 DEF Reserves, Working
      <4>2. basket[l][i] \in Copies
        BY <1>0, <1>2
      <4>3. CASE i = at[l]
        BY <2>2, <3>1, <4>1, <4>2, <4>3 DEF WriteCopy, TypeOK
      <4>4. CASE i # at[l]
        <5>1. basket[l][i] # Target(l)
          BY <1>2, <3>1, <4>4, OnePosition DEF Working
        <5>2. copyStatus'[basket[l][i]] = copyStatus[basket[l][i]]
          BY <2>2, <4>2, <5>1 DEF WriteCopy, TypeOK
        <5> QED BY <1>0, <1>2, <4>1, <4>4, <5>2
      <4> QED BY <4>3, <4>4
    <3> QED BY <1>2, <3>1, <3>3, <3>4 DEF Reserves, Open
  <2>3. CASE InsertBorrowing(l)
    BY <1>2, <2>3
    DEF InsertBorrowing, GoTo, Reserves, Passed, Written, Open, Working,
        shelfVars, TypeOK
  <2>4. CASE AcquireLock(l)
    BY <1>2, <2>4
    DEF AcquireLock, GoTo, Reserves, Passed, Written, Open, Working,
        shelfVars, TypeOK
  <2>5. CASE CheckLimit(l)
    <3>1. CASE Leave(l)
      BY <1>2, <3>1 DEF Leave, GoTo, Reserves, Working, TypeOK
    <3>2. CASE GoTo(l, "lock") /\ UNCHANGED at
      <4>1. Passed(l)' = 0
        BY <1>0, <1>2, <2>5, <3>2
        DEF CheckLimit, GoTo, Passed, ReqShape, Checking, TypeOK
      <4> QED BY <1>2, <4>1 DEF Reserves
    <3> QED BY <2>5, <3>1, <3>2 DEF CheckLimit
  <2>6. CASE pc'[l] \notin Working
    BY <1>2, <2>6 DEF Reserves
  <2>7. \/ ReadCopy(l) \/ WriteCopy(l) \/ InsertBorrowing(l)
        \/ AcquireLock(l) \/ CheckLimit(l) \/ pc'[l] \notin Working
    BY DEF Checkout, Submit, CheckFines, LockTaken, InsertItems, ReleaseLock,
           Answer, RequestFails, AcquireUnheard, ReleaseFails, RequestDies, Leave, End, GoTo,
           Working, Ended, TypeOK
  <2> QED BY <2>1, <2>2, <2>3, <2>4, <2>5, <2>6, <2>7
<1> QED BY <1>1, <1>2

-----------------------------------------------------------------------------
(***************************************************************************)
(* A checkout step keeps what is said of items and of the desk.            *)
(***************************************************************************)

\* A request that still has no items had none before, and did not insert any.
LEMMA PcStep ==
  ASSUME TypeOK, NEW l \in Loans, Checkout(l),
         pc'[l] \in {"idle"} \cup Checking \cup Working
  PROVE  pc[l] \in {"idle"} \cup Checking \cup Working /\ ~ InsertItems(l)
<1> USE DEF TypeOK, GoTo, Leave, End, Advance, Checking, Working, Ended
<1>1. ASSUME NEW copyIds \in Baskets, Submit(l, copyIds)
      PROVE  pc[l] = "idle"
  BY <1>1 DEF Submit
<1>2. ~ InsertItems(l)
  BY DEF InsertItems
<1>3. CheckFines(l) => pc[l] = "fines" BY DEF CheckFines
<1>4. CheckLimit(l) => pc[l] = "limit" BY DEF CheckLimit
<1>5. AcquireLock(l) \/ LockTaken(l) => pc[l] = "lock"
  BY DEF AcquireLock, LockTaken
<1>6. ReadCopy(l) \/ WriteCopy(l) => pc[l] \in {"read", "write"}
  BY DEF ReadCopy, WriteCopy
<1>7. InsertBorrowing(l) => pc[l] = "insert" BY DEF InsertBorrowing
<1>8. ~ ReleaseLock(l) /\ ~ ReleaseFails(l)
  BY DEF ReleaseLock, ReleaseFails
<1>9. ~ Answer(l) /\ ~ RequestDies(l) /\ ~ RequestFails(l) /\ ~ AcquireUnheard(l)
  BY DEF Answer, RequestDies, RequestFails, AcquireUnheard
<1> QED
  BY <1>1, <1>2, <1>3, <1>4, <1>5, <1>6, <1>7, <1>8, <1>9 DEF Checkout

\* Items are inserted once.
LEMMA NoItemsStep ==
  ASSUME TypeOK, NEW l \in Loans, Checkout(l), NEW m \in Loans, NoItemsYet(m)
  PROVE  NoItemsYet(m)'
<1>1. CASE m # l
  BY <1>1, CheckoutFrame DEF NoItemsYet, SameReq
<1>2. CASE m = l
  <2>1. SUFFICES ASSUME pc'[l] \in {"idle"} \cup Checking \cup Working
                 PROVE  items'[l] = items[l]
    BY <1>2, PcStep DEF NoItemsYet
  <2> QED BY <2>1, PcStep, CopyFrame DEF shelfVars
<1> QED BY <1>1, <1>2

\* A position counts as written only from the write of its copy on.
LEMMA WrittenStep ==
  ASSUME TypeOK, NEW l \in Loans, Checkout(l), ReqShape(l),
         pc'[l] \in Working, NEW i \in 1..Written(l)'
  PROVE  /\ basket'[l][i] = basket[l][i]
         /\ pc[l] \in Working
         /\ i \in 1..Written(l) \/ (WriteCopy(l) /\ i = at[l])
<1> USE DEF GoTo, Working, Ended
<1>0. /\ at[l] \in Nat \ {0} /\ Len(basket[l]) \in Nat
      /\ pc \in [Loans -> ReqPc] /\ at \in [Loans -> Nat \ {0}]
  BY DEF TypeOK
<1>1. ASSUME NEW copyIds \in Baskets, Submit(l, copyIds) PROVE FALSE
  BY <1>0, <1>1 DEF Submit
<1>2. CASE CheckFines(l)
  BY <1>0, <1>2 DEF CheckFines, Leave
<1>3. CASE CheckLimit(l)
  BY <1>0, <1>3 DEF CheckLimit, Leave, Written
<1>4. CASE AcquireLock(l)
  BY <1>0, <1>4 DEF AcquireLock, Written
<1>5. CASE LockTaken(l)
  BY <1>0, <1>5 DEF LockTaken, Leave
<1>6. CASE ReadCopy(l)
  BY <1>0, <1>6 DEF ReadCopy, Leave, Advance, Written
<1>7. CASE WriteCopy(l)
  <2>1. /\ pc[l] = "write" /\ basket' = basket /\ Written(l) = at[l] - 1
        /\ at[l] \in 1..Len(basket[l])
    BY <1>0, <1>7 DEF WriteCopy, Advance, Written, ReqShape
  <2>2. Written(l)' = at[l]
    <3>1. CASE at[l] < Len(basket[l])
      BY <1>0, <1>7, <3>1 DEF WriteCopy, Advance, Written
    <3>2. CASE at[l] = Len(basket[l])
      BY <1>0, <1>7, <3>2 DEF WriteCopy, Advance, Written
    <3> QED BY <1>0, <2>1, <3>1, <3>2
  <2> QED BY <1>0, <1>7, <2>1, <2>2
<1>8. CASE InsertBorrowing(l)
  BY <1>0, <1>8 DEF InsertBorrowing, Written
<1>9. CASE pc'[l] \notin Working
  BY <1>9
<1>10. InsertItems(l) \/ ReleaseLock(l) \/ Answer(l) \/ RequestFails(l)
         \/ AcquireUnheard(l) \/ ReleaseFails(l) \/ RequestDies(l) => pc'[l] \notin Working
  BY <1>0 DEF InsertItems, ReleaseLock, Answer, RequestFails, AcquireUnheard,
              ReleaseFails, RequestDies, Leave, End
<1> QED
  BY <1>1, <1>2, <1>3, <1>4, <1>5, <1>6, <1>7, <1>8, <1>9, <1>10 DEF Checkout

\* The desk's calls read the items of their loans, of which an inserting
\* request has none: no call is under way on a loan that is being created.
LEMMA DeskItemsFrame ==
  ASSUME TypeOK, NEW l \in Loans, Checkout(l), NoItemsYet(l),
         NEW d \in Desk, DeskShape(d), deskLoan[d] \in Loans,
         deskPc[d] # "markFine", deskPc[d] # "close"
  PROVE  \/ items'[deskLoan[d]] = items[deskLoan[d]]
         \/ deskPc[d] = "return" /\ todo[d] = {}
         \/ deskPc[d] = "copy" /\ todo[d] = {deskCopy[d]}
<1>1. SUFFICES ASSUME InsertItems(l), deskLoan[d] = l
               PROVE  \/ deskPc[d] = "return" /\ todo[d] = {}
                      \/ deskPc[d] = "copy" /\ todo[d] = {deskCopy[d]}
  BY CheckoutFrame, CopyFrame DEF shelfVars, WriteCopy
<1>2. \A c \in Copies : items[l][c].status = "NONE"
  BY <1>1 DEF InsertItems, NoItemsYet, Working
<1>3. \A c \in Copies : ~ Open(l, c)
  BY <1>2 DEF Open
<1>4. deskPc[d] \in {"return", "item", "copy", "renew", "markItem", "markCopy"}
  BY <1>1, ModelAssumption DEF DeskShape, TypeOK, DeskPc
<1>5. todo[d] \subseteq Copies /\ mark[d] \in {"LOST", "DAMAGED"}
  BY DEF TypeOK
<1>6. deskPc[d] \notin {"renew", "markItem", "markCopy"}
  BY <1>1, <1>2, <1>5 DEF DeskShape
<1>7. CASE deskPc[d] = "return"
  BY <1>1, <1>3, <1>5, <1>7 DEF DeskShape
<1>8. CASE deskPc[d] = "item"
  BY <1>1, <1>3, <1>5, <1>8 DEF DeskShape
<1>9. CASE deskPc[d] = "copy"
  BY <1>1, <1>3, <1>5, <1>9 DEF DeskShape
<1> QED BY <1>4, <1>6, <1>7, <1>8, <1>9

\* A checkout step leaves a desk call's view of its loan true.
LEMMA DeskShapeStep ==
  ASSUME TypeOK, NEW l \in Loans, Checkout(l), NoItemsYet(l),
         NEW d \in Desk, DeskShape(d)
  PROVE  DeskShape(d)'
<1>1. UNCHANGED deskVars
  BY CheckoutFrame
<1>2. CASE items'[deskLoan[d]] = items[deskLoan[d]]
  BY <1>1, <1>2 DEF deskVars, DeskShape, Fresh, Open
<1>3. CASE deskPc[d] \in {"idle", "markFine", "close"}
  BY <1>1, <1>3 DEF deskVars, DeskShape
<1>4. CASE deskPc[d] = "return" /\ todo[d] = {}
  BY <1>1, <1>4 DEF deskVars, DeskShape
<1>5. CASE deskPc[d] = "copy" /\ todo[d] = {deskCopy[d]}
  BY <1>1, <1>5 DEF deskVars, DeskShape
<1>6. deskPc[d] # "idle" => deskLoan[d] \in Loans
  BY DEF DeskShape, TypeOK
<1> QED BY <1>2, <1>3, <1>4, <1>5, <1>6, DeskItemsFrame

\* Every item of a working request's insertion was reserved for it.
LEMMA InsertedReserved ==
  ASSUME TypeOK, NEW l \in Loans, ReqShape(l), Reserves(l), pc[l] = "items",
         NEW c \in Inserted(l)
  PROVE  /\ c \in Copies /\ copyStatus[c] = "BORROWED"
         /\ \A m \in Loans : ~ Open(m, c)
         /\ \E i \in 1..Written(l) : basket[l][i] = c
<1>1. PICK i \in 1..held[l] : c = basket[l][i] /\ c \in Copies
  BY OwnTarget
<1>2. Passed(l) = held[l] /\ Written(l) = held[l]
  BY DEF ReqShape, Passed, Written
<1> QED BY <1>1, <1>2 DEF Reserves, Working

\* A checkout opens no second item for a copy, and its own item and copy agree.
LEMMA OpenItemStep ==
  ASSUME TypeOK, NEW l \in Loans, Checkout(l), ReqShape(l), Reserves(l),
         OneOpenItem, CopyFollowsItem
  PROVE  OneOpenItem' /\ CopyFollowsItem'
<1>1. CASE WriteCopy(l) /\ UNCHANGED items
  <2>1. /\ Target(l) \in Copies
        /\ \A m \in Loans : ~ Open(m, Target(l))
    <3>1. at[l] \in 1..held[l] /\ Target(l) = basket[l][at[l]]
      BY <1>1, OwnTarget DEF WriteCopy
    <3>2. held[l] = Passed(l) /\ pc[l] \in Working
      BY <1>1 DEF WriteCopy, ReqShape, Passed, Working
    <3> QED BY <3>1, <3>2, HeldInBasket DEF Reserves
  <2>2. OneOpenItem'
    BY <1>1 DEF OneOpenItem, Open
  <2>3. CopyFollowsItem'
    BY <1>1, <2>1 DEF CopyFollowsItem, Open, WriteCopy, TypeOK
  <2> QED BY <2>2, <2>3
<1>2. CASE InsertItems(l) /\ UNCHANGED copyStatus
  <2>1. \A c \in Inserted(l) : /\ copyStatus[c] = "BORROWED"
                               /\ \A m \in Loans : ~ Open(m, c)
    BY <1>2, InsertedReserved DEF InsertItems
  <2>2. OneOpenItem'
    BY <1>2, <2>1, InsertOpens DEF OneOpenItem
  <2>3. CopyFollowsItem'
    <3>1. SUFFICES ASSUME NEW m \in Loans, NEW c \in Copies, Open(m, c)'
                   PROVE  /\ items'[m][c].status = "BORROWED" =>
                               copyStatus[c] = "BORROWED"
                          /\ copyStatus[c] # "AVAILABLE"
      BY <1>2 DEF CopyFollowsItem, Open
    <3>2. CASE c \in Inserted(l)
      BY <2>1, <3>2
    <3>3. CASE c \notin Inserted(l)
      <4>1. Open(m, c)
        BY <1>2, <3>1, <3>3, InsertOpens
      <4>2. m # l
        BY <1>2, <3>1, <3>3 DEF InsertItems, Open, NoItem, TypeOK
      <4>3. items'[m] = items[m]
        BY <4>2, CheckoutFrame
      <4> QED BY <4>1, <4>3 DEF CopyFollowsItem
    <3> QED BY <3>2, <3>3
  <2> QED BY <2>2, <2>3
<1>3. CASE UNCHANGED shelfVars
  BY <1>3 DEF shelfVars, OneOpenItem, CopyFollowsItem, Open
<1> QED BY <1>1, <1>2, <1>3, CopyFrame

\* A checkout step does not touch a copy that a return is about to shelve.
LEMMA ShelfStep ==
  ASSUME TypeOK, NEW l \in Loans, Checkout(l), ReqShape(l), Reserves(l),
         NEW d \in Desk, DeskShape(d), ShelfPending(d)
  PROVE  ShelfPending(d)'
<1>1. UNCHANGED deskVars
  BY CheckoutFrame
<1>2. SUFFICES ASSUME deskPc[d] = "copy"
               PROVE  /\ copyStatus'[deskCopy[d]] # "AVAILABLE"
                      /\ \A m \in Loans : ~ Open(m, deskCopy[d])'
                      /\ \A m \in Loans : pc'[m] \in Working =>
                           \A i \in 1..Written(m)' :
                             basket'[m][i] # deskCopy[d]
  BY <1>1 DEF deskVars, ShelfPending, Open
<1>3. /\ deskCopy[d] \in Copies
      /\ copyStatus[deskCopy[d]] # "AVAILABLE"
      /\ \A m \in Loans : ~ Open(m, deskCopy[d])
      /\ \A m \in Loans : pc[m] \in Working =>
           \A i \in 1..Written(m) : basket[m][i] # deskCopy[d]
  BY <1>2 DEF ShelfPending, DeskShape
<1>4. copyStatus'[deskCopy[d]] # "AVAILABLE"
  BY <1>3, CopyFrame DEF WriteCopy, shelfVars, TypeOK
<1>5. ASSUME NEW m \in Loans PROVE ~ Open(m, deskCopy[d])'
  <2> PICK c \in Copies : c = deskCopy[d] /\ c = deskCopy'[d]
    BY <1>1, <1>3 DEF deskVars
  <2>1. CASE InsertItems(l)
    <3>1. c \notin Inserted(l) /\ ~ Open(m, c)
      BY <1>3, <2>1, InsertedReserved DEF InsertItems, Working
    <3>2. ~ Open(m, c)'
      BY <2>1, <3>1, InsertOpens
    <3> QED BY <3>2 DEF Open
  <2>2. CASE UNCHANGED items
    BY <1>3, <2>2 DEF Open
  <2> QED BY <2>1, <2>2, CopyFrame DEF shelfVars
<1>6. ASSUME NEW m \in Loans, pc'[m] \in Working, NEW i \in 1..Written(m)'
      PROVE  basket'[m][i] # deskCopy[d]
  <2>1. CASE m # l
    <3>1. SameReq(m) /\ Written(m)' = Written(m)
      BY <2>1, CheckoutFrame DEF SameReq, Written
    <3> QED BY <1>3, <1>6, <3>1 DEF SameReq
  <2>2. CASE m = l
    <3>1. /\ basket'[l][i] = basket[l][i] /\ pc[l] \in Working
          /\ i \in 1..Written(l) \/ (WriteCopy(l) /\ i = at[l])
      BY <1>6, <2>2, WrittenStep
    <3>2. CASE i \in 1..Written(l)
      BY <1>3, <2>2, <3>1, <3>2
    <3>3. CASE WriteCopy(l) /\ i = at[l]
      <4>1. /\ at[l] \in 1..Passed(l) /\ ~ (at[l] <= Written(l))
        <5>1. pc[l] = "write" /\ at[l] \in 1..held[l]
          BY <3>3, OwnTarget DEF WriteCopy
        <5>2. Passed(l) = held[l] /\ Written(l) = at[l] - 1
          BY <5>1 DEF ReqShape, Passed, Written
        <5> QED BY <5>1, <5>2 DEF TypeOK
      <4>2. copyStatus[basket[l][at[l]]] = "AVAILABLE"
        BY <3>1, <4>1 DEF Reserves
      <4> QED BY <1>3, <2>2, <3>1, <3>3, <4>2
    <3> QED BY <3>1, <3>2, <3>3
  <2> QED BY <2>1, <2>2
<1> QED BY <1>4, <1>5, <1>6

-----------------------------------------------------------------------------
(***************************************************************************)
(* What a step of a desk call does to items and copies.                    *)
(***************************************************************************)

\* The item document a writing call replaces is the one it read.
LEMMA WritesOwnItem ==
  ASSUME TypeOK, NEW d \in Desk, DeskShape(d),
         deskPc[d] \in {"item", "renew", "markItem"}
  PROVE  /\ deskLoan[d] \in Loans /\ deskCopy[d] \in Copies
         /\ seen[d][deskCopy[d]] = items[deskLoan[d]][deskCopy[d]]
         /\ items[deskLoan[d]][deskCopy[d]] \in ItemDoc
         /\ Open(deskLoan[d], deskCopy[d])
         /\ deskPc[d] # "item" =>
              items[deskLoan[d]][deskCopy[d]].status = "BORROWED"
<1>1. deskLoan[d] \in Loans /\ deskCopy[d] \in Copies
  BY DEF DeskShape, TypeOK
<1>2. CASE deskPc[d] = "item"
  BY <1>1, <1>2 DEF DeskShape, Fresh, TypeOK
<1>3. CASE deskPc[d] \in {"renew", "markItem"}
  BY <1>1, <1>3 DEF DeskShape, Fresh, Open, TypeOK
<1> QED BY <1>1, <1>2, <1>3

\* The three writes of an item, by what they make of its status.
LEMMA ItemWrites ==
  ASSUME TypeOK, NEW d \in Desk, DeskShape(d)
  PROVE  /\ WriteReturned(d) =>
              /\ deskPc[d] = "item"
              /\ \E doc \in ItemDoc : ReplaceItem(d, doc) /\ doc.status = "RETURNED"
         /\ WriteRenewed(d) =>
              /\ deskPc[d] = "renew"
              /\ \E doc \in ItemDoc : ReplaceItem(d, doc) /\ doc.status = "BORROWED"
         /\ MarkItem(d) =>
              /\ deskPc[d] = "markItem"
              /\ \E doc \in ItemDoc : ReplaceItem(d, doc) /\ doc.status = mark[d]
<1> DEFINE old == seen[d][deskCopy[d]]
<1>1. mark[d] \in ItemStatus /\ "RETURNED" \in ItemStatus
  BY DEF TypeOK, ItemStatus
<1>2. ASSUME NEW s \in ItemStatus, deskCopy[d] \in Copies
      PROVE  /\ [old EXCEPT !.status = s] \in ItemDoc
             /\ [old EXCEPT !.status = s].status = s
  <2>1. old \in ItemDoc
    BY <1>2 DEF TypeOK
  <2> HIDE DEF old
  <2> QED BY <2>1 DEF ItemDoc
<1>3. ASSUME WriteReturned(d)
      PROVE  /\ deskPc[d] = "item"
             /\ \E doc \in ItemDoc : ReplaceItem(d, doc) /\ doc.status = "RETURNED"
  BY <1>1, <1>2, <1>3, WritesOwnItem DEF WriteReturned
<1>4. ASSUME MarkItem(d)
      PROVE  /\ deskPc[d] = "markItem"
             /\ \E doc \in ItemDoc : ReplaceItem(d, doc) /\ doc.status = mark[d]
  BY <1>1, <1>2, <1>4, WritesOwnItem DEF MarkItem
<1>5. ASSUME WriteRenewed(d)
      PROVE  /\ deskPc[d] = "renew"
             /\ \E doc \in ItemDoc : ReplaceItem(d, doc) /\ doc.status = "BORROWED"
  <2> DEFINE doc == [old EXCEPT !.renews = @ + 1, !.due = @ + ExtendDays]
  <2>1. deskPc[d] = "renew" /\ ReplaceItem(d, doc)
    BY <1>5 DEF WriteRenewed
  <2>2. deskCopy[d] \in Copies /\ old \in ItemDoc /\ old.status = "BORROWED"
    BY <2>1, WritesOwnItem
  <2>3. doc \in ItemDoc
    BY <2>2, SeenDocType
  <2>4. doc.status = old.status
    <3> DEFINE r == old.renews + 1
               u == old.due + ExtendDays
    <3>1. [old EXCEPT !.renews = r, !.due = u].status = old.status
      <4> HIDE DEF r, u, old
      <4> QED BY <2>2 DEF ItemDoc
    <3> QED BY <3>1
  <2> HIDE DEF doc
  <2> QED BY <2>1, <2>2, <2>3, <2>4
<1> QED BY <1>3, <1>4, <1>5

\* An item changes only under the call that works on it: it comes back, is
\* renewed, or is reported.
LEMMA DeskItemStep ==
  ASSUME TypeOK, NEW d \in Desk, DeskShape(d), DeskCall(d),
         NEW m \in Loans, NEW c \in Copies, items'[m][c] # items[m][c]
  PROVE  /\ m = deskLoan[d] /\ c = deskCopy[d] /\ Open(m, c)
         /\ copyStatus' = copyStatus
         /\ \/ /\ WriteReturned(d) /\ deskPc[d] = "item"
               /\ items'[m][c].status = "RETURNED"
            \/ /\ WriteRenewed(d) /\ items[m][c].status = "BORROWED"
               /\ items'[m][c].status = "BORROWED"
            \/ /\ MarkItem(d) /\ items[m][c].status = "BORROWED"
               /\ items'[m][c].status = mark[d]
<1>1. WriteReturned(d) \/ WriteRenewed(d) \/ MarkItem(d)
  BY DEF DeskCall, StartReturn, StartRenew, StartMark, TakeItem, Shelve,
         RefreshItems, WriteLoan, MarkCopy, MarkFine, DeskFails, shelfVars
<1>2. deskPc[d] \in {"item", "renew", "markItem"} /\ copyStatus' = copyStatus
  BY <1>1 DEF WriteReturned, WriteRenewed, MarkItem
<1>3. ASSUME NEW doc \in ItemDoc, ReplaceItem(d, doc)
      PROVE  m = deskLoan[d] /\ c = deskCopy[d] /\ items'[m][c] = doc
  BY <1>2, <1>3, WritesOwnItem DEF ReplaceItem, TypeOK
<1> QED BY <1>1, <1>2, <1>3, ItemWrites, WritesOwnItem

\* A copy changes only under the call that works on it: it is shelved, or gets
\* the status the call has just given the item.
LEMMA DeskCopyStep ==
  ASSUME TypeOK, NEW d \in Desk, DeskShape(d), DeskCall(d),
         NEW c \in Copies, copyStatus'[c] # copyStatus[c]
  PROVE  /\ c = deskCopy[d] /\ items' = items
         /\ \/ Shelve(d) /\ deskPc[d] = "copy"
            \/ /\ MarkCopy(d) /\ deskLoan[d] \in Loans /\ Open(deskLoan[d], c)
               /\ items[deskLoan[d]][c].status = mark[d]
               /\ copyStatus'[c] = mark[d]
<1>1. Shelve(d) \/ MarkCopy(d)
  BY DEF DeskCall, StartReturn, StartRenew, StartMark, TakeItem, WriteReturned,
         RefreshItems, WriteLoan, WriteRenewed, MarkItem, MarkFine, DeskFails,
         shelfVars
<1>2. CASE Shelve(d)
  BY <1>2 DEF Shelve, TypeOK
<1>3. CASE MarkCopy(d)
  <2>1. deskPc[d] = "markCopy" /\ deskLoan[d] \in Loans
    BY <1>3 DEF MarkCopy, DeskShape, TypeOK
  <2>2. c = deskCopy[d] /\ items' = items /\ copyStatus'[c] = mark[d]
    BY <1>3 DEF MarkCopy, TypeOK
  <2>3. items[deskLoan[d]][c].status = mark[d] /\ mark[d] \in {"LOST", "DAMAGED"}
    BY <2>1, <2>2 DEF DeskShape, TypeOK
  <2> QED BY <1>3, <2>1, <2>2, <2>3 DEF Open
<1> QED BY <1>1, <1>2, <1>3

\* The desk opens no item.
LEMMA DeskOpensNothing ==
  ASSUME TypeOK, NEW d \in Desk, DeskShape(d), DeskCall(d),
         NEW m \in Loans, NEW c \in Copies, Open(m, c)'
  PROVE  Open(m, c)
  BY DeskItemStep DEF Open

\* Nothing of what a checkout reserved is touched at the desk: a reserved copy
\* has no open item, and one the request has written is not about to be shelved.
LEMMA DeskReserves ==
  ASSUME TypeOK, NEW d \in Desk, DeskShape(d), ShelfPending(d), DeskCall(d),
         NEW l \in Loans, ReqShape(l), Reserves(l)
  PROVE  Reserves(l)'
<1>1. SameReq(l) /\ Passed(l)' = Passed(l) /\ Written(l)' = Written(l)
  BY DeskCallFrame DEF reqVars, SameReq, Passed, Written
<1>2. SUFFICES ASSUME pc[l] \in Working, NEW i \in 1..Passed(l)
               PROVE  /\ \A m \in Loans : ~ Open(m, basket[l][i])'
                      /\ copyStatus'[basket[l][i]] = copyStatus[basket[l][i]]
  BY <1>1 DEF SameReq, Reserves
<1> PICK c \in Copies : c = basket[l][i] /\ c = basket'[l][i]
  BY <1>1, <1>2, HeldInBasket DEF SameReq
<1>3. /\ \A m \in Loans : ~ Open(m, c)
      /\ copyStatus[c] = IF i <= Written(l) THEN "BORROWED" ELSE "AVAILABLE"
  BY <1>2 DEF Reserves
<1>4. \A m \in Loans : ~ Open(m, c)'
  BY <1>3, DeskOpensNothing
<1>5. ASSUME copyStatus'[c] # copyStatus[c] PROVE FALSE
  <2>1. c = deskCopy[d] /\ deskPc[d] = "copy"
    BY <1>3, <1>5, DeskCopyStep
  <2>2. /\ copyStatus[c] # "AVAILABLE"
        /\ \A j \in 1..Written(l) : basket[l][j] # c
    BY <1>2, <2>1 DEF ShelfPending
  <2>3. i \in 1..Written(l)
    BY <1>2, <1>3, <2>2, HeldInBasket
  <2> QED BY <2>2, <2>3
<1> QED BY <1>4, <1>5 DEF Open

\* The desk keeps one open item per copy, and copies in step with items.
LEMMA DeskOpenItem ==
  ASSUME TypeOK, NEW d \in Desk, DeskShape(d), ShelfPending(d), DeskCall(d),
         OneOpenItem, CopyFollowsItem
  PROVE  OneOpenItem' /\ CopyFollowsItem'
<1>1. OneOpenItem'
  BY DeskOpensNothing DEF OneOpenItem
<1>2. SUFFICES ASSUME NEW m \in Loans, NEW c \in Copies, Open(m, c)'
               PROVE  /\ items'[m][c].status = "BORROWED" =>
                           copyStatus'[c] = "BORROWED"
                      /\ copyStatus'[c] # "AVAILABLE"
  BY <1>1 DEF CopyFollowsItem, Open
<1>3. /\ Open(m, c)
      /\ items[m][c].status = "BORROWED" => copyStatus[c] = "BORROWED"
      /\ copyStatus[c] # "AVAILABLE"
      /\ mark[d] \in {"LOST", "DAMAGED"}
  BY <1>2, DeskOpensNothing DEF CopyFollowsItem, TypeOK
<1>4. CASE items'[m][c] # items[m][c]
  BY <1>2, <1>3, <1>4, DeskItemStep DEF Open
<1>5. CASE items'[m][c] = items[m][c] /\ copyStatus'[c] # copyStatus[c]
  <2>1. CASE Shelve(d) /\ deskPc[d] = "copy" /\ c = deskCopy[d]
    BY <1>3, <2>1 DEF ShelfPending
  <2>2. CASE /\ Open(deskLoan[d], c) /\ deskLoan[d] \in Loans
             /\ items[deskLoan[d]][c].status = mark[d]
             /\ copyStatus'[c] = mark[d]
    BY <1>3, <1>5, <2>2 DEF OneOpenItem
  <2> QED BY <1>5, <2>1, <2>2, DeskCopyStep
<1>6. CASE items'[m][c] = items[m][c] /\ copyStatus'[c] = copyStatus[c]
  BY <1>3, <1>6
<1> QED BY <1>4, <1>5, <1>6

\* The other calls see nothing of a call's step: they are on other loans.
LEMMA DeskOthers ==
  ASSUME TypeOK, NEW d \in Desk, DeskShape(d), DeskCall(d), OneCallPerLoan,
         NEW e \in Desk, e # d, DeskShape(e)
  PROVE  DeskShape(e)'
<1>1. SameCall(e)
  BY DeskCallFrame
<1>2. CASE deskPc[e] = "idle"
  BY <1>1, <1>2 DEF DeskShape, SameCall
<1>3. CASE deskPc[e] # "idle"
  <2>1. deskLoan[e] \in Loans /\ deskLoan[e] # deskLoan[d]
    BY <1>3, ModelAssumption DEF DeskShape, OneCallPerLoan, TypeOK
  <2>2. items'[deskLoan[e]] = items[deskLoan[e]]
    <3> PICK m \in Loans : m = deskLoan[e]
      BY <2>1
    <3>1. \A c \in Copies : items'[m][c] = items[m][c]
      BY <2>1, DeskItemStep
    <3>2. TypeOK'
      BY DeskCallType
    <3>3. items'[m] = items[m]
      BY <3>1, <3>2 DEF TypeOK
    <3> QED BY <3>3
  <2> QED BY <1>1, <2>2 DEF DeskShape, SameCall, Fresh, Open
<1> QED BY <1>2, <1>3

\* A call that starts, starts from what it has just read; the next writes find
\* the items as they were read.
LEMMA DeskOwn ==
  ASSUME CarefulLibrary, TypeOK, NEW d \in Desk, DeskShape(d), DeskCall(d)
  PROVE  DeskShape(d)'
<1> USE DEF TypeOK, DeskGoTo
<1>0. /\ TypeOK' /\ MarksBorrowedOnly /\ None \notin Loans
      /\ mark[d] \in {"LOST", "DAMAGED"}
  BY DeskCallType, ModelAssumption DEF CarefulLibrary
<1>1. ASSUME NEW l \in Loans, NEW requested \in SUBSET Copies,
             StartReturn(d, l, requested)
      PROVE  DeskShape(d)'
  <2>1. /\ deskPc'[d] = "return" /\ deskLoan'[d] = l /\ l # None
        /\ todo'[d] = {c \in requested : items[l][c].status # "RETURNED"}
        /\ seen'[d] = items[l] /\ items' = items
    BY <1>0, <1>1 DEF StartReturn, Begin, shelfVars
  <2>2. \A c \in todo'[d] : Open(l, c)
    BY <1>1, <2>1 DEF StartReturn, Open, ItemDoc, ItemStatus
  <2> QED BY <2>1, <2>2 DEF DeskShape, Fresh, Open
<1>2. ASSUME NEW l \in Loans, NEW c \in Copies,
             \/ StartRenew(d, l, c)
             \/ \E s \in {"LOST", "DAMAGED"} : StartMark(d, l, c, s)
      PROVE  DeskShape(d)'
  <2>1. /\ deskPc'[d] \in {"renew", "markItem"}
        /\ deskLoan'[d] = l /\ l # None /\ deskCopy'[d] = c
        /\ items[l][c].status = "BORROWED"
        /\ seen'[d] = items[l] /\ items' = items
    BY <1>0, <1>2 DEF StartRenew, StartMark, Begin, shelfVars
  <2> QED BY <2>1 DEF DeskShape, Fresh
<1>3. ASSUME NEW c \in Copies, TakeItem(d, c) PROVE DeskShape(d)'
  <2>1. /\ deskPc[d] = "return" /\ deskPc'[d] = "item"
        /\ c \in todo[d] /\ deskCopy'[d] = c /\ todo' = todo
        /\ seen' = seen /\ deskLoan' = deskLoan /\ items' = items
    BY <1>3 DEF TakeItem, shelfVars
  <2> QED BY <2>1 DEF DeskShape, Fresh, Open
<1>4. CASE WriteReturned(d)
  <2>1. /\ deskPc[d] = "item" /\ deskPc'[d] = "copy"
        /\ deskCopy' = deskCopy /\ todo' = todo /\ seen' = seen
        /\ deskLoan' = deskLoan
    BY <1>4 DEF WriteReturned
  <2>2. deskLoan[d] \in Loans /\ deskCopy[d] \in Copies
    BY <2>1, WritesOwnItem
  <2>3. \A c \in Copies \ {deskCopy[d]} :
          items'[deskLoan[d]][c] = items[deskLoan[d]][c]
    BY <1>4, <2>2 DEF WriteReturned, ReplaceItem
  <2> QED BY <2>1, <2>2, <2>3 DEF DeskShape, Fresh, Open
<1>5. CASE Shelve(d)
  <2>1. /\ deskPc[d] = "copy" /\ deskPc'[d] = "return"
        /\ todo'[d] = todo[d] \ {deskCopy[d]} /\ seen' = seen
        /\ deskLoan' = deskLoan /\ items' = items
    BY <1>5 DEF Shelve
  <2> QED BY <2>1 DEF DeskShape, Fresh, Open
<1>6. CASE RefreshItems(d)
  BY <1>6 DEF RefreshItems, DeskShape
<1>7. CASE MarkItem(d)
  <2>1. /\ deskPc[d] = "markItem" /\ deskPc'[d] = "markCopy"
        /\ deskCopy' = deskCopy /\ mark' = mark /\ deskLoan' = deskLoan
    BY <1>7 DEF MarkItem
  <2>2. deskLoan[d] \in Loans /\ deskCopy[d] \in Copies
    BY <2>1, WritesOwnItem
  <2>3. PICK doc \in ItemDoc : ReplaceItem(d, doc) /\ doc.status = mark[d]
    BY <1>7, ItemWrites
  <2>4. items'[deskLoan[d]][deskCopy[d]] = doc
    BY <2>2, <2>3 DEF ReplaceItem
  <2> QED BY <2>1, <2>2, <2>3, <2>4 DEF DeskShape
<1>8. CASE MarkCopy(d)
  BY <1>8 DEF MarkCopy, DeskShape
<1>9. CASE Finish(d)
  BY <1>9 DEF Finish, DeskShape
<1>10. WriteLoan(d) \/ WriteRenewed(d) \/ MarkFine(d) \/ DeskFails(d) => Finish(d)
  BY DEF WriteLoan, WriteRenewed, MarkFine, DeskFails
<1> QED
  BY <1>1, <1>2, <1>3, <1>4, <1>5, <1>6, <1>7, <1>8, <1>9, <1>10 DEF DeskCall

\* Two calls are never on one loan.
LEMMA OneCallStep ==
  ASSUME CarefulLibrary, TypeOK, NEW d \in Desk, DeskCall(d), OneCallPerLoan
  PROVE  OneCallPerLoan'
<1>1. \/ deskLoan'[d] \in {deskLoan[d], None}
      \/ \A e \in Desk : deskLoan[e] # deskLoan'[d]
  BY DEF DeskCall, StartReturn, StartRenew, StartMark, Begin, CarefulLibrary,
         TakeItem, WriteReturned, Shelve, RefreshItems, WriteLoan, WriteRenewed,
         MarkItem, MarkCopy, MarkFine, DeskFails, Finish, TypeOK
<1>2. \A e \in Desk \ {d} : deskLoan'[e] = deskLoan[e]
  BY DeskCallFrame DEF SameCall
<1> QED BY <1>1, <1>2 DEF OneCallPerLoan

\* A copy whose item has come back stays out of everyone's reach until the
\* call that returned it shelves it.
LEMMA DeskShelf ==
  ASSUME TypeOK, NEW d \in Desk, DeskShape(d), DeskCall(d),
         \A l \in Loans : ReqShape(l) /\ Reserves(l),
         OneOpenItem, CopyFollowsItem,
         \A e \in Desk : DeskShape(e) /\ ShelfPending(e),
         NEW e \in Desk
  PROVE  ShelfPending(e)'
<1>1. SUFFICES ASSUME deskPc'[e] = "copy", NEW c, c = deskCopy'[e]
      PROVE  /\ copyStatus'[c] # "AVAILABLE"
             /\ \A m \in Loans : ~ Open(m, c)'
             /\ \A m \in Loans : pc'[m] \in Working =>
                  \A i \in 1..Written(m)' : basket'[m][i] # c
             /\ \A f \in Desk : deskPc'[f] = "copy" /\ deskCopy'[f] = c => f = e
  BY DEF ShelfPending, Open
<1>2. \A m \in Loans : SameReq(m) /\ Written(m)' = Written(m)
  BY DeskCallFrame DEF reqVars, SameReq, Written
<1>3. \A f \in Desk \ {d} : deskPc'[f] = deskPc[f] /\ deskCopy'[f] = deskCopy[f]
  BY DeskCallFrame DEF SameCall
<1>4. deskPc'[d] = "copy" => WriteReturned(d)
  BY DEF DeskCall, StartReturn, StartRenew, StartMark, Begin, DeskGoTo,
         TakeItem, Shelve, RefreshItems, WriteLoan, WriteRenewed,
         MarkItem, MarkCopy, MarkFine, DeskFails, Finish, TypeOK
<1>5. WriteReturned(d) =>
        /\ deskLoan[d] \in Loans /\ deskCopy[d] \in Copies
        /\ Open(deskLoan[d], deskCopy[d]) /\ deskCopy' = deskCopy
        /\ copyStatus' = copyStatus
  BY WritesOwnItem DEF WriteReturned
<1>6. CASE e # d
  <2>1. /\ deskPc[e] = "copy" /\ c = deskCopy[e] /\ c \in Copies
        /\ copyStatus[c] # "AVAILABLE" /\ \A m \in Loans : ~ Open(m, c)
        /\ \A m \in Loans : pc[m] \in Working =>
             \A i \in 1..Written(m) : basket[m][i] # c
        /\ \A f \in Desk : deskPc[f] = "copy" /\ deskCopy[f] = c => f = e
    BY <1>1, <1>3, <1>6 DEF ShelfPending, DeskShape
  <2>2. copyStatus'[c] # "AVAILABLE"
    <3>1. CASE copyStatus'[c] # copyStatus[c]
      <4>1. \/ deskPc[d] = "copy" /\ deskCopy[d] = c
            \/ Open(deskLoan[d], c) /\ deskLoan[d] \in Loans
        BY <2>1, <3>1, DeskCopyStep
      <4> QED BY <1>6, <2>1, <4>1
    <3>2. CASE copyStatus'[c] = copyStatus[c]
      BY <2>1, <3>2
    <3> QED BY <3>1, <3>2
  <2>3. \A m \in Loans : ~ Open(m, c)'
    BY <2>1, DeskOpensNothing
  <2>4. ~ (deskPc'[d] = "copy" /\ deskCopy'[d] = c)
    BY <1>4, <1>5, <2>1
  <2> QED BY <1>2, <1>3, <2>1, <2>2, <2>3, <2>4 DEF SameReq
<1>7. CASE e = d
  <2>1. /\ WriteReturned(d) /\ c = deskCopy[d] /\ c \in Copies
        /\ deskLoan[d] \in Loans /\ Open(deskLoan[d], c)
        /\ copyStatus' = copyStatus
    BY <1>1, <1>4, <1>5, <1>7
  <2>2. copyStatus'[c] # "AVAILABLE"
    BY <2>1 DEF CopyFollowsItem
  <2>3. ASSUME NEW m \in Loans PROVE ~ Open(m, c)'
    <3>1. CASE m = deskLoan[d]
      <4>1. PICK doc \in ItemDoc : ReplaceItem(d, doc) /\ doc.status = "RETURNED"
        BY <2>1, ItemWrites
      <4>2. items'[m][c] = doc
        BY <2>1, <3>1, <4>1 DEF ReplaceItem, TypeOK
      <4> QED BY <4>1, <4>2 DEF Open
    <3>2. CASE m # deskLoan[d]
      BY <2>1, <3>2, DeskOpensNothing DEF OneOpenItem
    <3> QED BY <3>1, <3>2
  <2>4. ASSUME NEW m \in Loans, pc[m] \in Working, NEW i \in 1..Written(m)
        PROVE  basket[m][i] # c
    <3>1. i \in 1..Passed(m)
      BY <2>4, HeldInBasket DEF TypeOK
    <3> QED BY <2>1, <2>4, <3>1 DEF Reserves
  <2>5. \A f \in Desk \ {d} : ~ (deskPc[f] = "copy" /\ deskCopy[f] = c)
    BY <2>1 DEF ShelfPending
  <2> QED BY <1>2, <1>3, <1>7, <2>2, <2>3, <2>4, <2>5 DEF SameReq
<1> QED BY <1>6, <1>7

-----------------------------------------------------------------------------
(***************************************************************************)
(* The inductive invariant.                                                *)
(***************************************************************************)

LEMMA InitInv == Init => IInv
<1> SUFFICES ASSUME Init PROVE IInv
  OBVIOUS
<1>1. TypeOK
  BY InitType
<1>2. \A l \in Loans : /\ pc[l] = "idle" /\ at[l] = 1 /\ held[l] = 0
                       /\ \A c \in Copies : items[l][c].status = "NONE"
  BY DEF Init, NoItem
<1>3. \A d \in Desk : deskPc[d] = "idle" /\ deskLoan[d] = None
  BY DEF Init
<1>4. \A l \in Loans : ReqShape(l) /\ OwnsLocks(l) /\ Reserves(l) /\ NoItemsYet(l)
  BY <1>2 DEF ReqShape, OwnsLocks, Reserves, NoItemsYet, Working, Checking
<1>5. OneOpenItem /\ CopyFollowsItem
  BY <1>2 DEF OneOpenItem, CopyFollowsItem, Open
<1>6. OneCallPerLoan /\ \A d \in Desk : DeskShape(d) /\ ShelfPending(d)
  BY <1>3 DEF OneCallPerLoan, DeskShape, ShelfPending
<1> QED BY <1>1, <1>4, <1>5, <1>6 DEF IInv

LEMMA CheckoutInv ==
  ASSUME IInv, NEW l \in Loans, Checkout(l)
  PROVE  IInv'
<1> USE DEF IInv
<1>1. TypeOK'
  BY CheckoutType
<1>2. ASSUME NEW m \in Loans PROVE ReqShape(m)'
  <2>1. CASE m = l BY <2>1, ShapeStep
  <2>2. CASE m # l BY <2>2, CheckoutFrame DEF ReqShape, SameReq
  <2> QED BY <2>1, <2>2
<1>3. \A m \in Loans : OwnsLocks(m)' /\ Reserves(m)' /\ NoItemsYet(m)'
  BY OwnsStep, ReservesStep, NoItemsStep
<1>4. OneOpenItem' /\ CopyFollowsItem'
  BY OpenItemStep
<1>5. \A d \in Desk : DeskShape(d)' /\ ShelfPending(d)'
  BY DeskShapeStep, ShelfStep
<1>6. OneCallPerLoan'
  BY CheckoutFrame DEF OneCallPerLoan, deskVars
<1> QED BY <1>1, <1>2, <1>3, <1>4, <1>5, <1>6

LEMMA DeskCallInv ==
  ASSUME CarefulLibrary, IInv, NEW d \in Desk, DeskCall(d)
  PROVE  IInv'
<1> USE DEF IInv
<1>1. TypeOK'
  BY DeskCallType
<1>2. ASSUME NEW l \in Loans PROVE ReqShape(l)' /\ OwnsLocks(l)'
  BY <1>2, DeskCallFrame DEF reqVars, ReqShape, OwnsLocks
<1>3. \A l \in Loans : Reserves(l)'
  BY DeskReserves
<1>4. ASSUME NEW l \in Loans PROVE NoItemsYet(l)'
  BY <1>4, DeskCallFrame, DeskItemStep DEF reqVars, NoItemsYet, Open
<1>5. OneOpenItem' /\ CopyFollowsItem'
  BY DeskOpenItem
<1>6. \A e \in Desk : DeskShape(e)'
  BY DeskOwn, DeskOthers
<1>7. OneCallPerLoan'
  BY OneCallStep
<1>8. \A e \in Desk : ShelfPending(e)'
  BY DeskShelf
<1> QED BY <1>1, <1>2, <1>3, <1>4, <1>5, <1>6, <1>7, <1>8

\* Steps that move neither requests, desk calls, copies nor items.
LEMMA QuietInv ==
  ASSUME IInv, TypeOK', UNCHANGED <<reqVars, shelfVars, deskVars>>,
         \A l \in Loans : OwnsLocks(l)'
  PROVE  IInv'
  BY DEF IInv, reqVars, shelfVars, deskVars, ReqShape, Reserves, Passed, Written,
         NoItemsYet, OneOpenItem, CopyFollowsItem, Open, DeskShape, Fresh,
         OneCallPerLoan, ShelfPending

LEMMA NextInv == CarefulLibrary /\ IInv /\ [Next]_vars => IInv'
<1> SUFFICES ASSUME CarefulLibrary, IInv, [Next]_vars PROVE IInv'
  OBVIOUS
<1>0. TypeOK' /\ TypeOK
  BY NextType DEF IInv
<1>1. ASSUME NEW c \in Copies, LockExpires(c) PROVE IInv'
  <2>1. \A l \in Loans : OwnsLocks(l)'
    BY <1>0, <1>1, OwnsExpiry DEF IInv, CarefulLibrary
  <2> QED BY <1>0, <1>1, <2>1, QuietInv DEF LockExpires
<1>2. ASSUME UNCHANGED <<reqVars, shelfVars, deskVars, lock>> PROVE IInv'
  <2>1. \A l \in Loans : OwnsLocks(l)'
    BY <1>2 DEF IInv, OwnsLocks, reqVars
  <2> QED BY <1>0, <1>2, <2>1, QuietInv
<1>3. ASSUME NEW u \in Users, SettleFine(u) PROVE IInv'
  BY <1>2, <1>3 DEF SettleFine
<1>4. CASE Tick
  BY <1>2, <1>4 DEF Tick
<1>5. CASE UNCHANGED vars
  BY <1>2, <1>5 DEF vars, reqVars, shelfVars, deskVars
<1> QED BY <1>1, <1>3, <1>4, <1>5, CheckoutInv, DeskCallInv DEF Next

\* The invariant holds throughout, whatever interleaves, fails or dies, in a
\* library whose locks outlive their requests and whose desk works on a loan
\* one call at a time.
THEOREM Invariance ==
  ASSUME CarefulLibrary
  PROVE  Spec => []IInv
<1>1. Init => IInv
  BY InitInv
<1>2. IInv /\ [Next]_vars => IInv'
  BY NextInv
<1> QED BY <1>1, <1>2, PTL DEF Spec

\* No copy is lent by two loans at once.
THEOREM NoDoubleLoanHolds ==
  ASSUME CarefulLibrary
  PROVE  Spec => []NoDoubleLoan
<1>1. IInv => NoDoubleLoan
  BY DEF IInv, OneOpenItem, NoDoubleLoan, Open
<1> QED BY <1>1, Invariance, PTL

\* The status of a copy never contradicts the items that are out.
THEOREM CopyFollowsItemHolds ==
  ASSUME CarefulLibrary
  PROVE  Spec => []CopyFollowsItem
<1>1. IInv => CopyFollowsItem
  BY DEF IInv
<1> QED BY <1>1, Invariance, PTL

\* The copy lock excludes: two requests never work on one copy.
THEOREM OneHandlerHolds ==
  ASSUME CarefulLibrary
  PROVE  Spec => []OneHandlerPerCopy
<1>1. IInv => OneHandlerPerCopy
  <2> SUFFICES ASSUME IInv, NEW c \in Copies, NEW l \in Loans, NEW m \in Loans,
                      Handling(l, c), Handling(m, c)
               PROVE  l = m
    BY DEF OneHandlerPerCopy
  <2>1. PICK i \in 1..held[l] : basket[l][i] = c
    BY DEF Handling
  <2>2. PICK j \in 1..held[m] : basket[m][j] = c
    BY DEF Handling
  <2> QED BY <2>1, <2>2, OnePosition DEF IInv, Handling
<1> QED BY <1>1, Invariance, PTL

-----------------------------------------------------------------------------
(***************************************************************************)
(* Locks, and the ledger.                                                  *)
(***************************************************************************)

\* A checkout frees no lock but its own, and nobody else moves with it: this
\* needs no assumption on how long locks live.
THEOREM LockRemovedByOwnerHolds == Spec => LockRemovedByOwner
<1> DEFINE OwnerMoves ==
      \A c \in Copies : lock[c] # None /\ lock'[c] # lock[c] =>
        \A m \in Loans : pc'[m] # pc[m] \/ at'[m] # at[m] => m = lock[c][1]
<1>1. TypeOK /\ [Next]_vars => OwnerMoves
  <2> SUFFICES ASSUME TypeOK, [Next]_vars, NEW c \in Copies,
                      lock[c] # None, lock'[c] # lock[c],
                      NEW m \in Loans, pc'[m] # pc[m] \/ at'[m] # at[m]
               PROVE  m = lock[c][1]
    OBVIOUS
  <2>1. ASSUME NEW l \in Loans, Checkout(l) PROVE m = lock[c][1]
    <3>1. m = l
      BY <2>1, CheckoutFrame DEF SameReq
    <3>2. lock[c] = <<l, at[l]>>
      BY <2>1, LockFrame
    <3> QED BY <3>1, <3>2
  <2>2. ASSUME NEW d \in Desk, DeskCall(d) PROVE FALSE
    BY <2>2, DeskCallFrame DEF reqVars
  <2>3. ~ \E k \in Copies : LockExpires(k)
    BY DEF LockExpires, reqVars
  <2>4. ~ (Tick \/ UNCHANGED vars \/ \E u \in Users : SettleFine(u))
    BY DEF Tick, SettleFine, vars
  <2> QED BY <2>1, <2>2, <2>3, <2>4 DEF Next
<1> QED
  BY <1>1, TypeCorrect, PTL DEF Spec, LockRemovedByOwner

\* The entries of the ledger, by the items they stand for.
LEMMA LedgerEntries ==
  ASSUME TypeOK, NEW l \in Loans, NEW c \in Copies
  PROVE  /\ ledgerOf[l][c] = EntryOf(items[l][c].status)
         /\ Ledger!Answers(l, c) <=> Open(l, c)
         /\ ledgerOf[l][c] = "none" <=> items[l][c].status = "NONE"
         /\ ledgerOf[l][c] = "out" <=> items[l][c].status = "BORROWED"
<1>1. items[l][c].status \in ItemStatus
  BY DEF TypeOK, ItemDoc
<1>2. ledgerOf[l][c] = EntryOf(items[l][c].status)
  BY DEF ledgerOf
<1> QED BY <1>1, <1>2 DEF EntryOf, ItemStatus, Ledger!Answers, Open

\* Inserting the items of a checkout lends its copies, all in one step.
LEMMA InsertLends ==
  ASSUME IInv, NEW l \in Loans, InsertItems(l)
  PROVE  Ledger!Lend(l, Inserted(l)) /\ Inserted(l) \in SUBSET Copies
<1>1. TypeOK /\ ReqShape(l) /\ Reserves(l) /\ NoItemsYet(l) /\ pc[l] = "items"
  BY DEF IInv, InsertItems
<1>2. /\ Inserted(l) \subseteq Copies
      /\ \A c \in Inserted(l) : \A m \in Loans : ~ Open(m, c)
  BY <1>1, InsertedReserved
<1>3. \A c \in Copies : ledgerOf[l][c] = "none"
  BY <1>1, LedgerEntries DEF NoItemsYet, Working
<1>4. \A c \in Inserted(l) : \A m \in Loans : ~ Ledger!Answers(m, c)
  BY <1>1, <1>2, LedgerEntries
<1>5. ledgerOf' = [ledgerOf EXCEPT ![l] =
                     [c \in Copies |-> IF c \in Inserted(l) THEN "out" ELSE "none"]]
  <2> DEFINE lent == [c \in Copies |-> IF c \in Inserted(l) THEN "out" ELSE "none"]
  <2>1. ASSUME NEW m \in Loans, m # l PROVE ledgerOf'[m] = ledgerOf[m]
    BY <1>1, <2>1 DEF ledgerOf, InsertItems, TypeOK
  <2>2. \A c \in Copies : items'[l][c] = IF c \in Inserted(l)
                            THEN [status |-> "BORROWED", renews |-> 0,
                                  due |-> now + LoanDays]
                            ELSE NoItem
    BY <1>1 DEF InsertItems, TypeOK
  <2>3. ledgerOf'[l] = lent
    BY <2>2 DEF ledgerOf, EntryOf, NoItem
  <2>4. ledgerOf' = [m \in Loans |-> ledgerOf'[m]]
    BY DEF ledgerOf
  <2>5. ledgerOf = [m \in Loans |-> ledgerOf[m]]
    BY DEF ledgerOf
  <2>6. ledgerOf' = [ledgerOf EXCEPT ![l] = lent]
    <3> HIDE DEF lent, ledgerOf
    <3> QED BY <2>1, <2>3, <2>4, <2>5
  <2> QED BY <2>6
<1> QED BY <1>2, <1>3, <1>4, <1>5 DEF Ledger!Lend

\* A desk call takes an item back, reports it, or shows nothing.
LEMMA DeskLedger ==
  ASSUME IInv, NEW d \in Desk, DeskCall(d)
  PROVE  \/ UNCHANGED ledgerOf
         \/ \E l \in Loans, c \in Copies : Ledger!TakeBack(l, c) \/ Ledger!Report(l, c)
<1>0. TypeOK /\ DeskShape(d) /\ TypeOK'
  BY DeskCallType DEF IInv
<1>1. CASE \A l \in Loans, c \in Copies :
             items'[l][c].status = items[l][c].status
  BY <1>1 DEF ledgerOf
<1>2. ASSUME NEW l \in Loans, NEW c \in Copies,
             items'[l][c].status # items[l][c].status
      PROVE  Ledger!TakeBack(l, c) \/ Ledger!Report(l, c)
  <2>1. /\ l = deskLoan[d] /\ c = deskCopy[d] /\ Open(l, c)
        /\ \/ items'[l][c].status = "RETURNED"
           \/ items[l][c].status = "BORROWED" /\ items'[l][c].status = mark[d]
    BY <1>0, <1>2, DeskItemStep
  <2>2. \A m \in Loans, k \in Copies :
          m # l \/ k # c => items'[m][k] = items[m][k]
    BY <1>0, <2>1, DeskItemStep
  <2> DEFINE entry == EntryOf(items'[l][c].status)
  <2>3. ledgerOf' = [ledgerOf EXCEPT ![l][c] = entry]
    <3>1. \A m \in Loans, k \in Copies : ledgerOf'[m][k] =
            IF m = l /\ k = c THEN entry ELSE ledgerOf[m][k]
      BY <2>2 DEF ledgerOf
    <3>2. /\ ledgerOf' = [m \in Loans |-> [k \in Copies |-> ledgerOf'[m][k]]]
          /\ ledgerOf = [m \in Loans |-> [k \in Copies |-> ledgerOf[m][k]]]
      BY DEF ledgerOf
    <3> HIDE DEF entry, ledgerOf
    <3> QED BY <3>1, <3>2
  <2>4. CASE items'[l][c].status = "RETURNED"
    BY <1>0, <2>1, <2>3, <2>4, LedgerEntries DEF EntryOf, Ledger!TakeBack
  <2>5. CASE items[l][c].status = "BORROWED" /\ items'[l][c].status = mark[d]
    <3>1. mark[d] \in {"LOST", "DAMAGED"}
      BY <1>0 DEF TypeOK
    <3>2. entry = "missing"
      BY <2>5, <3>1 DEF EntryOf
    <3>3. ledgerOf[l][c] = "out"
      BY <1>0, <2>5, LedgerEntries
    <3> QED BY <2>3, <3>2, <3>3 DEF Ledger!Report
  <2> QED BY <2>1, <2>4, <2>5
<1> QED BY <1>1, <1>2

\* What the circulation desk does is what the ledger says: locks, separate
\* document writes, failures and stale reads do not show.
THEOREM Refinement ==
  ASSUME CarefulLibrary
  PROVE  Spec => LedgerSpec
<1>1. Init => Ledger!Init
  BY DEF Init, Ledger!Init, ledgerOf, EntryOf, NoItem
<1>2. IInv /\ [Next]_vars => [Ledger!Next]_ledgerOf
  <2> SUFFICES ASSUME IInv, [Next]_vars, ~ UNCHANGED ledgerOf
               PROVE  Ledger!Next
    OBVIOUS
  <2>1. ~ UNCHANGED items
    BY DEF ledgerOf
  <2>2. ASSUME NEW l \in Loans, Checkout(l) PROVE Ledger!Next
    <3>1. InsertItems(l)
      BY <2>1, <2>2, CopyFrame DEF IInv, shelfVars
    <3> QED BY <3>1, InsertLends DEF Ledger!Next
  <2>3. ASSUME NEW d \in Desk, DeskCall(d) PROVE Ledger!Next
    BY <2>3, DeskLedger DEF Ledger!Next
  <2>4. ~ \E c \in Copies : LockExpires(c)
    BY <2>1 DEF LockExpires, shelfVars
  <2>5. ~ (Tick \/ UNCHANGED vars \/ \E u \in Users : SettleFine(u))
    BY <2>1 DEF Tick, SettleFine, vars, shelfVars
  <2> QED BY <2>2, <2>3, <2>4, <2>5 DEF Next
<1> QED
  BY <1>1, <1>2, Invariance, PTL DEF Spec, LedgerSpec, Ledger!Spec

\* What the ledger is for: a copy is in the hands of one loan at most, also
\* while it is reported lost or damaged (BorrowingService.cs:125-138).
THEOREM LedgerPromise ==
  ASSUME CarefulLibrary
  PROVE  Spec => []Ledger!OneLoanPerCopy
<1>1. IInv => Ledger!OneLoanPerCopy
  <2> SUFFICES ASSUME IInv, NEW c \in Copies, NEW l \in Loans, NEW m \in Loans,
                      Ledger!Answers(l, c), Ledger!Answers(m, c)
               PROVE  l = m
    BY DEF Ledger!OneLoanPerCopy
  <2>1. Open(l, c) /\ Open(m, c)
    BY LedgerEntries DEF IInv
  <2> QED BY <2>1 DEF IInv, OneOpenItem
<1> QED
  BY <1>1, Invariance, PTL

-----------------------------------------------------------------------------
(***************************************************************************)
(* Renewals.  A stale document can undo a renewal, never add one: what is  *)
(* written over an item is what was read of one, at most one step further, *)
(* and that step was allowed by what was read.                             *)
(***************************************************************************)

Within(doc) ==
  /\ doc.renews <= MaxRenewals
  /\ doc.due <= MaxDay + LoanDays + ExtendDays * doc.renews

RenewInv ==
  /\ now <= MaxDay
  /\ \A l \in Loans, c \in Copies : Within(items[l][c])
  /\ \A d \in Desk, c \in Copies : Within(seen[d][c])
  /\ \A d \in Desk :
       deskPc[d] = "renew" => /\ deskCopy[d] \in Copies
                              /\ seen[d][deskCopy[d]].renews < MaxRenewals

\* The documents a handler derives from one it read.
LEMMA WithinDerived ==
  ASSUME NEW doc \in ItemDoc, Within(doc)
  PROVE  /\ \A s \in ItemStatus : Within([doc EXCEPT !.status = s])
         /\ doc.renews < MaxRenewals
              => Within([doc EXCEPT !.renews = @ + 1, !.due = @ + ExtendDays])
<1>1. \A s \in ItemStatus : Within([doc EXCEPT !.status = s])
  BY DEF Within, ItemDoc
<1>2. ASSUME doc.renews < MaxRenewals
      PROVE  Within([doc EXCEPT !.renews = @ + 1, !.due = @ + ExtendDays])
  <2> DEFINE new == [doc EXCEPT !.renews = @ + 1, !.due = @ + ExtendDays]
  <2>1. new.renews = doc.renews + 1 /\ new.due = doc.due + ExtendDays
    BY DEF ItemDoc
  <2>2. doc.renews \in Nat /\ doc.due \in Nat /\ ExtendDays \in Nat /\ MaxRenewals \in Nat
        /\ MaxDay \in Nat /\ LoanDays \in Nat
    BY ModelAssumption DEF ItemDoc
  <2> HIDE DEF new
  <2>3. \A m \in Nat : ExtendDays * (m + 1) = ExtendDays * m + ExtendDays
    BY <2>2
  <2>4. ExtendDays * new.renews = ExtendDays * doc.renews + ExtendDays
    BY <2>1, <2>2, <2>3
  <2>5. ExtendDays * doc.renews \in Nat
    BY <2>2
  <2>6. Within(new)
    BY <1>2, <2>1, <2>2, <2>4, <2>5 DEF Within
  <2> QED
    BY <2>6 DEF new
<1> QED
  BY <1>1, <1>2

LEMMA WithinNew ==
  ASSUME now \in Nat, now <= MaxDay
  PROVE  /\ Within(NoItem)
         /\ Within([status |-> "BORROWED", renews |-> 0, due |-> now + LoanDays])
<1>1. ExtendDays * 0 = 0
  BY ModelAssumption
<1> QED
  BY <1>1, ModelAssumption DEF Within, NoItem

\* A call that replaces its item by a document within the limits.
LEMMA ReplaceWithin ==
  ASSUME TypeOK, NEW d \in Desk, NEW doc, ReplaceItem(d, doc),
         deskCopy[d] \in Copies => Within(doc),
         \A l \in Loans, c \in Copies : Within(items[l][c])
  PROVE  \A l \in Loans, c \in Copies : Within(items'[l][c])
<1> SUFFICES ASSUME NEW l \in Loans, NEW c \in Copies
             PROVE  Within(items'[l][c])
  OBVIOUS
<1>1. CASE l = deskLoan[d] /\ c = deskCopy[d]
  <2>1. items'[l][c] = doc
    BY <1>1 DEF ReplaceItem, TypeOK
  <2> QED
    BY <1>1, <2>1
<1>2. CASE ~(l = deskLoan[d] /\ c = deskCopy[d])
  <2>1. items'[l][c] = items[l][c]
    BY <1>2 DEF ReplaceItem, TypeOK
  <2> QED
    BY <2>1
<1> QED
  BY <1>1, <1>2

LEMMA CheckoutRenews ==
  ASSUME TypeOK, RenewInv, NEW l \in Loans, Checkout(l)
  PROVE  RenewInv'
<1>1. UNCHANGED deskVars /\ \A m \in Loans \ {l} : items'[m] = items[m]
  BY CheckoutFrame
<1>2. now' = now
  BY DEF Checkout, Submit, CheckFines, CheckLimit, AcquireLock, LockTaken, ReadCopy, WriteCopy,
         InsertBorrowing, InsertItems, ReleaseLock, Answer, RequestFails, AcquireUnheard,
         ReleaseFails, RequestDies
<1>3. ASSUME NEW c \in Copies
      PROVE  Within(items'[l][c])
  <2>1. CASE InsertItems(l)
    <3>1. items'[l][c] \in
            {NoItem, [status |-> "BORROWED", renews |-> 0, due |-> now + LoanDays]}
      BY <2>1 DEF InsertItems, TypeOK
    <3>2. now \in Nat /\ now <= MaxDay
      BY DEF RenewInv, TypeOK
    <3> QED
      BY <3>1, <3>2, WithinNew
  <2>2. CASE items' = items
    BY <2>2 DEF RenewInv
  <2> QED
    BY <2>1, <2>2
    DEF Checkout, Submit, CheckFines, CheckLimit, AcquireLock, LockTaken, ReadCopy, WriteCopy,
        InsertBorrowing, ReleaseLock, Answer, RequestFails, AcquireUnheard, ReleaseFails,
        RequestDies, shelfVars
<1>4. \A m \in Loans, c \in Copies : Within(items'[m][c])
  BY <1>1, <1>3 DEF RenewInv
<1> QED
  BY <1>1, <1>2, <1>4 DEF RenewInv, deskVars

\* A call that begins has read the items, one that ends has forgotten them.
LEMMA SeenWithin ==
  ASSUME TypeOK, RenewInv, NEW d \in Desk,
         \/ UNCHANGED seen
         \/ \E l \in Loans, step \in DeskPc : Begin(d, l, step)
         \/ Finish(d)
  PROVE  \A e \in Desk, c \in Copies : Within(seen'[e][c])
<1>1. CASE \E l \in Loans, step \in DeskPc : Begin(d, l, step)
  BY <1>1 DEF Begin, RenewInv, TypeOK
<1>2. CASE Finish(d)
  <2>1. Within(NoItem)
    BY WithinNew DEF RenewInv, TypeOK
  <2> QED
    BY <1>2, <2>1 DEF Finish, RenewInv, TypeOK
<1> QED
  BY <1>1, <1>2 DEF RenewInv

LEMMA DeskRenews ==
  ASSUME TypeOK, RenewInv, NEW d \in Desk, DeskCall(d)
  PROVE  RenewInv'
<1> DEFINE Stays == /\ \A l \in Loans, c \in Copies : Within(items'[l][c])
                    /\ \A e \in Desk, c \in Copies : Within(seen'[e][c])
                    /\ deskPc'[d] = "renew" =>
                         deskCopy'[d] \in Copies /\ seen'[d][deskCopy'[d]].renews < MaxRenewals
<1>1. now' = now
  BY DEF DeskCall, StartReturn, StartRenew, StartMark, TakeItem, WriteReturned, Shelve,
         RefreshItems, WriteLoan, WriteRenewed, MarkItem, MarkCopy, MarkFine, DeskFails
<1>2. \A e \in Desk \ {d} :
        deskPc'[e] = deskPc[e] /\ deskCopy'[e] = deskCopy[e] /\ seen'[e] = seen[e]
  BY DeskCallFrame DEF SameCall
<1>3. ASSUME NEW l \in Loans, NEW c \in Copies, StartRenew(d, l, c)
      PROVE  Stays
  <2>1. Begin(d, l, "renew") /\ "renew" \in DeskPc /\ items' = items
    BY <1>3 DEF StartRenew, DeskPc, shelfVars
  <2>2. deskCopy'[d] = c /\ seen'[d][c].renews < MaxRenewals
    BY <1>3 DEF StartRenew, Begin, TypeOK
  <2> QED
    BY <2>1, <2>2, SeenWithin DEF RenewInv
<1>4. ASSUME NEW l \in Loans, NEW requested \in SUBSET Copies, StartReturn(d, l, requested)
      PROVE  Stays
  <2>1. Begin(d, l, "return") /\ "return" \in DeskPc /\ items' = items
    BY <1>4 DEF StartReturn, DeskPc, shelfVars
  <2>2. deskPc'[d] = "return"
    BY <2>1 DEF Begin, DeskGoTo, TypeOK
  <2> QED
    BY <2>1, <2>2, SeenWithin DEF RenewInv
<1>5. ASSUME NEW l \in Loans, NEW c \in Copies, NEW s \in {"LOST", "DAMAGED"},
             StartMark(d, l, c, s)
      PROVE  Stays
  <2>1. Begin(d, l, "markItem") /\ "markItem" \in DeskPc /\ items' = items
    BY <1>5 DEF StartMark, DeskPc, shelfVars
  <2>2. deskPc'[d] = "markItem"
    BY <2>1 DEF Begin, DeskGoTo, TypeOK
  <2> QED
    BY <2>1, <2>2, SeenWithin DEF RenewInv
<1>6. ASSUME Finish(d) /\ items' = items PROVE Stays
  <2>1. deskPc'[d] = "idle"
    BY <1>6 DEF Finish, DeskGoTo, TypeOK
  <2> QED
    BY <1>6, <2>1, SeenWithin DEF RenewInv
<1>7. ASSUME WriteRenewed(d) PROVE Stays
  <2> DEFINE doc == [seen[d][deskCopy[d]] EXCEPT !.renews = @ + 1, !.due = @ + ExtendDays]
  <2>1. ReplaceItem(d, doc) /\ Finish(d)
    BY <1>7 DEF WriteRenewed
  <2>2. seen[d][deskCopy[d]] \in ItemDoc /\ Within(seen[d][deskCopy[d]])
        /\ seen[d][deskCopy[d]].renews < MaxRenewals
    BY <1>7 DEF WriteRenewed, RenewInv, TypeOK
  <2>3. Within(doc)
    BY <2>2, WithinDerived
  <2> HIDE DEF doc
  <2>4. \A l \in Loans, c \in Copies : Within(items'[l][c])
    BY <2>1, <2>3, ReplaceWithin DEF RenewInv
  <2>5. deskPc'[d] = "idle"
    BY <2>1 DEF Finish, DeskGoTo, TypeOK
  <2> QED
    BY <2>1, <2>4, <2>5, SeenWithin
<1>8. ASSUME NEW s \in ItemStatus,
             ReplaceItem(d, [seen[d][deskCopy[d]] EXCEPT !.status = s]),
             UNCHANGED seen, deskPc'[d] # "renew"
      PROVE  Stays
  <2> DEFINE doc == [seen[d][deskCopy[d]] EXCEPT !.status = s]
  <2>1. ReplaceItem(d, doc)
    BY <1>8
  <2>2. ASSUME deskCopy[d] \in Copies PROVE Within(doc)
    <3>1. seen[d][deskCopy[d]] \in ItemDoc /\ Within(seen[d][deskCopy[d]])
      BY <2>2 DEF RenewInv, TypeOK
    <3> QED
      BY <3>1, WithinDerived
  <2> HIDE DEF doc
  <2>3. \A l \in Loans, c \in Copies : Within(items'[l][c])
    BY <2>1, <2>2, ReplaceWithin DEF RenewInv
  <2> QED
    BY <1>8, <2>3 DEF RenewInv
<1>9. ASSUME WriteReturned(d) PROVE Stays
  <2>1. deskPc'[d] = "copy"
    BY <1>9 DEF WriteReturned, DeskGoTo, TypeOK
  <2> QED
    BY <1>8, <1>9, <2>1 DEF WriteReturned, ItemStatus
<1>10. ASSUME MarkItem(d) PROVE Stays
  <2>1. deskPc'[d] = "markCopy" /\ mark[d] \in ItemStatus
    BY <1>10 DEF MarkItem, DeskGoTo, TypeOK, ItemStatus
  <2> QED
    BY <1>8, <1>10, <2>1 DEF MarkItem
<1>11. ASSUME UNCHANGED <<items, seen>>, deskPc'[d] # "renew" PROVE Stays
  BY <1>11 DEF RenewInv
<1>12. ASSUME \E c \in Copies : TakeItem(d, c) PROVE Stays
  BY <1>11, <1>12 DEF TakeItem, DeskGoTo, shelfVars, TypeOK
<1>13. ASSUME Shelve(d) \/ RefreshItems(d) \/ MarkCopy(d) PROVE Stays
  BY <1>11, <1>13 DEF Shelve, RefreshItems, MarkCopy, DeskGoTo, shelfVars, TypeOK
<1>14. ASSUME WriteLoan(d) \/ MarkFine(d) \/ DeskFails(d) PROVE Stays
  BY <1>6, <1>14 DEF WriteLoan, MarkFine, DeskFails, shelfVars
<1>15. Stays
  BY <1>3, <1>4, <1>5, <1>7, <1>9, <1>10, <1>12, <1>13, <1>14 DEF DeskCall
<1> HIDE DEF Stays
<1>16. \A e \in Desk \ {d} :
         deskPc'[e] = "renew" => /\ deskCopy'[e] \in Copies
                                 /\ seen'[e][deskCopy'[e]].renews < MaxRenewals
  BY <1>2 DEF RenewInv
<1> QED
  BY <1>1, <1>15, <1>16 DEF RenewInv, Stays

LEMMA RenewStep == TypeOK /\ RenewInv /\ [Next]_vars => RenewInv'
<1> SUFFICES ASSUME TypeOK, RenewInv, [Next]_vars PROVE RenewInv'
  OBVIOUS
<1>1. ASSUME NEW l \in Loans, Checkout(l) PROVE RenewInv'
  BY <1>1, CheckoutRenews
<1>2. ASSUME NEW d \in Desk, DeskCall(d) PROVE RenewInv'
  BY <1>2, DeskRenews
<1>3. CASE UNCHANGED <<items, deskVars>> /\ (now' = now \/ Tick)
  <2>1. now' <= MaxDay
    BY <1>3, ModelAssumption DEF Tick, RenewInv, TypeOK
  <2> QED
    BY <1>3, <2>1 DEF RenewInv, deskVars
<1> QED
  BY <1>1, <1>2, <1>3 DEF Next, LockExpires, SettleFine, Tick, shelfVars, vars, deskVars

\* No interleaving of desk calls takes an item past the renewal limit or its
\* due date past what the renewals give, with no assumption on how many calls
\* work on one loan at once (BorrowingService.cs:173-316).
THEOREM RenewCapHolds == Spec => []RenewCap
<1>1. Init => RenewInv
  <2> SUFFICES ASSUME Init PROVE RenewInv
    OBVIOUS
  <2>1. now = 0 /\ Within(NoItem)
    BY WithinNew, ModelAssumption DEF Init
  <2> QED
    BY <2>1, ModelAssumption DEF Init, RenewInv
<1>2. TypeOK /\ RenewInv /\ [Next]_vars => RenewInv'
  BY RenewStep
<1>3. RenewInv => RenewCap
  BY DEF RenewInv, RenewCap, Within
<1> QED
  BY <1>1, <1>2, <1>3, TypeCorrect, PTL DEF Spec

-----------------------------------------------------------------------------
(***************************************************************************)
(* Overdue fines.                                                          *)
(***************************************************************************)

\* Who issues, who forgets: a fine is added for the item a return takes up,
\* and a return leaves the item it fined by writing it or by failing.
LEMMA DeskFineStep ==
  ASSUME TypeOK, NEW d \in Desk, DeskCall(d)
  PROVE  /\ faults' \in {faults, faults + 1}
         /\ \/ /\ \E c \in todo[d] :
                    /\ TakeItem(d, c) /\ deskPc[d] = "return"
                    /\ overdueFines' \in {overdueFines,
                         [overdueFines EXCEPT ![deskLoan[d]][c] = @ + 1]}
                    /\ deskPc'[d] = "item" /\ deskLoan'[d] = deskLoan[d]
                    /\ deskCopy'[d] = c
            \/ /\ overdueFines' = overdueFines
               /\ deskPc[d] = "item" =>
                    WriteReturned(d) \/ faults' = faults + 1
<1>1. ASSUME NEW c \in Copies, TakeItem(d, c)
      PROVE  /\ c \in todo[d] /\ deskPc[d] = "return" /\ faults' = faults
             /\ overdueFines' \in {overdueFines,
                  [overdueFines EXCEPT ![deskLoan[d]][c] = @ + 1]}
             /\ deskPc'[d] = "item" /\ deskLoan'[d] = deskLoan[d]
             /\ deskCopy'[d] = c
  BY <1>1 DEF TakeItem, DeskGoTo, fineVars, TypeOK
<1>2. CASE DeskFails(d)
  BY <1>2 DEF DeskFails, fineVars
<1>3. CASE WriteReturned(d)
  BY <1>3 DEF WriteReturned, fineVars
<1>4. ASSUME \/ \E l \in Loans :
                  \/ \E requested \in SUBSET Copies : StartReturn(d, l, requested)
                  \/ \E c \in Copies : StartRenew(d, l, c)
                  \/ \E c \in Copies, s \in {"LOST", "DAMAGED"} : StartMark(d, l, c, s)
             \/ Shelve(d) \/ RefreshItems(d) \/ WriteLoan(d) \/ WriteRenewed(d)
             \/ MarkItem(d) \/ MarkCopy(d) \/ MarkFine(d)
      PROVE  faults' = faults /\ overdueFines' = overdueFines /\ deskPc[d] # "item"
  BY <1>4 DEF StartReturn, StartRenew, StartMark, Begin, Shelve, RefreshItems,
              WriteLoan, WriteRenewed, MarkItem, MarkCopy, MarkFine, fineVars
<1> QED BY <1>1, <1>2, <1>3, <1>4 DEF DeskCall

\* An item that is back stays back.
LEMMA ReturnedStays ==
  ASSUME IInv, [Next]_vars, NEW l \in Loans, NEW c \in Copies,
         items[l][c].status = "RETURNED"
  PROVE  items'[l][c].status = "RETURNED"
<1> USE DEF IInv
<1>1. ASSUME NEW m \in Loans, Checkout(m) PROVE items'[l][c] = items[l][c]
  <2>1. ASSUME InsertItems(m), m = l PROVE FALSE
    BY <2>1 DEF InsertItems, NoItemsYet, Working
  <2> QED BY <1>1, <2>1, CheckoutFrame, CopyFrame DEF shelfVars
<1>2. ASSUME NEW d \in Desk, DeskCall(d) PROVE items'[l][c] = items[l][c]
  BY <1>2, DeskItemStep DEF Open
<1>3. CASE UNCHANGED items
  BY <1>3
<1> QED
  BY <1>1, <1>2, <1>3 DEF Next, LockExpires, SettleFine, Tick, shelfVars, vars

\* A failing desk call is the only step that leaves a fine without its return.
LEMMA FineStep == CarefulLibrary /\ IInv /\ FineInv /\ [Next]_vars => FineInv'
<1> SUFFICES ASSUME CarefulLibrary, IInv, FineInv, [Next]_vars,
                    NEW l \in Loans, NEW c \in Copies
             PROVE  /\ overdueFines'[l][c] <= 1 + faults'
                    /\ ~ Fined(l, c)' => overdueFines'[l][c] <= faults'
  BY DEF FineInv, Fined
<1>0. /\ TypeOK /\ overdueFines[l][c] \in Nat /\ faults \in Nat
      /\ overdueFines[l][c] <= 1 + faults
      /\ ~ Fined(l, c) => overdueFines[l][c] <= faults
  BY DEF IInv, TypeOK, FineInv
<1>1. ASSUME faults' \in {faults, faults + 1}, overdueFines' = overdueFines,
             Fined(l, c) => Fined(l, c)' \/ faults' = faults + 1
      PROVE  /\ overdueFines'[l][c] <= 1 + faults'
             /\ ~ Fined(l, c)' => overdueFines'[l][c] <= faults'
  BY <1>0, <1>1
<1>2. items[l][c].status = "RETURNED" => Fined(l, c)'
  BY ReturnedStays DEF Fined
<1>3. ASSUME NEW d \in Desk, DeskCall(d)
      PROVE  /\ overdueFines'[l][c] <= 1 + faults'
             /\ ~ Fined(l, c)' => overdueFines'[l][c] <= faults'
  <2> USE DEF IInv
  <2>1. \A e \in Desk \ {d} : SameCall(e)
    BY <1>3, DeskCallFrame
  <2>2. ASSUME NEW k \in todo[d], TakeItem(d, k), deskPc[d] = "return",
               overdueFines' \in {overdueFines,
                  [overdueFines EXCEPT ![deskLoan[d]][k] = @ + 1]},
               deskPc'[d] = "item", deskLoan'[d] = deskLoan[d], deskCopy'[d] = k
        PROVE  /\ overdueFines'[l][c] <= 1 + faults'
               /\ ~ Fined(l, c)' => overdueFines'[l][c] <= faults'
    <3>1. faults' = faults /\ k \in Copies /\ deskLoan[d] \in Loans
      BY <2>2 DEF TakeItem, DeskShape, TypeOK
    <3>2. CASE l = deskLoan[d] /\ c = k
      <4>1. Open(l, c)
        BY <2>2, <3>2 DEF DeskShape
      <4>2. ~ Fined(l, c)
        BY <2>2, <3>1, <3>2, <4>1, ModelAssumption DEF Fined, Open, OneCallPerLoan
      <4>3. overdueFines'[l][c] <= overdueFines[l][c] + 1
            /\ overdueFines'[l][c] \in Nat
        BY <1>0, <2>2, <3>1, <3>2 DEF TypeOK
      <4>4. Fined(l, c)'
        BY <2>2, <3>2 DEF Fined
      <4> QED BY <1>0, <3>1, <4>2, <4>3, <4>4
    <3>3. CASE ~ (l = deskLoan[d] /\ c = k)
      <4>1. overdueFines'[l][c] = overdueFines[l][c]
        BY <2>2, <3>1, <3>3 DEF TypeOK
      <4>2. Fined(l, c) => Fined(l, c)'
        BY <1>2, <2>1, <2>2 DEF Fined, SameCall
      <4> QED BY <1>0, <3>1, <4>1, <4>2
    <3> QED BY <3>2, <3>3
  <2>3. ASSUME overdueFines' = overdueFines,
               deskPc[d] = "item" => WriteReturned(d) \/ faults' = faults + 1,
               faults' \in {faults, faults + 1}
        PROVE  Fined(l, c) => Fined(l, c)' \/ faults' = faults + 1
    <3>1. ASSUME NEW e \in Desk, deskPc[e] = "item", deskLoan[e] = l,
                 deskCopy[e] = c, e # d
          PROVE  Fined(l, c)'
      BY <2>1, <3>1 DEF Fined, SameCall
    <3>2. ASSUME deskPc[d] = "item", deskLoan[d] = l, deskCopy[d] = c,
                 WriteReturned(d)
          PROVE  Fined(l, c)'
      <4>1. PICK doc \in ItemDoc : ReplaceItem(d, doc) /\ doc.status = "RETURNED"
        BY <3>2, ItemWrites
      <4>2. items'[l][c] = doc
        BY <3>2, <4>1 DEF ReplaceItem, TypeOK
      <4> QED BY <4>1, <4>2 DEF Fined
    <3> QED BY <1>2, <2>3, <3>1, <3>2 DEF Fined
  <2> QED BY <1>0, <1>1, <1>3, <2>2, <2>3, DeskFineStep
<1>4. ASSUME UNCHANGED <<overdueFines, deskVars>>, faults' \in {faults, faults + 1}
      PROVE  /\ overdueFines'[l][c] <= 1 + faults'
             /\ ~ Fined(l, c)' => overdueFines'[l][c] <= faults'
  <2>1. Fined(l, c) => Fined(l, c)'
    BY <1>2, <1>4 DEF Fined, deskVars
  <2> QED BY <1>1, <1>4, <2>1
<1>5. ASSUME NEW m \in Loans, Checkout(m)
      PROVE  UNCHANGED <<overdueFines, deskVars>> /\ faults' \in {faults, faults + 1}
  BY <1>5 DEF Checkout, Submit, CheckFines, CheckLimit, AcquireLock, LockTaken,
              ReadCopy, WriteCopy, InsertBorrowing, InsertItems, ReleaseLock, Answer,
              RequestFails, AcquireUnheard, ReleaseFails, RequestDies, fineVars, deskVars
<1> QED
  BY <1>3, <1>4, <1>5 DEF Next, LockExpires, SettleFine, Tick, vars, fineVars, deskVars

\* An item is fined for lateness once, and once more at most for every return
\* that failed between the fine and the item (BorrowingService.cs:173-246).
THEOREM OneOverdueFineHolds ==
  ASSUME CarefulLibrary
  PROVE  Spec => []OneOverdueFine
<1>1. Init => FineInv
  BY DEF Init, FineInv
<1>2. IInv /\ FineInv /\ [Next]_vars => FineInv'
  BY FineStep
<1>3. FineInv => OneOverdueFine
  BY DEF FineInv, OneOverdueFine
<1> QED BY <1>1, <1>2, <1>3, Invariance, PTL DEF Spec
-----------------------------------------------------------------------------
(***************************************************************************)
(* BORROWED copies are accounted for.                                      *)
(***************************************************************************)

\* The witnesses for a BORROWED copy: an item, a checkout, or a desk call.
OnItem(c) == \E l \in Loans : items[l][c].status = "BORROWED"
InCheckout(l, c) == pc[l] \in {"write", "insert", "items"} /\ Handling(l, c)
AtDesk(d, c) == deskPc[d] \in {"copy", "markCopy"} /\ deskCopy[d] = c

\* An insertion makes an item of every copy its request holds.
LEMMA InsertsHeld ==
  ASSUME IInv, NEW l \in Loans, InsertItems(l), NEW c \in Copies, Handling(l, c)
  PROVE  items'[l][c].status = "BORROWED"
<1> USE DEF IInv
<1>1. PICK i \in 1..held[l] : basket[l][i] = c
  BY DEF Handling
<1>2. pc[l] \in Working /\ held[l] = Len(basket[l]) /\ Len(basket[l]) \in Nat
  BY DEF InsertItems, Working, ReqShape, TypeOK
<1>3. \A j, k \in 1..held[l] : basket[l][j] = basket[l][k] => j = k
  BY <1>2, OnePosition
<1>4. c \in Inserted(l)
  BY <1>1, <1>2, <1>3 DEF Inserted
<1> QED BY <1>4 DEF InsertItems, TypeOK

\* A checkout that has found its copies free loses none of them without a
\* failure: it goes on, or it has inserted the items.
LEMMA CheckoutAccounts ==
  ASSUME IInv, NEW l \in Loans, Checkout(l), NEW c \in Copies, InCheckout(l, c)
  PROVE  InCheckout(l, c)' \/ items'[l][c].status = "BORROWED" \/ faults' # faults
<1> USE DEF IInv, InCheckout, GoTo
<1>0. /\ pc \in [Loans -> ReqPc] /\ at[l] \in Nat /\ held[l] \in Nat /\ faults \in Nat
  BY DEF TypeOK
<1>1. CASE WriteCopy(l)
  BY <1>0, <1>1 DEF WriteCopy, Advance, Handling, Working
<1>2. CASE InsertBorrowing(l)
  BY <1>0, <1>2 DEF InsertBorrowing, Handling, Working
<1>3. CASE InsertItems(l)
  BY <1>3, InsertsHeld
<1>4. CASE RequestFails(l) \/ RequestDies(l)
  BY <1>0, <1>4 DEF RequestFails, RequestDies
<1> QED
  BY <1>1, <1>2, <1>3, <1>4 DEF Checkout, Submit, CheckFines, CheckLimit, AcquireLock,
     LockTaken, ReadCopy, ReleaseLock, Answer, AcquireUnheard, ReleaseFails

LEMMA CheckoutAccounted ==
  ASSUME IInv, NEW l \in Loans, Checkout(l), BorrowedAccounted
  PROVE  BorrowedAccounted'
<1> USE DEF IInv
<1>1. faults \in Nat /\ faults' \in {faults, faults + 1}
  BY DEF TypeOK, Checkout, Submit, CheckFines, CheckLimit, AcquireLock, LockTaken,
         ReadCopy, WriteCopy, InsertBorrowing, InsertItems, ReleaseLock, Answer,
         RequestFails, AcquireUnheard, ReleaseFails, RequestDies
<1>2. SUFFICES ASSUME faults' = 0, NEW c \in Copies, copyStatus'[c] = "BORROWED"
               PROVE  \/ OnItem(c)'
                      \/ \E m \in Loans : InCheckout(m, c)'
                      \/ \E d \in Desk : AtDesk(d, c)'
  BY DEF BorrowedAccounted, OnItem, InCheckout, AtDesk
<1>3. faults = 0 /\ faults' = faults
  BY <1>1, <1>2
<1>4. CASE copyStatus[c] # "BORROWED"
  <2>1. WriteCopy(l)
    BY <1>2, <1>4, CopyFrame DEF shelfVars
  <2>2. c = Target(l)
    BY <1>2, <1>4, <2>1 DEF WriteCopy, TypeOK
  <2>3. at[l] \in 1..held[l] /\ basket[l][at[l]] = c
    BY <2>1, <2>2, OwnTarget DEF WriteCopy
  <2>4. InCheckout(l, c)'
    BY <2>1, <2>3 DEF WriteCopy, Advance, GoTo, InCheckout, Handling, Working, TypeOK
  <2> QED BY <2>4
<1>5. CASE copyStatus[c] = "BORROWED"
  <2>1. ASSUME NEW m \in Loans, items[m][c].status = "BORROWED"
        PROVE  items'[m][c] = items[m][c]
    <3>1. ASSUME InsertItems(l), m = l PROVE FALSE
      BY <2>1, <3>1 DEF InsertItems, NoItemsYet, Working
    <3> QED BY <3>1, CheckoutFrame, CopyFrame DEF shelfVars
  <2>2. OnItem(c) => OnItem(c)'
    BY <2>1 DEF OnItem
  <2>3. ASSUME NEW m \in Loans, InCheckout(m, c)
        PROVE  InCheckout(m, c)' \/ OnItem(c)'
    <3>1. CASE m = l
      BY <1>3, <2>3, <3>1, CheckoutAccounts DEF OnItem
    <3>2. CASE m # l
      BY <2>3, <3>2, CheckoutFrame DEF InCheckout, Handling, SameReq
    <3> QED BY <3>1, <3>2
  <2>4. \A d \in Desk : AtDesk(d, c)' <=> AtDesk(d, c)
    BY CheckoutFrame DEF AtDesk, deskVars
  <2>5. OnItem(c) \/ (\E m \in Loans : InCheckout(m, c)) \/ \E d \in Desk : AtDesk(d, c)
    BY <1>3, <1>5 DEF BorrowedAccounted, OnItem, InCheckout, AtDesk
  <2> QED BY <2>2, <2>3, <2>4, <2>5
<1> QED BY <1>4, <1>5

\* A desk call takes over the copy from the item it closes, and keeps it until
\* the copy is no longer BORROWED.
LEMMA DeskAccounts ==
  ASSUME TypeOK, NEW d \in Desk, DeskCall(d), faults' = faults
  PROVE  /\ WriteReturned(d) \/ MarkItem(d) =>
              /\ deskPc'[d] \in {"copy", "markCopy"}
              /\ deskCopy'[d] = deskCopy[d]
         /\ deskPc[d] \in {"copy", "markCopy"} =>
              Shelve(d) \/ MarkCopy(d)
<1>1. /\ WriteReturned(d) => deskPc[d] = "item" /\ deskPc'[d] = "copy"
                             /\ deskCopy'[d] = deskCopy[d]
      /\ MarkItem(d) => deskPc[d] = "markItem" /\ deskPc'[d] = "markCopy"
                        /\ deskCopy'[d] = deskCopy[d]
  BY DEF WriteReturned, MarkItem, DeskGoTo, TypeOK
<1>2. ~ DeskFails(d)
  BY DEF DeskFails, TypeOK
<1>3. ASSUME deskPc[d] \in {"copy", "markCopy"} PROVE Shelve(d) \/ MarkCopy(d)
  BY <1>1, <1>2, <1>3 DEF DeskCall, StartReturn, StartRenew, StartMark, Begin, TakeItem,
     RefreshItems, WriteLoan, WriteRenewed, MarkFine
<1> QED BY <1>1, <1>3

LEMMA DeskAccounted ==
  ASSUME IInv, NEW d \in Desk, DeskCall(d), BorrowedAccounted
  PROVE  BorrowedAccounted'
<1> USE DEF IInv
<1>1. faults \in Nat /\ faults' \in {faults, faults + 1}
  BY DeskFineStep DEF TypeOK
<1>2. SUFFICES ASSUME faults' = 0, NEW c \in Copies, copyStatus'[c] = "BORROWED"
               PROVE  \/ OnItem(c)'
                      \/ \E m \in Loans : InCheckout(m, c)'
                      \/ \E e \in Desk : AtDesk(e, c)'
  BY DEF BorrowedAccounted, OnItem, InCheckout, AtDesk
<1>3. faults = 0 /\ faults' = faults
  BY <1>1, <1>2
<1>4. /\ Shelve(d) => copyStatus' = [copyStatus EXCEPT ![deskCopy[d]] = "AVAILABLE"]
      /\ MarkCopy(d) => copyStatus' = [copyStatus EXCEPT ![deskCopy[d]] = mark[d]]
  BY DEF Shelve, MarkCopy
<1>5. copyStatus[c] = "BORROWED" /\ (Shelve(d) \/ MarkCopy(d) => deskCopy[d] # c)
  <2>1. mark[d] # "BORROWED"
    BY DEF TypeOK
  <2>2. Shelve(d) \/ MarkCopy(d) => deskCopy[d] # c
    BY <1>2, <1>4, <2>1 DEF TypeOK
  <2> QED BY <1>2, <2>2, DeskCopyStep
<1>6. ASSUME NEW m \in Loans, items[m][c].status = "BORROWED"
      PROVE  OnItem(c)' \/ AtDesk(d, c)'
  <2>1. CASE items'[m][c].status = "BORROWED"
    BY <2>1 DEF OnItem
  <2>2. CASE items'[m][c].status # "BORROWED"
    <3>1. c = deskCopy[d] /\ (WriteReturned(d) \/ MarkItem(d))
      BY <1>6, <2>2, DeskItemStep
    <3> QED BY <1>3, <3>1, DeskAccounts DEF AtDesk
  <2> QED BY <2>1, <2>2
<1>7. \A m \in Loans : InCheckout(m, c)' <=> InCheckout(m, c)
  BY DeskCallFrame DEF reqVars, InCheckout, Handling
<1>8. ASSUME NEW e \in Desk, AtDesk(e, c) PROVE AtDesk(e, c)'
  <2>1. e # d
    BY <1>3, <1>5, <1>8, DeskAccounts DEF AtDesk
  <2> QED BY <1>8, <2>1, DeskCallFrame DEF SameCall, AtDesk
<1>9. OnItem(c) \/ (\E m \in Loans : InCheckout(m, c)) \/ \E e \in Desk : AtDesk(e, c)
  BY <1>3, <1>5 DEF BorrowedAccounted, OnItem, InCheckout, AtDesk
<1> QED BY <1>6, <1>7, <1>8, <1>9 DEF OnItem

\* As long as nothing failed no copy is stranded as BORROWED, however checkouts
\* and desk calls interleave (BorrowingService.cs:40-338).
THEOREM BorrowedAccountedHolds ==
  ASSUME CarefulLibrary
  PROVE  Spec => []BorrowedAccounted
<1>1. Init => BorrowedAccounted
  BY DEF Init, BorrowedAccounted
<1>2. IInv /\ BorrowedAccounted /\ [Next]_vars => BorrowedAccounted'
  <2> SUFFICES ASSUME IInv, BorrowedAccounted, [Next]_vars PROVE BorrowedAccounted'
    OBVIOUS
  <2>1. CASE UNCHANGED <<shelfVars, reqVars, deskVars, faults>>
    BY <2>1 DEF BorrowedAccounted, Handling, shelfVars, reqVars, deskVars
  <2> QED
    BY <2>1, CheckoutAccounted, DeskAccounted
       DEF Next, LockExpires, SettleFine, Tick, vars, shelfVars, reqVars, deskVars
<1> QED BY <1>1, <1>2, Invariance, PTL DEF Spec
-----------------------------------------------------------------------------
(***************************************************************************)
(* Loans are closed when their items are back.                             *)
(***************************************************************************)

\* A checkout gives its loan a status once, before the items.
LEMMA CheckoutLoan ==
  ASSUME TypeOK, NEW l \in Loans, Checkout(l)
  PROVE  /\ faults' \in {faults, faults + 1}
         /\ \/ loanStatus' = loanStatus /\ pc'[l] # "items"
            \/ /\ InsertBorrowing(l) /\ pc[l] = "insert"
               /\ loanStatus' = [loanStatus EXCEPT ![l] = "OPEN"]
<1>1. CASE InsertBorrowing(l)
  BY <1>1 DEF InsertBorrowing
<1>2. CASE ~ InsertBorrowing(l)
  BY <1>2 DEF TypeOK, GoTo, Leave, End, Advance, Checkout, Submit, CheckFines,
     CheckLimit, AcquireLock, LockTaken, ReadCopy, WriteCopy, InsertItems, ReleaseLock,
     Answer, RequestFails, AcquireUnheard, ReleaseFails, RequestDies
<1> QED BY <1>1, <1>2

\* Inserted items are BORROWED, and were not there before.
LEMMA InsertsBorrowed ==
  ASSUME TypeOK, NEW l \in Loans, InsertItems(l), NoItemsYet(l)
  PROVE  /\ pc[l] = "items" /\ loanStatus' = loanStatus
         /\ \A c \in Copies : /\ items[l][c].status = "NONE"
                              /\ items'[l][c].status \in {"NONE", "BORROWED"}
  BY DEF InsertItems, NoItemsYet, Working, NoItem, TypeOK

LEMMA CheckoutCloses ==
  ASSUME IInv, CloseInv, NEW l \in Loans, Checkout(l)
  PROVE  CloseInv'
<1> USE DEF IInv
<1>1. UNCHANGED deskVars /\ (InsertItems(l) \/ UNCHANGED items)
  BY CheckoutFrame, CopyFrame DEF shelfVars
<1>2. \A m \in Loans \ {l} : SameReq(m) /\ items'[m] = items[m]
  BY CheckoutFrame
<1>3. \A m \in Loans : /\ loanStatus'[m] # loanStatus[m] =>
                            m = l /\ pc[l] = "insert" /\ loanStatus'[m] = "OPEN"
                       /\ m # l => loanStatus'[m] = loanStatus[m]
  BY CheckoutLoan DEF TypeOK
<1>4. /\ pc'[l] = "items" => pc[l] = "insert" /\ loanStatus'[l] = "OPEN"
      /\ InsertItems(l) => pc[l] = "items" /\ loanStatus[l] = "OPEN"
                           /\ loanStatus'[l] = "OPEN"
  <2>1. pc'[l] = "items" => pc[l] = "insert" /\ loanStatus'[l] = "OPEN"
    BY CheckoutLoan DEF TypeOK
  <2>2. ASSUME InsertItems(l)
        PROVE  /\ pc[l] = "items" /\ loanStatus[l] = "OPEN"
               /\ loanStatus'[l] = loanStatus[l]
    BY <2>2, InsertsBorrowed DEF CloseInv, LoanBegins
  <2> QED BY <2>1, <2>2
<1>5. Unfinished(l)' => Unfinished(l)
  BY PcStep DEF Unfinished
<1>6. ASSUME NEW m \in Loans PROVE LoanBegins(m)'
  <2>1. CASE m # l
    BY <1>1, <1>2, <1>3, <2>1 DEF CloseInv, LoanBegins, Unfinished, SameReq, deskVars
  <2>2. CASE m = l
    BY <1>1, <1>3, <1>4, <1>5, <2>2 DEF CloseInv, LoanBegins, deskVars
  <2> QED BY <2>1, <2>2
<1>7. ASSUME NEW d \in Desk, deskPc[d] \in {"close", "markFine"}
      PROVE  deskLoan[d] \in Loans /\ items'[deskLoan[d]] = items[deskLoan[d]]
  <2>1. deskLoan[d] \in Loans
    BY <1>7 DEF DeskShape, TypeOK
  <2>2. InsertItems(l) => deskLoan[d] # l
    BY <1>4 DEF CloseInv, LoanBegins, Unfinished, Working
  <2> QED BY <1>1, <1>2, <2>1, <2>2
<1>8. \A d \in Desk : CallCloses(d)'
  BY <1>1, <1>7 DEF CloseInv, CallCloses, GivenBack, deskVars
<1>9. ASSUME NEW m \in Loans
      PROVE  /\ loanStatus'[m] = "RETURNED" =>
                  loanStatus[m] = "RETURNED" /\ items'[m] = items[m]
             /\ \/ items'[m] = items[m] /\ loanStatus'[m] = loanStatus[m]
                \/ \A c \in Copies : items'[m][c].status # "RETURNED"
  <2>1. CASE m # l
    BY <1>2, <1>3, <2>1
  <2>2. CASE m = l /\ InsertItems(l)
    BY <1>3, <1>4, <2>2, InsertsBorrowed
  <2>3. CASE m = l /\ ~ InsertItems(l)
    <3>1. items' = items
      BY <1>1, <2>3
    <3>2. CASE loanStatus'[l] = loanStatus[l]
      BY <2>3, <3>1, <3>2
    <3>3. CASE loanStatus'[l] # loanStatus[l]
      <4>1. pc[l] = "insert" /\ loanStatus'[l] = "OPEN"
        BY <1>3, <3>3
      <4>2. \A c \in Copies : items[l][c].status = "NONE"
        BY <4>1 DEF NoItemsYet, Working
      <4> QED BY <2>3, <3>1, <4>1, <4>2
    <3> QED BY <3>2, <3>3
  <2> QED BY <2>1, <2>2, <2>3
<1>10. faults' = 0 => faults = 0
  BY CheckoutLoan DEF TypeOK
<1>11. LoanClosedWhenBack'
  <2>1. \A d \in Desk : deskLoan'[d] = deskLoan[d]
    BY <1>1 DEF deskVars
  <2> QED BY <1>9, <1>10, <2>1 DEF CloseInv, LoanClosedWhenBack
<1> QED BY <1>6, <1>8, <1>11 DEF CloseInv

\* What a desk call does to the status of loans and to its own hold on one.
LEMMA DeskLoanStep ==
  ASSUME TypeOK, NEW d \in Desk, DeskCall(d)
  PROVE  /\ \A e \in Desk \ {d} : verdict'[e] = verdict[e]
         /\ \/ loanStatus' = loanStatus
            \/ /\ WriteLoan(d) /\ deskPc[d] = "close"
               /\ loanStatus' = [loanStatus EXCEPT ![deskLoan[d]] = verdict[d]]
         /\ deskPc'[d] = "close" => RefreshItems(d)
         /\ deskPc'[d] = "markFine" => MarkCopy(d)
         /\ \/ deskLoan'[d] = deskLoan[d]
            \/ /\ deskLoan'[d] = None
               /\ WriteLoan(d) \/ WriteRenewed(d) \/ MarkFine(d) \/ DeskFails(d)
            \/ /\ items' = items /\ loanStatus' = loanStatus /\ deskPc[d] = "idle"
               /\ deskLoan'[d] \in Loans
               /\ \E c \in Copies : items[deskLoan'[d]][c].status # "NONE"
<1> USE DEF TypeOK, DeskGoTo, Finish, Begin
<1>1. ASSUME NEW l \in Loans, NEW requested \in SUBSET Copies,
             StartReturn(d, l, requested)
      PROVE  /\ verdict' = verdict /\ UNCHANGED <<items, loanStatus>>
             /\ deskPc[d] = "idle" /\ deskPc'[d] = "return" /\ deskLoan'[d] = l
             /\ \E c \in Copies : items[l][c].status # "NONE"
  BY <1>1 DEF StartReturn, shelfVars
<1>2. ASSUME NEW l \in Loans, NEW c \in Copies, StartRenew(d, l, c)
      PROVE  /\ verdict' = verdict /\ UNCHANGED <<items, loanStatus>>
             /\ deskPc[d] = "idle" /\ deskPc'[d] = "renew" /\ deskLoan'[d] = l
             /\ \E k \in Copies : items[l][k].status # "NONE"
  BY <1>2 DEF StartRenew, shelfVars
<1>3. ASSUME NEW l \in Loans, NEW c \in Copies, NEW s \in {"LOST", "DAMAGED"},
             StartMark(d, l, c, s)
      PROVE  /\ verdict' = verdict /\ UNCHANGED <<items, loanStatus>>
             /\ deskPc[d] = "idle" /\ deskPc'[d] = "markItem" /\ deskLoan'[d] = l
             /\ \E k \in Copies : items[l][k].status # "NONE"
  BY <1>3 DEF StartMark, shelfVars
<1>4. ASSUME \/ \E c \in Copies : TakeItem(d, c)
             \/ WriteReturned(d) \/ Shelve(d) \/ MarkItem(d)
      PROVE  /\ UNCHANGED <<verdict, loanStatus, deskLoan>>
             /\ deskPc'[d] \in {"item", "copy", "return", "markCopy"}
  BY <1>4 DEF TakeItem, WriteReturned, Shelve, MarkItem
<1>5. CASE RefreshItems(d)
  BY <1>5 DEF RefreshItems
<1>6. CASE MarkCopy(d)
  BY <1>6 DEF MarkCopy
<1>7. ASSUME WriteLoan(d)
      PROVE  /\ \A e \in Desk \ {d} : verdict'[e] = verdict[e]
             /\ deskPc'[d] = "idle" /\ deskLoan'[d] = None /\ deskPc[d] = "close"
             /\ loanStatus' = [loanStatus EXCEPT ![deskLoan[d]] = verdict[d]]
  BY <1>7 DEF WriteLoan
<1>8. ASSUME WriteRenewed(d) \/ MarkFine(d) \/ DeskFails(d)
      PROVE  /\ \A e \in Desk \ {d} : verdict'[e] = verdict[e]
             /\ deskPc'[d] = "idle" /\ deskLoan'[d] = None /\ loanStatus' = loanStatus
  BY <1>8 DEF WriteRenewed, MarkFine, DeskFails
<1> HIDE DEF TypeOK, DeskGoTo, Finish, Begin
<1>9. CASE \/ \E c \in Copies : TakeItem(d, c)
           \/ WriteReturned(d) \/ Shelve(d) \/ MarkItem(d)
  BY <1>4, <1>9
<1>10. CASE WriteLoan(d)
  BY <1>7, <1>10
<1>11. CASE WriteRenewed(d) \/ MarkFine(d) \/ DeskFails(d)
  BY <1>8, <1>11
<1>12. CASE \E l \in Loans, requested \in SUBSET Copies : StartReturn(d, l, requested)
  BY <1>1, <1>12
<1>13. CASE \E l \in Loans, c \in Copies : StartRenew(d, l, c)
  BY <1>2, <1>13
<1>14. CASE \E l \in Loans, c \in Copies, s \in {"LOST", "DAMAGED"} : StartMark(d, l, c, s)
  BY <1>3, <1>14
<1> QED
  BY <1>5, <1>6, <1>9, <1>10, <1>11, <1>12, <1>13, <1>14 DEF DeskCall

\* A desk call works on one loan, which no other call is on: the loans of the
\* others and their items stay.
LEMMA DeskOtherLoans ==
  ASSUME IInv, NEW d \in Desk, DeskCall(d), NEW m \in Loans, m # deskLoan[d]
  PROVE  /\ \A c \in Copies : items'[m][c] = items[m][c]
         /\ loanStatus'[m] = loanStatus[m]
<1>1. TypeOK /\ DeskShape(d)
  BY DEF IInv
<1>2. \A c \in Copies : items'[m][c] = items[m][c]
  BY <1>1, DeskItemStep
<1>3. loanStatus'[m] = loanStatus[m]
  BY <1>1, DeskLoanStep DEF TypeOK
<1> QED BY <1>2, <1>3

LEMMA DeskBegins ==
  ASSUME IInv, CloseInv, NEW d \in Desk, DeskCall(d), NEW m \in Loans
  PROVE  LoanBegins(m)'
<1> USE DEF IInv
<1>1. pc'[m] = pc[m] /\ \A e \in Desk \ {d} : deskLoan'[e] = deskLoan[e]
  BY DeskCallFrame DEF reqVars, SameCall
<1>2. ASSUME Unfinished(m) PROVE deskLoan'[d] # m /\ loanStatus'[m] = loanStatus[m]
  <2>1. deskLoan[d] # m /\ \A c \in Copies : items[m][c].status = "NONE"
    BY <1>2 DEF CloseInv, LoanBegins, Unfinished, NoItemsYet
  <2> QED BY <2>1, DeskLoanStep, DeskOtherLoans, ModelAssumption
<1>3. ASSUME NEW c \in Copies, items'[m][c].status # "NONE"
      PROVE  loanStatus'[m] # "NONE"
  <2>1. items[m][c].status # "NONE"
    BY <1>3, DeskItemStep DEF Open
  <2>2. loanStatus[m] # "NONE"
    BY <2>1 DEF CloseInv, LoanBegins
  <2> QED BY <2>2, DeskLoanStep DEF CloseInv, CallCloses, TypeOK
<1> QED BY <1>1, <1>2, <1>3 DEF CloseInv, LoanBegins, Unfinished, Working

LEMMA DeskCloses ==
  ASSUME IInv, CloseInv, NEW d \in Desk, DeskCall(d), NEW e \in Desk
  PROVE  CallCloses(e)'
<1> USE DEF IInv
<1>1. CASE e # d
  <2>1. SameCall(e) /\ verdict'[e] = verdict[e]
    BY <1>1, DeskCallFrame, DeskLoanStep
  <2>2. ASSUME deskPc[e] \in {"close", "markFine"}
        PROVE  /\ deskLoan[e] \in Loans
               /\ \A c \in Copies : items'[deskLoan[e]][c] = items[deskLoan[e]][c]
    <3>1. deskLoan[e] \in Loans
      BY <2>2 DEF DeskShape, TypeOK
    <3>2. deskLoan[e] # deskLoan[d]
      BY <1>1, <3>1, ModelAssumption DEF OneCallPerLoan
    <3> QED BY <3>1, <3>2, DeskOtherLoans
  <2> QED BY <2>1, <2>2 DEF CloseInv, CallCloses, SameCall, GivenBack
<1>2. CASE e = d
  <2>1. ASSUME deskPc'[d] = "close"
        PROVE  /\ verdict'[d] \in {"RETURNED", "PARTIALLY_RETURNED"}
               /\ verdict'[d] = "RETURNED" <=> GivenBack(deskLoan[d])'
    <3>1. RefreshItems(d)
      BY <2>1, DeskLoanStep
    <3>2. /\ items' = items /\ deskLoan' = deskLoan
          /\ verdict'[d] = IF \A c \in Copies :
                 items[deskLoan[d]][c].status \in {"NONE", "RETURNED", "LOST"}
               THEN "RETURNED" ELSE "PARTIALLY_RETURNED"
      BY <3>1 DEF RefreshItems, shelfVars, TypeOK
    <3> QED BY <3>2 DEF GivenBack
  <2>2. ASSUME deskPc'[d] = "markFine"
        PROVE  /\ deskCopy'[d] \in Copies
               /\ items'[deskLoan'[d]][deskCopy'[d]].status = mark'[d]
    <3>1. MarkCopy(d)
      BY <2>2, DeskLoanStep
    <3> QED BY <3>1 DEF MarkCopy, DeskShape
  <2> QED BY <1>2, <2>1, <2>2 DEF CallCloses, GivenBack
<1> QED BY <1>1, <1>2

LEMMA DeskClosed ==
  ASSUME IInv, CloseInv, NEW d \in Desk, DeskCall(d)
  PROVE  LoanClosedWhenBack'
<1> USE DEF IInv
<1>1. ASSUME NEW m \in Loans, loanStatus'[m] = "RETURNED"
      PROVE  GivenBack(m)'
  <2>1. GivenBack(m)
    <3>1. CASE loanStatus[m] = "RETURNED"
      BY <3>1 DEF CloseInv, LoanClosedWhenBack, GivenBack
    <3>2. CASE loanStatus[m] # "RETURNED"
      <4>1. /\ deskPc[d] = "close"
            /\ loanStatus' = [loanStatus EXCEPT ![deskLoan[d]] = verdict[d]]
        BY <1>1, <3>2, DeskLoanStep
      <4>2. m = deskLoan[d] /\ verdict[d] = "RETURNED"
        BY <1>1, <3>2, <4>1 DEF TypeOK
      <4> QED BY <4>1, <4>2 DEF CloseInv, CallCloses
    <3> QED BY <3>1, <3>2
  <2> QED BY <2>1, DeskItemStep DEF GivenBack
<1>2. ASSUME NEW m \in Loans, faults' = 0, \A e \in Desk : deskLoan'[e] # m,
             \E c \in Copies : items'[m][c].status = "RETURNED",
             \A c \in Copies : items'[m][c].status \in {"NONE", "RETURNED"}
      PROVE  loanStatus'[m] = "RETURNED"
  <2>1. faults = 0 /\ ~ DeskFails(d)
    BY <1>2, DeskFineStep DEF TypeOK, DeskFails
  <2>2. CASE deskLoan[d] # m
    <3>1. \A c \in Copies : items'[m][c] = items[m][c]
      BY <2>2, DeskOtherLoans
    <3>2. \A e \in Desk : deskLoan[e] # m
      BY <1>2, <2>2, DeskCallFrame DEF SameCall
    <3> QED BY <1>2, <2>1, <2>2, <3>1, <3>2, DeskOtherLoans
            DEF CloseInv, LoanClosedWhenBack
  <2>3. CASE deskLoan[d] = m
    <3>1. WriteLoan(d) \/ WriteRenewed(d) \/ MarkFine(d)
      BY <1>2, <2>1, <2>3, DeskLoanStep, ModelAssumption DEF DeskShape
    <3>2. CASE WriteLoan(d)
      <4>1. /\ items' = items /\ deskPc[d] = "close"
            /\ loanStatus' = [loanStatus EXCEPT ![m] = verdict[d]]
        BY <2>3, <3>2 DEF WriteLoan, shelfVars
      <4>2. GivenBack(m)
        BY <1>2, <4>1 DEF GivenBack
      <4> QED BY <2>3, <4>1, <4>2 DEF CloseInv, CallCloses, TypeOK
    <3>3. CASE WriteRenewed(d)
      <4>1. PICK doc \in ItemDoc : ReplaceItem(d, doc) /\ doc.status = "BORROWED"
        BY <3>3, ItemWrites
      <4>2. deskCopy[d] \in Copies
        BY <3>3 DEF WriteRenewed, DeskShape
      <4>3. items'[m][deskCopy[d]] = doc
        BY <2>3, <4>1, <4>2 DEF ReplaceItem, TypeOK
      <4> QED BY <1>2, <4>1, <4>2, <4>3
    <3>4. CASE MarkFine(d)
      BY <1>2, <2>3, <3>4 DEF MarkFine, shelfVars, CloseInv, CallCloses, TypeOK
    <3> QED BY <3>1, <3>2, <3>3, <3>4
  <2> QED BY <2>2, <2>3
<1> QED BY <1>1, <1>2 DEF LoanClosedWhenBack, GivenBack

LEMMA CloseStep == IInv /\ CloseInv /\ [Next]_vars => CloseInv'
<1> SUFFICES ASSUME IInv, CloseInv, [Next]_vars PROVE CloseInv'
  OBVIOUS
<1>1. ASSUME NEW d \in Desk, DeskCall(d) PROVE CloseInv'
  BY <1>1, DeskBegins, DeskCloses, DeskClosed DEF CloseInv
<1>2. CASE UNCHANGED <<items, loanStatus, faults, pc, deskVars>>
  BY <1>2 DEF CloseInv, LoanBegins, Unfinished, CallCloses, GivenBack,
              LoanClosedWhenBack, deskVars
<1> QED
  BY <1>1, <1>2, CheckoutCloses
     DEF Next, LockExpires, SettleFine, Tick, vars, shelfVars, reqVars, deskVars

LEMMA CloseInvariance ==
  ASSUME CarefulLibrary
  PROVE  Spec => [](IInv /\ CloseInv)
<1>1. Init => CloseInv
  <2> SUFFICES ASSUME Init PROVE CloseInv
    OBVIOUS
  <2>1. /\ \A d \in Desk : deskPc[d] = "idle" /\ deskLoan[d] = None
        /\ \A l \in Loans : /\ pc[l] = "idle" /\ loanStatus[l] = "NONE"
                            /\ \A c \in Copies : items[l][c].status = "NONE"
    BY DEF Init, NoItem
  <2> QED BY <2>1, ModelAssumption
          DEF CloseInv, LoanBegins, CallCloses, LoanClosedWhenBack
<1>2. IInv /\ CloseInv /\ [Next]_vars => CloseInv'
  BY CloseStep
<1> QED BY <1>1, <1>2, Invariance, PTL DEF Spec

\* The status of a loan agrees with its items: what is closed has nothing out,
\* and without failures what is all back is closed (BorrowingService.cs:173-246).
THEOREM LoanClosedWhenBackHolds ==
  ASSUME CarefulLibrary
  PROVE  Spec => []LoanClosedWhenBack
<1>1. CloseInv => LoanClosedWhenBack
  BY DEF CloseInv
<1> QED BY <1>1, CloseInvariance, PTL
-----------------------------------------------------------------------------
(***************************************************************************)
(* The limit on what a member has in hand.                                 *)
(***************************************************************************)

\* The count of the check misses nothing: what is BORROWED is on a loan that
\* is not closed.
LEMMA InHandIsActive ==
  ASSUME TypeOK, CloseInv, NEW u \in Users
  PROVE  InHand(u) = ActiveItems(u)
<1>1. ASSUME NEW l \in Loans, NEW c \in Copies, items[l][c].status = "BORROWED"
      PROVE  loanStatus[l] \in {"OPEN", "PARTIALLY_RETURNED"}
  <2>1. loanStatus[l] # "NONE"
    BY <1>1 DEF CloseInv, LoanBegins
  <2>2. loanStatus[l] # "RETURNED"
    BY <1>1 DEF CloseInv, LoanClosedWhenBack
  <2> QED BY <2>1, <2>2 DEF TypeOK, LoanStatus
<1> QED BY <1>1 DEF InHand, ActiveItems

\* A request inserts no more items than its basket is long.
LEMMA InsertedCount ==
  ASSUME NEW l \in Loans, basket[l] \in Seq(Copies)
  PROVE  /\ IsFiniteSet({<<l, c>> : c \in Inserted(l)})
         /\ Cardinality({<<l, c>> : c \in Inserted(l)}) \in Nat
         /\ Cardinality({<<l, c>> : c \in Inserted(l)}) <= Len(basket[l])
<1> DEFINE n == Len(basket[l])
           Firsts == {i \in 1..n : \A j, k \in 1..i : basket[l][j] = basket[l][k] => j = k}
           New == {<<l, c>> : c \in Inserted(l)}
           f == [i \in Firsts |-> <<l, basket[l][i]>>]
<1>1. n \in Nat /\ Firsts \in SUBSET (1..n)
  OBVIOUS
<1>2. IsFiniteSet(1..n) /\ Cardinality(1..n) = n
  BY <1>1, FS_Interval
<1>3. IsFiniteSet(Firsts) /\ Cardinality(Firsts) <= n
  BY <1>1, <1>2, FS_Subset
<1>4. f \in Surjection(Firsts, New)
  BY DEF Inserted, Surjection
<1>5. IsFiniteSet(New) /\ Cardinality(New) <= Cardinality(Firsts)
  BY <1>3, <1>4, FS_Surjection
<1>6. Cardinality(New) \in Nat /\ Cardinality(Firsts) \in Nat
  BY <1>3, <1>5, FS_CardinalityType
<1> HIDE DEF n, Firsts, New
<1>7. Cardinality(New) <= n
  BY <1>1, <1>3, <1>5, <1>6
<1> QED BY <1>5, <1>6, <1>7 DEF New, n

\* What a checkout step does to what members have in hand.
LEMMA CheckoutInHand ==
  ASSUME IInv, NEW l \in Loans, Checkout(l), NEW u \in Users
  PROVE  \/ InHand(u)' = InHand(u)
         \/ /\ InsertItems(l) /\ u = Borrower[l]
            /\ InHand(u)' \subseteq InHand(u) \cup {<<l, c>> : c \in Inserted(l)}
<1> USE DEF IInv
<1>1. CASE ~ InsertItems(l)
  BY <1>1, CopyFrame DEF shelfVars, InHand
<1>2. CASE InsertItems(l)
  <2>1. \A m \in Loans, c \in Copies :
          items'[m][c].status = "BORROWED" =>
            \/ m # l /\ items[m][c].status = "BORROWED"
            \/ m = l /\ c \in Inserted(l)
    BY <1>2 DEF InsertItems, NoItem, TypeOK
  <2>2. \A m \in Loans \ {l} : items'[m] = items[m]
    BY CheckoutFrame
  <2>3. \A c \in Copies : items[l][c].status = "NONE"
    BY <1>2 DEF InsertItems, NoItemsYet, Working
  <2>4. CASE u = Borrower[l]
    BY <1>2, <2>1, <2>4 DEF InHand
  <2>5. CASE u # Borrower[l]
    BY <2>2, <2>5 DEF InHand
  <2> QED BY <2>4, <2>5
<1> QED BY <1>1, <1>2

\* A request is working because it was, or because its count was within the
\* limit; it has not raced only if no other request of the member was working.
LEMMA WorkingStep ==
  ASSUME TypeOK, NEW l \in Loans, Checkout(l), pc'[l] \in Working
  PROVE  /\ basket'[l] = basket[l] /\ ~ InsertItems(l)
         /\ \/ pc[l] \in Working
            \/ /\ Cardinality(ActiveItems(Borrower[l])) + Len(basket[l]) <= MaxActiveItems
               /\ l \notin raced' => ~ Racing(l)
<1> USE DEF TypeOK, GoTo, Leave, End, Advance, Working, Ended
<1>1. CASE CheckLimit(l) BY <1>1 DEF CheckLimit, InsertItems
<1>2. CASE AcquireLock(l) BY <1>2 DEF AcquireLock, InsertItems
<1>3. CASE ReadCopy(l) BY <1>3 DEF ReadCopy, InsertItems
<1>4. CASE WriteCopy(l) BY <1>4 DEF WriteCopy, InsertItems
<1>5. CASE InsertBorrowing(l) BY <1>5 DEF InsertBorrowing, InsertItems
<1>6. ASSUME NEW copyIds \in Baskets, Submit(l, copyIds) PROVE FALSE
  BY <1>6 DEF Submit
<1>7. ~ CheckFines(l) /\ ~ LockTaken(l) /\ ~ InsertItems(l)
  BY DEF CheckFines, LockTaken, InsertItems
<1>8. ~ ReleaseLock(l) /\ ~ ReleaseFails(l) /\ ~ Answer(l)
  BY DEF ReleaseLock, ReleaseFails, Answer
<1>9. ~ RequestFails(l) /\ ~ AcquireUnheard(l) /\ ~ RequestDies(l)
  BY DEF RequestFails, AcquireUnheard, RequestDies
<1> QED BY <1>1, <1>2, <1>3, <1>4, <1>5, <1>6, <1>7, <1>8, <1>9 DEF Checkout

\* The history of races only grows, and by a request without items.
LEMMA RacedStep ==
  ASSUME IInv, NEW l \in Loans, Checkout(l)
  PROVE  /\ raced \subseteq raced'
         /\ \A m \in raced' \ raced : m = l
<1>1. CASE CheckLimit(l)
  BY <1>1 DEF CheckLimit
<1>2. CASE ~ CheckLimit(l)
  BY <1>2 DEF Checkout, Submit, CheckFines, AcquireLock, LockTaken, ReadCopy,
     WriteCopy, InsertBorrowing, InsertItems, ReleaseLock, Answer, RequestFails,
     AcquireUnheard, ReleaseFails, RequestDies
<1> QED BY <1>1, <1>2

\* What a checkout step does to what is counted of a member.
LEMMA CheckoutCounted ==
  ASSUME IInv, NEW l \in Loans, Checkout(l), NEW u \in Users
  PROVE  \/ Counted(u)' \subseteq Counted(u)
         \/ /\ InsertItems(l) /\ u = Borrower[l] /\ l \notin raced
            /\ Counted(u)' \subseteq Counted(u) \cup {<<l, c>> : c \in Inserted(l)}
<1> USE DEF IInv
<1>1. raced \subseteq raced'
  BY RacedStep
<1>2. CASE ~ InsertItems(l)
  BY <1>1, <1>2, CopyFrame DEF shelfVars, Counted
<1>3. CASE InsertItems(l)
  <2>1. \A m \in Loans, c \in Copies :
          items'[m][c].status = "BORROWED" =>
            \/ m # l /\ items[m][c].status = "BORROWED"
            \/ m = l /\ c \in Inserted(l)
    BY <1>3 DEF InsertItems, NoItem, TypeOK
  <2>2. CASE u = Borrower[l] /\ l \notin raced
    BY <1>1, <1>3, <2>1, <2>2 DEF Counted
  <2>3. CASE ~ (u = Borrower[l] /\ l \notin raced)
    BY <1>1, <2>1, <2>3 DEF Counted
  <2> QED BY <2>2, <2>3
<1> QED BY <1>2, <1>3

\* What is counted is part of what is in hand, and finite with it.
LEMMA CountedInHand ==
  ASSUME NEW u \in Users, IsFiniteSet(InHand(u))
  PROVE  /\ IsFiniteSet(Counted(u)) /\ Cardinality(Counted(u)) \in Nat
         /\ Cardinality(InHand(u)) \in Nat
         /\ Cardinality(Counted(u)) <= Cardinality(InHand(u))
<1>1. Counted(u) \in SUBSET InHand(u)
  BY DEF Counted, InHand
<1>2. IsFiniteSet(Counted(u)) /\ Cardinality(Counted(u)) <= Cardinality(InHand(u))
  BY <1>1, FS_Subset
<1> QED BY <1>2, FS_CardinalityType

LEMMA CheckoutLimit ==
  ASSUME IInv, CloseInv, LimitInv, NEW l \in Loans, Checkout(l)
  PROVE  LimitInv'
<1> USE DEF IInv
<1>1. \A m \in Loans \ {l} : SameReq(m)
  BY CheckoutFrame
<1>2. raced \subseteq raced' /\ \A m \in raced' \ raced : m = l
  BY RacedStep
<1>3. \A m \in Loans \ {l} : pc'[m] \in Working => pc[m] \in Working /\ basket'[m] = basket[m]
  BY <1>1 DEF SameReq
<1>4. ASSUME NEW m \in Loans \ raced', NEW k \in Loans \ raced',
             Borrower[m] = Borrower[k], pc'[m] \in Working, pc'[k] \in Working
      PROVE  m = k
  <2>1. \A p, q \in Loans \ raced :
          Borrower[p] = Borrower[q] /\ pc[p] \in Working /\ pc[q] \in Working => p = q
    BY DEF LimitInv
  <2>2. pc'[l] \in Working /\ l \notin raced' => pc[l] \in Working \/ ~ Racing(l)
    BY WorkingStep
  <2> QED BY <1>2, <1>3, <1>4, <2>1, <2>2 DEF Racing
<1>5. ASSUME NEW u \in Users
      PROVE  /\ IsFiniteSet(InHand(u)')
             /\ Cardinality(Counted(u)') <= MaxActiveItems
  <2> DEFINE New == {<<l, c>> : c \in Inserted(l)}
             Old == Counted(u)
             Now == Counted(u)'
  <2>1. IsFiniteSet(InHand(u)) /\ Cardinality(Old) <= MaxActiveItems
    BY DEF LimitInv
  <2>2. IsFiniteSet(Old) /\ Cardinality(Old) \in Nat
    BY <2>1, CountedInHand
  <2>3. /\ IsFiniteSet(New) /\ Cardinality(New) \in Nat
        /\ Cardinality(New) <= Len(basket[l])
    BY InsertedCount DEF TypeOK
  <2>4. Len(basket[l]) \in Nat /\ MaxActiveItems \in Nat
    BY ModelAssumption DEF TypeOK
  <2>5. IsFiniteSet(InHand(u)')
    <3>1. InHand(u)' \in SUBSET (InHand(u) \cup New)
      BY CheckoutInHand
    <3>2. IsFiniteSet(InHand(u) \cup New)
      BY <2>1, <2>3, FS_Union
    <3> QED BY <3>1, <3>2, FS_Subset
  <2>6. CASE Now \subseteq Old
    <3>1. Now \in SUBSET Old
      BY <2>6
    <3>2. IsFiniteSet(Now) /\ Cardinality(Now) <= Cardinality(Old)
      BY <2>2, <3>1, FS_Subset
    <3>3. Cardinality(Now) \in Nat
      BY <3>2, FS_CardinalityType
    <3> HIDE DEF Old, Now
    <3>4. Cardinality(Now) <= MaxActiveItems
      BY <2>1, <2>2, <2>4, <3>2, <3>3
    <3> QED BY <2>5, <3>4 DEF Now
  <2>7. CASE ~ (Now \subseteq Old)
    <3>1. /\ InsertItems(l) /\ u = Borrower[l] /\ l \notin raced
          /\ Now \in SUBSET (Old \cup New)
      BY <2>7, CheckoutCounted
    <3>2. pc[l] \in Working
      BY <3>1 DEF InsertItems, Working
    <3>3. Cardinality(Old) + Len(basket[l]) <= MaxActiveItems
      BY <3>1, <3>2 DEF LimitInv
    <3> HIDE DEF New, Old, Now
    <3>4. /\ IsFiniteSet(Old \cup New)
          /\ Cardinality(Old \cup New) =
               Cardinality(Old) + Cardinality(New) - Cardinality(Old \cap New)
      BY <2>2, <2>3, FS_Union
    <3>5. IsFiniteSet(Old \cap New)
      BY <2>2, FS_Subset
    <3>6. IsFiniteSet(Now) /\ Cardinality(Now) <= Cardinality(Old \cup New)
      BY <3>1, <3>4, FS_Subset
    <3>7. Cardinality(Old \cap New) \in Nat /\ Cardinality(Now) \in Nat
      BY <3>5, <3>6, FS_CardinalityType
    <3>8. Cardinality(Now) <= MaxActiveItems
      BY <2>2, <2>3, <2>4, <3>3, <3>4, <3>6, <3>7
    <3> QED BY <2>5, <3>8 DEF Now
  <2> QED BY <2>6, <2>7
<1>6. ASSUME NEW m \in Loans \ raced', pc'[m] \in Working
      PROVE  Cardinality(Counted(Borrower[m])') + Len(basket'[m]) <= MaxActiveItems
  <2> DEFINE u == Borrower[m]
             old == Cardinality(Counted(u))
             now_ == Cardinality(Counted(u)')
             len == Len(basket[m])
  <2>1. u \in Users /\ m \in Loans \ raced
    BY <1>2, ModelAssumption
  <2>2. basket'[m] = basket[m] /\ (InsertItems(l) /\ u = Borrower[l] => l \in raced)
    <3>1. CASE m = l
      BY <1>6, <3>1, WorkingStep
    <3>2. CASE m # l
      BY <1>3, <1>6, <2>1, <3>2 DEF LimitInv, InsertItems, Working
    <3> QED BY <3>1, <3>2
  <2>3. Counted(u)' \in SUBSET Counted(u)
    BY <2>1, <2>2, CheckoutCounted
  <2>4. /\ IsFiniteSet(Counted(u)) /\ old \in Nat
        /\ Cardinality(InHand(u)) \in Nat /\ old <= Cardinality(InHand(u))
    BY <2>1, CountedInHand DEF LimitInv
  <2>5. now_ \in Nat /\ now_ <= old
    <3>1. IsFiniteSet(Counted(u)') /\ now_ <= old
      BY <2>3, <2>4, FS_Subset
    <3> QED BY <3>1, FS_CardinalityType
  <2>6. old + len <= MaxActiveItems
    <3>1. CASE pc[m] \in Working
      BY <2>1, <3>1 DEF LimitInv
    <3>2. CASE pc[m] \notin Working
      <4>1. m = l /\ Cardinality(ActiveItems(u)) + len <= MaxActiveItems
        BY <1>3, <1>6, <3>2, WorkingStep
      <4>2. Cardinality(InHand(u)) + len <= MaxActiveItems
        BY <2>1, <4>1, InHandIsActive
      <4>3. len \in Nat /\ MaxActiveItems \in Nat
        BY ModelAssumption DEF TypeOK
      <4> HIDE DEF u, old, len
      <4> QED BY <2>4, <4>2, <4>3
    <3> QED BY <3>1, <3>2
  <2>7. len \in Nat /\ MaxActiveItems \in Nat
    BY ModelAssumption DEF TypeOK
  <2>8. now_ + len <= MaxActiveItems
    <3> HIDE DEF old, now_, len
    <3> QED BY <2>4, <2>5, <2>6, <2>7
  <2> QED BY <2>2, <2>8
<1> QED BY <1>4, <1>5, <1>6 DEF LimitInv

\* The desk only takes back.
LEMMA DeskLimit ==
  ASSUME IInv, LimitInv, NEW d \in Desk, DeskCall(d)
  PROVE  LimitInv'
<1> USE DEF IInv
<1>1. UNCHANGED <<pc, basket>>
  BY DeskCallFrame DEF reqVars
<1>2. \A m \in Loans, c \in Copies :
        items'[m][c].status = "BORROWED" => items[m][c].status = "BORROWED"
  BY DeskItemStep
<1>3. raced' = raced
  BY DEF DeskCall, StartReturn, TakeItem, WriteReturned, Shelve, RefreshItems,
     WriteLoan, StartRenew, WriteRenewed, StartMark, MarkItem, MarkCopy, MarkFine,
     DeskFails
<1>4. ASSUME NEW u \in Users
      PROVE  /\ IsFiniteSet(InHand(u)')
             /\ Cardinality(Counted(u)') \in Nat /\ Cardinality(Counted(u)) \in Nat
             /\ Cardinality(Counted(u)') <= Cardinality(Counted(u))
  <2>1. InHand(u)' \in SUBSET InHand(u) /\ Counted(u)' \in SUBSET Counted(u)
    BY <1>2, <1>3 DEF InHand, Counted
  <2>2. IsFiniteSet(InHand(u)) /\ IsFiniteSet(Counted(u))
    BY CountedInHand DEF LimitInv
  <2>3. /\ IsFiniteSet(InHand(u)') /\ IsFiniteSet(Counted(u)')
        /\ Cardinality(Counted(u)') <= Cardinality(Counted(u))
    BY <2>1, <2>2, FS_Subset
  <2> QED BY <2>2, <2>3, FS_CardinalityType
<1>5. ASSUME NEW u \in Users PROVE Cardinality(Counted(u)') <= MaxActiveItems
  BY <1>4, ModelAssumption DEF LimitInv
<1>6. ASSUME NEW m \in Loans \ raced', pc'[m] \in Working
      PROVE  Cardinality(Counted(Borrower[m])') + Len(basket'[m]) <= MaxActiveItems
  <2>1. Borrower[m] \in Users /\ Len(basket[m]) \in Nat /\ MaxActiveItems \in Nat
    BY ModelAssumption DEF TypeOK
  <2>2. Cardinality(Counted(Borrower[m])) + Len(basket[m]) <= MaxActiveItems
    BY <1>1, <1>3, <1>6 DEF LimitInv
  <2> QED BY <1>1, <1>4, <2>1, <2>2
<1> QED BY <1>1, <1>3, <1>4, <1>5, <1>6 DEF LimitInv

LEMMA LimitStep == IInv /\ CloseInv /\ LimitInv /\ [Next]_vars => LimitInv'
<1> SUFFICES ASSUME IInv, CloseInv, LimitInv, [Next]_vars
             PROVE  LimitInv'
  OBVIOUS
<1>1. CASE UNCHANGED <<items, pc, basket, raced>>
  BY <1>1 DEF LimitInv, InHand, Counted
<1> QED
  BY <1>1, CheckoutLimit, DeskLimit
     DEF Next, LockExpires, SettleFine, Tick, vars, shelfVars, reqVars

\* The loans that were checked with no other checkout of the member under way
\* never hold more than the limit together, however the other ones race: the
\* count and the insertion are far apart (BorrowingService.cs:61-147).
THEOREM LoanLimitHolds ==
  ASSUME CarefulLibrary
  PROVE  Spec => []LoanLimit
<1>1. Init => LimitInv
  <2> SUFFICES ASSUME Init PROVE LimitInv
    OBVIOUS
  <2>1. \A u \in Users : InHand(u) = {} /\ Counted(u) = {}
    BY DEF Init, NoItem, InHand, Counted
  <2>2. \A l \in Loans : pc[l] = "idle"
    BY DEF Init
  <2>3. \A u \in Users : IsFiniteSet(InHand(u)) /\ Cardinality(Counted(u)) = 0
    BY <2>1, FS_EmptySet
  <2>4. MaxActiveItems \in Nat
    BY ModelAssumption
  <2> QED BY <2>2, <2>3, <2>4 DEF LimitInv, Working
<1>2. IInv /\ CloseInv /\ LimitInv /\ [Next]_vars => LimitInv'
  BY LimitStep
<1>3. LimitInv => LoanLimit
  BY DEF LimitInv, LoanLimit
<1> QED BY <1>1, <1>2, <1>3, CloseInvariance, PTL DEF Spec
=============================================================================
