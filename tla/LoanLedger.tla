----------------------------- MODULE LoanLedger -----------------------------
(***************************************************************************)
(* What the circulation desk promises, seen from the shelves: a copy       *)
(* leaves with one loan, in one step with all the copies of that loan, and *)
(* is not lent again before that very loan gives it back.  Locks, document *)
(* writes and failures are none of the reader's business here.             *)
(***************************************************************************)
CONSTANTS Copies, Loans

VARIABLE ledger \* what each loan has of each copy: none, out, missing or back

\* The loan answers for the copy: it is out, or reported lost or damaged.
Answers(l, c) == ledger[l][c] \in {"out", "missing"}

Init == ledger = [l \in Loans |-> [c \in Copies |-> "none"]]

\* A loan takes all its copies at once, and only once.
Lend(l, taken) ==
  /\ \A c \in Copies : ledger[l][c] = "none"
  /\ \A c \in taken : \A m \in Loans : ~ Answers(m, c)
  /\ ledger' = [ledger EXCEPT ![l] =
                  [c \in Copies |-> IF c \in taken THEN "out" ELSE "none"]]

TakeBack(l, c) ==
  /\ Answers(l, c)
  /\ ledger' = [ledger EXCEPT ![l][c] = "back"]

Report(l, c) ==
  /\ ledger[l][c] = "out"
  /\ ledger' = [ledger EXCEPT ![l][c] = "missing"]

Next ==
  \E l \in Loans :
    \/ \E taken \in SUBSET Copies : Lend(l, taken)
    \/ \E c \in Copies : TakeBack(l, c) \/ Report(l, c)

Spec == Init /\ [][Next]_ledger

\* A copy is in the hands of one loan at most: the reason for the lock on
\* borrowing, stated without it.
OneLoanPerCopy ==
  \A c \in Copies : \A l, m \in Loans : Answers(l, c) /\ Answers(m, c) => l = m
=============================================================================
