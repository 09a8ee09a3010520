---------------------------- MODULE WaitingList ----------------------------
(***************************************************************************)
(* What the waiting list of a book promises, seen from the members: one    *)
(* stands behind all who stand already, once, and nobody is passed or      *)
(* dropped while others leave.  Positions, their renumbering and failures  *)
(* are none of the members' business here.                                 *)
(*                                                                         *)
(* The promise of order lapses when two members ask at once; that who has  *)
(* left does not come back is kept even then.                              *)
(***************************************************************************)
CONSTANTS
  Places,   \* reservations
  MemberOf  \* whose each is

VARIABLES
  line,     \* <<r, s>>: r stands on the list, and s with it or behind it
  gone,     \* reservations that left the list
  orderly   \* the promise of order has not lapsed

Standing == {r \in Places : <<r, r>> \in line}

Init == line = {} /\ gone = {} /\ orderly = TRUE

\* At the end, and never twice.
Join(r) ==
  /\ orderly = TRUE
  /\ r \notin Standing \cup gone
  /\ \A s \in Standing : MemberOf[s] # MemberOf[r]
  /\ line' = line \cup ((Standing \cup {r}) \X {r})
  /\ UNCHANGED <<gone, orderly>>

\* The others keep their order.
Leave(r) ==
  /\ orderly = TRUE
  /\ r \in Standing
  /\ line' = {pair \in line : pair[1] # r /\ pair[2] # r}
  /\ gone' = gone \cup {r}
  /\ UNCHANGED orderly

Lapse ==
  /\ orderly = TRUE /\ orderly' = FALSE
  /\ UNCHANGED <<line, gone>>

Muddle ==
  /\ orderly = FALSE /\ orderly' = FALSE
  /\ gone \subseteq gone'
  /\ \A r \in gone' : <<r, r>> \notin line'

Next ==
  \/ \E r \in Places : Join(r) \/ Leave(r)
  \/ Lapse \/ Muddle

Spec == Init /\ [][Next]_<<line, gone, orderly>>
=============================================================================
