------------------------------ MODULE Bookmark ------------------------------
(***************************************************************************)
(* What the reading progress of a book promises, seen from its reader: the *)
(* book opens where it was left.  A save that is not older than what is    *)
(* there moves the mark, at once and only once; a deletion takes it out,   *)
(* and has done so when it ends; nothing else touches it.  Caches, their   *)
(* expiry, the carrying from one store to the other and failures are none  *)
(* of the reader's business here.                                          *)
(*                                                                         *)
(* The promise lapses at times; even then the mark is at a place somebody  *)
(* saved.                                                                  *)
(***************************************************************************)
EXTENDS Naturals

CONSTANTS
  Requests,  \* what may save or delete, each once; a place has its save's name
  Before,    \* the place the book was left at before
  Nowhere,   \* no place
  Versions   \* the versions saves carry

VARIABLES
  mark,      \* where the book opens, and the version it was saved with
  over,      \* requests that have saved, or will not
  deleting,  \* deletions under way
  kept       \* the promise has not lapsed

promised == <<mark, over, deleting, kept>>

None == [place |-> Nowhere, version |-> 0]

Init ==
  /\ mark \in {None} \cup [place : {Before}, version : Versions]
  /\ over = {} /\ deleting = {}
  /\ kept = TRUE

Used(r) == r \notin over /\ over' = over \cup {r}

\* Each save once, and none behind the mark.
Save(r, v) ==
  /\ kept = TRUE
  /\ Used(r)
  /\ v >= mark.version
  /\ mark' = [place |-> r, version |-> v]
  /\ UNCHANGED <<deleting, kept>>

\* A save is refused, or fails before anything is written.
GiveUp(r) == Used(r) /\ UNCHANGED <<mark, deleting, kept>>

BeginDelete(r) ==
  /\ Used(r) /\ deleting' = deleting \cup {r}
  /\ UNCHANGED <<mark, kept>>

\* Only while something is being deleted.
TakeOut ==
  /\ kept = TRUE /\ deleting # {}
  /\ mark' = None
  /\ UNCHANGED <<over, deleting, kept>>

EndDelete(r) ==
  /\ kept = TRUE
  /\ r \in deleting /\ deleting' = deleting \ {r}
  /\ mark' = None
  /\ UNCHANGED <<over, kept>>

\* A deletion fails before it has deleted anything.
AbandonDelete(r) ==
  /\ r \in deleting /\ deleting' = deleting \ {r}
  /\ UNCHANGED <<mark, over, kept>>

\* The promise lapses, or is not made good yet.
Astray ==
  /\ kept = FALSE \/ kept' = FALSE
  /\ over' = over \/ \E r \in Requests : Used(r)
  /\ deleting' \subseteq over'
  /\ mark' = None \/ mark'.place \in over' \cup {Before}

Next ==
  \/ \E r \in Requests :
       \/ GiveUp(r) \/ BeginDelete(r) \/ EndDelete(r) \/ AbandonDelete(r)
       \/ \E v \in Versions : Save(r, v)
  \/ TakeOut
  \/ Astray

Spec == Init /\ [][Next]_promised
=============================================================================
