------------------------ MODULE MC_ReservationQueue ------------------------
(***************************************************************************)
(* Small instances of ReservationQueue for TLC.                            *)
(***************************************************************************)
EXTENDS ReservationQueue, TLC

CONSTANTS r1, r2, r3, r4, c1, c2, c3, an, binh, chi

\* One member reserves the book twice.
MCMemberOf ==
  [r \in Creates |-> CASE r = r1 -> an [] r = r2 -> binh [] r = r3 -> chi
                       [] OTHER -> an]

\* Cancel and fulfil requests are alike.
MCChanges == Permutations(Changes)
=============================================================================
