--------------------------- MODULE MC_Circulation ---------------------------
(***************************************************************************)
(* Small instances of Circulation for TLC.                                 *)
(***************************************************************************)
EXTENDS CirculationInv, TLC

CONSTANTS c1, c2, c3, l1, l2, u1, u2

\* Requests that name different members, and requests of the same member.
MCTwoMembers == l1 :> u1 @@ l2 :> u2
MCOneMember == [l \in Loans |-> u1]

\* One copy; the same two copies in either order; one copy given twice.
MCBaskets == {<<c1>>, <<c2, c3>>, <<c3, c2>>, <<c1, c1>>}
MCSingles == {<<c1>>}
MCTwice == {<<c1>>, <<c1, c1>>}
=============================================================================
