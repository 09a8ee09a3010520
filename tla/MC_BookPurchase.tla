-------------------------- MODULE MC_BookPurchase ---------------------------
(***************************************************************************)
(* Small instances of BookPurchase for TLC.                                *)
(***************************************************************************)
EXTENDS BookPurchase, TLC

CONSTANTS o1, o2, w1, w2, an, ebook, novel

\* The second order is for the same book again, or for another one.
MCWishes ==
  (o1 :> {<<an, ebook>>}) @@ (o2 :> {<<an, ebook>>, <<an, novel>>})
=============================================================================
