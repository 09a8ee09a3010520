-------------------------------- MODULE Sale --------------------------------
(***************************************************************************)
(* What selling a book promises: an order is sold once, for good, and only *)
(* when its code was paid; a book opens to those it was sold to and is     *)
(* never closed again; bank and reader are told of what is sold and of     *)
(* nothing else.  A sold order is owed its book until it is handed over;   *)
(* that it may be forgotten in between is the one thing that can go wrong. *)
(***************************************************************************)
EXTENDS Naturals

CONSTANTS
  Orders,
  Rights,   \* what can be bought: a reader's right to a book
  Codes,    \* what a payer names an order by
  NoCode

VARIABLES
  asked,      \* for what and under which code each order was placed
  transfers,  \* codes paid
  sold,       \* orders
  owned,      \* rights
  owing,      \* orders sold whose right is still to be handed over
  settled,    \* codes the bank need not report again
  told        \* orders whose reader was told of the sale

promised == <<asked, transfers, sold, owned, owing, settled, told>>

Unasked == [right |-> <<>>, code |-> NoCode]

Init ==
  /\ asked = [o \in Orders |-> Unasked]
  /\ transfers = {} /\ sold = {} /\ owned = {} /\ owing = {}
  /\ settled = {} /\ told = {}

WithCode(c) == {o \in Orders : asked[o].code = c}

Ask(o, r, c) ==
  /\ asked[o] = Unasked
  /\ asked' = [asked EXCEPT ![o] = [right |-> r, code |-> c]]
  /\ UNCHANGED <<transfers, sold, owned, owing, settled, told>>

Pay(c) ==
  /\ transfers' = transfers \cup {c}
  /\ UNCHANGED <<asked, sold, owned, owing, settled, told>>

\* Whose right is there already is owed nothing.
Sell(o) ==
  /\ o \notin sold /\ asked[o].code \in transfers
  /\ sold' = sold \cup {o}
  /\ owing' = owing \cup {p \in {o} : asked[p].right \notin owned}
  /\ UNCHANGED <<asked, transfers, owned, settled, told>>

HandOver(r) ==
  /\ \E o \in sold : asked[o].right = r
  /\ owned' = owned \cup {r}
  /\ owing' = {o \in owing : asked[o].right # r}
  /\ UNCHANGED <<asked, transfers, sold, settled, told>>

Forget(o) ==
  /\ owing' = owing \ {o}
  /\ UNCHANGED <<asked, transfers, sold, owned, settled, told>>

Settle(c) ==
  /\ WithCode(c) \cap sold # {}
  /\ settled' = settled \cup {c}
  /\ UNCHANGED <<asked, transfers, sold, owned, owing, told>>

\* All who ordered under the code of a sold order may be told.
Tell(c) ==
  /\ WithCode(c) \cap sold # {}
  /\ told \subseteq told' /\ told' \subseteq told \cup WithCode(c)
  /\ UNCHANGED <<asked, transfers, sold, owned, owing, settled>>

Next ==
  \/ \E o \in Orders, r \in Rights, c \in Codes : Ask(o, r, c)
  \/ \E o \in Orders : Sell(o) \/ Forget(o)
  \/ \E r \in Rights : HandOver(r)
  \/ \E c \in Codes : Pay(c) \/ Settle(c) \/ Tell(c)

Spec == Init /\ [][Next]_promised
=============================================================================
