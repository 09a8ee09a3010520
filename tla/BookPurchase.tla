---------------------------- MODULE BookPurchase ----------------------------
(***************************************************************************)
(* Buying the right to read a book: PaymentService over payment_orders and *)
(* user_book_accesses, the webhook by which SePay reports a bank transfer, *)
(* and the window of the web client that waits for it.                     *)
(*                                                                         *)
(* SePay is external: it may report a transfer any number of times, also   *)
(* while an earlier report is being served.  The order code is drawn at    *)
(* random and nothing keeps two orders from drawing the same one.          *)
(*                                                                         *)
(* An action is the code between two awaits.                               *)
(***************************************************************************)
EXTENDS Naturals, FiniteSets

CONSTANTS
  Orders,     \* bound: orders placed
  Readers, Books,
  Wishes,     \* reader and book that each order may be placed for
  Codes,      \* order codes
  NoCode,
  NoOrder,
  Hooks,      \* bound: webhook requests served at once
  MaxFaults   \* bound: webhook requests that are cut short

ASSUME PurchaseAssumption ==
  /\ Wishes \in [Orders -> SUBSET (Readers \X Books)]
  /\ NoCode \notin Codes /\ NoOrder \notin Orders
  /\ MaxFaults \in Nat

VARIABLES
  order,      \* payment_orders: whose right, code and status
  access,     \* user_book_accesses: the order that granted, the request
  transfers,  \* codes of the transfers that reached the bank account
  hook,       \* each webhook request
  window,     \* the payment window of each order
  acked,      \* codes SePay was answered 200 for
  cut,        \* history: orders whose webhook stopped before the access
  raced,      \* history: rights two requests found missing at once
  faults

vars == <<order, access, transfers, hook, window, acked, cut, raced, faults>>

Stages == {"idle", "find", "mark", "access", "insert", "publish", "answer"}
Rights == Readers \X Books
Absent == [right |-> <<>>, code |-> NoCode, status |-> "none"]
Order == [right : Rights, code : Codes, status : {"PENDING", "SUCCESS"}]
Idle == [at |-> "idle", code |-> NoCode, order |-> NoOrder]
Hook == [at : Stages, code : Codes \cup {NoCode}, order : Orders \cup {NoOrder}]

\* UserId and BookId of an order.
RightOf(o) == order[o].right
BuyerOf(o) == RightOf(o)[1]

TypeOK ==
  /\ order \in [Orders -> Order \cup {Absent}]
  /\ access \in SUBSET (Orders \X Hooks)
  /\ transfers \in SUBSET Codes
  /\ hook \in [Hooks -> Hook]
  /\ window \in [Orders -> {"closed", "open", "success"}]
  /\ acked \in SUBSET Codes
  /\ cut \in SUBSET Orders
  /\ raced \in SUBSET Rights
  /\ faults \in 0..MaxFaults

Init ==
  /\ order = [o \in Orders |-> Absent]
  /\ access = {}
  /\ transfers = {}
  /\ hook = [w \in Hooks |-> Idle]
  /\ window = [o \in Orders |-> "closed"]
  /\ acked = {} /\ cut = {} /\ raced = {}
  /\ faults = 0

Placed == {o \in Orders : order[o].status # "none"}
Paid == {o \in Orders : order[o].status = "SUCCESS"}

\* Find(o => o.OrderCode == orderCode)
WithCode(c) == {o \in Placed : order[o].code = c}
Shared(o) == \E p \in WithCode(order[o].code) : p # o

AccessDocs(r) == {d \in access : RightOf(d[1]) = r}

\* CheckBookAccessAsync, for a book that is not free.
HasAccess(r) == AccessDocs(r) # {}

(***************************************************************************)
(* The reader                                                              *)
(***************************************************************************)

\* CreatePaymentQrAsync for a published book that is not free; it looks at
\* no other order.  The answer opens the window, or is lost.
CreatePaymentQr(o, r, c) ==
  /\ o \notin Placed /\ r \in Wishes[o]
  /\ order' = [order EXCEPT ![o] = [right |-> r, code |-> c, status |-> "PENDING"]]
  /\ \E how \in {"open", "closed"} : window' = [window EXCEPT ![o] = how]
  /\ UNCHANGED <<access, transfers, hook, acked, cut, raced, faults>>

\* Somebody transfers money with this code in the description.
Transfer(c) ==
  /\ c \notin transfers
  /\ transfers' = transfers \cup {c}
  /\ UNCHANGED <<order, access, hook, window, acked, cut, raced, faults>>

\* Mutant: any answer closes the sale.
PollOrder(o) ==
  /\ window[o] = "open"
  /\ \E p \in WithCode(order[o].code) : BuyerOf(p) = BuyerOf(o)
  /\ window' = [window EXCEPT ![o] = "success"]
  /\ UNCHANGED <<order, access, transfers, hook, acked, cut, raced, faults>>

\* Mutant: the window waits for another status word.
PollForPaid(o) ==
  /\ window[o] = "open"
  /\ \E p \in WithCode(order[o].code) : BuyerOf(p) = BuyerOf(o) /\ order[p].status = "PAID"
  /\ window' = [window EXCEPT ![o] = "success"]
  /\ UNCHANGED <<order, access, transfers, hook, acked, cut, raced, faults>>

\* Every four seconds the window asks for the status of the order: of an
\* order of its reader with that code.
PollStatus(o) ==
  /\ window[o] = "open"
  /\ \E p \in WithCode(order[o].code) : BuyerOf(p) = BuyerOf(o) /\ p \in Paid
  /\ window' = [window EXCEPT ![o] = "success"]
  /\ UNCHANGED <<order, access, transfers, hook, acked, cut, raced, faults>>

\* The reader closes the window before it has good news; after it the window
\* only has to close itself.
CloseWindow(o) ==
  /\ window[o] = "open"
  /\ window' = [window EXCEPT ![o] = "closed"]
  /\ UNCHANGED <<order, access, transfers, hook, acked, cut, raced, faults>>

(***************************************************************************)
(* ProcessSePayWebhookAsync                                                *)
(***************************************************************************)
Moves(w, s, t) == hook[w].at = s /\ hook' = [hook EXCEPT ![w].at = t]

\* SePay reports a transfer until it is answered 200; it does not wait for
\* the answer to one report before the next.
Deliver(w, c) ==
  /\ c \in transfers \ acked /\ hook[w].at = "idle"
  /\ hook' = [hook EXCEPT ![w] = [at |-> "find", code |-> c, order |-> NoOrder]]
  /\ UNCHANGED <<order, access, transfers, window, acked, cut, raced, faults>>

\* Mutant: SePay is answered 200, to keep it quiet.
IgnoreOrderNotFound(w) ==
  /\ hook[w].at = "find" /\ WithCode(hook[w].code) = {}
  /\ hook' = [hook EXCEPT ![w] = Idle]
  /\ acked' = acked \cup {hook[w].code}
  /\ UNCHANGED <<order, access, transfers, window, cut, raced, faults>>

\* No order has the code: the answer is 400.
OrderNotFound(w) ==
  /\ hook[w].at = "find" /\ WithCode(hook[w].code) = {}
  /\ hook' = [hook EXCEPT ![w] = Idle]
  /\ UNCHANGED <<order, access, transfers, window, acked, cut, raced, faults>>

\* FirstOrDefault: one of the orders with the code.
FindOrder(w) ==
  /\ hook[w].at = "find"
  /\ \E o \in WithCode(hook[w].code) \ Paid :
       hook' = [hook EXCEPT ![w] = [at |-> "mark", code |-> @.code, order |-> o]]
  /\ UNCHANGED <<order, access, transfers, window, acked, cut, raced, faults>>

\* It is SUCCESS already: answered 200 at once.
AlreadyPaid(w) ==
  /\ hook[w].at = "find" /\ WithCode(hook[w].code) \cap Paid # {}
  /\ acked' = acked \cup {hook[w].code}
  /\ hook' = [hook EXCEPT ![w] = Idle]
  /\ UNCHANGED <<order, access, transfers, window, cut, raced, faults>>

MarkPaid(w) ==
  /\ Moves(w, "mark", "access")
  /\ order' = [order EXCEPT ![hook[w].order].status = "SUCCESS"]
  /\ UNCHANGED <<access, transfers, window, acked, cut, raced, faults>>

\* Mutant: only the access of this very order counts.
FindAccessOfOrder(w) ==
  /\ Moves(w, "access",
           IF \E d \in access : d[1] = hook[w].order THEN "publish" ELSE "insert")
  /\ UNCHANGED <<order, access, transfers, window, acked, cut, raced, faults>>

\* Mutant: an access to another book of the reader is enough.
FindAccessOfReader(w) ==
  /\ Moves(w, "access",
           IF \E d \in access : BuyerOf(d[1]) = BuyerOf(hook[w].order)
             THEN "publish" ELSE "insert")
  /\ UNCHANGED <<order, access, transfers, window, acked, cut, raced, faults>>

MissedBy(w) ==
  {v \in Hooks \ {w} : /\ hook[v].at = "insert"
                       /\ RightOf(hook[v].order) = RightOf(hook[w].order)}

AccessFound(w) ==
  /\ Moves(w, "access", "publish")
  /\ HasAccess(RightOf(hook[w].order))
  /\ UNCHANGED raced

AccessMissing(w) ==
  /\ Moves(w, "access", "insert")
  /\ ~HasAccess(RightOf(hook[w].order))
  /\ raced' = IF MissedBy(w) = {} THEN raced
              ELSE raced \cup {RightOf(hook[w].order)}

FindAccess(w) ==
  /\ AccessFound(w) \/ AccessMissing(w)
  /\ UNCHANGED <<order, access, transfers, window, acked, cut, faults>>

GrantAccess(w) ==
  /\ Moves(w, "insert", "publish")
  /\ access' = access \cup {<<hook[w].order, w>>}
  /\ UNCHANGED <<order, transfers, window, acked, cut, raced, faults>>

\* SignalR reaches the windows that joined the group of the code, some or none.
PublishPaymentSuccess(w) ==
  /\ Moves(w, "publish", "answer")
  /\ \E told \in SUBSET {o \in WithCode(order[hook[w].order].code) : window[o] = "open"} :
       window' = [o \in Orders |-> IF o \in told THEN "success" ELSE window[o]]
  /\ UNCHANGED <<order, access, transfers, acked, cut, raced, faults>>

Acknowledge(w) ==
  /\ hook[w].at = "answer"
  /\ acked' = acked \cup {hook[w].code}
  /\ hook' = [hook EXCEPT ![w] = Idle]
  /\ UNCHANGED <<order, access, transfers, window, cut, raced, faults>>

\* An await throws, the process dies or the answer is lost.
HookFails(w) ==
  /\ hook[w].at # "idle" /\ faults < MaxFaults
  /\ faults' = faults + 1
  /\ cut' = IF hook[w].at \in {"access", "insert"}
              THEN cut \cup {hook[w].order} ELSE cut
  /\ hook' = [hook EXCEPT ![w] = Idle]
  /\ UNCHANGED <<order, access, transfers, window, acked, raced>>

HookStep(w) ==
  \/ OrderNotFound(w) \/ FindOrder(w) \/ AlreadyPaid(w) \/ MarkPaid(w)
  \/ FindAccess(w) \/ GrantAccess(w) \/ PublishPaymentSuccess(w) \/ Acknowledge(w)

Next ==
  \/ \E o \in Orders, r \in Rights, c \in Codes : CreatePaymentQr(o, r, c)
  \/ \E c \in Codes : Transfer(c)
  \/ \E o \in Orders : PollStatus(o) \/ CloseWindow(o)
  \/ \E w \in Hooks, c \in Codes : Deliver(w, c)
  \/ \E w \in Hooks : HookStep(w) \/ HookFails(w)

Spec == Init /\ [][Next]_vars

Report(c) == \E w \in Hooks : Deliver(w, c)

\* A webhook being served proceeds, an open window polls, SePay does not give
\* up; nobody must buy.
FairSpec ==
  /\ Spec
  /\ \A w \in Hooks : WF_vars(HookStep(w))
  /\ \A o \in Orders : WF_vars(PollStatus(o))
  /\ \A c \in Codes : SF_vars(Report(c))
-----------------------------------------------------------------------------
Serving(o) == \E w \in Hooks : hook[w].order = o /\ hook[w].at \in {"access", "insert"}

\* An order is SUCCESS only if its reader may read the book, unless a webhook
\* is on its way to grant the access or was cut short on that way: whatever
\* the order of the reports and whoever else bought the book.
PaidIsReadable ==
  \A o \in Paid : HasAccess(RightOf(o)) \/ Serving(o) \/ o \in cut

\* Access comes from a SUCCESS order, an order is SUCCESS only after a transfer
\* with its code, and SePay is answered 200 only if an order with that code is
\* SUCCESS.
PaidFor ==
  /\ \A d \in access : d[1] \in Paid
  /\ \A o \in Paid : order[o].code \in transfers
  /\ \A c \in acked : WithCode(c) \cap Paid # {}

\* A reader holds one access document per book, however many orders were
\* paid, unless two webhooks found it missing at the same time.
OneAccessPerRight ==
  \A d, e \in access : RightOf(d[1]) = RightOf(e[1]) => d = e \/ RightOf(d[1]) \in raced

\* The books balance: what was granted, marked and answered was paid for, and
\* granted once.
BooksBalance == PaidFor /\ OneAccessPerRight

\* A window that says the payment succeeded says so of a code that was paid.
ShownIsPaid ==
  \A o \in Orders : window[o] = "success" => WithCode(order[o].code) \cap Paid # {}

\* What the seller's four parties see of it: what was ordered, who may read
\* what, which paid order does not open its book yet, who saw it succeed.
Asked == [o \in Orders |-> [right |-> order[o].right, code |-> order[o].code]]
Owned == {r \in Rights : HasAccess(r)}
Owing == {o \in Paid : ~HasAccess(RightOf(o)) /\ o \notin cut}
Told == {o \in Orders : window[o] = "success"}

Sales == INSTANCE Sale
           WITH asked <- Asked, sold <- Paid, owned <- Owned, owing <- Owing,
                settled <- acked, told <- Told

\* Orders, access documents, webhook requests and windows keep the promise of
\* a sale, whoever reports a transfer how often: only a request that stops
\* between the order and the access forgets an order.
SaleSpec == Sales!Spec

\* A transfer opens the book of the order whose code it carries, unless the
\* webhook was cut short or another order drew the same code.
TransferOpensBook ==
  \A o \in Orders :
    (o \in Placed /\ order[o].code \in transfers)
      ~> (HasAccess(RightOf(o)) \/ o \in cut \/ Shared(o))

\* An open window learns of the payment even if no SignalR message comes.
WindowLearns ==
  \A o \in Orders : (o \in Paid /\ window[o] = "open") ~> window[o] # "open"

(***************************************************************************)
(* The inductive invariant.                                                *)
(***************************************************************************)

\* A request works on an order with the code it brought, SUCCESS once marked.
HookFollowsOrder ==
  \A w \in Hooks :
    /\ hook[w].at # "idle" => hook[w].code \in transfers
    /\ hook[w].at \notin {"idle", "find"} => hook[w].order \in WithCode(hook[w].code)
    /\ hook[w].at \in {"access", "insert", "publish", "answer"} => hook[w].order \in Paid

\* A request about to grant an access that exists already, or that another
\* one is about to grant, has raced.
MissedIsRaced ==
  \A w \in Hooks :
    hook[w].at = "insert" /\ (HasAccess(RightOf(hook[w].order)) \/ MissedBy(w) # {})
      => RightOf(hook[w].order) \in raced

\* Whatever SePay reports, how often, and where a webhook stops: orders,
\* access, requests and windows agree.
PurchaseInv ==
  /\ TypeOK /\ HookFollowsOrder /\ MissedIsRaced
  /\ PaidIsReadable /\ PaidFor /\ OneAccessPerRight /\ ShownIsPaid
=============================================================================
