------------------------- MODULE BookPurchase_proofs -------------------------
(***************************************************************************)
(* What holds of BookPurchase for every number of orders, codes, webhook   *)
(* requests and failures.                                                  *)
(***************************************************************************)
EXTENDS BookPurchase, TLAPS

USE PurchaseAssumption

-----------------------------------------------------------------------------
\* The fields of an order, placed or not.
LEMMA OrderFields ==
  ASSUME TypeOK, NEW o \in Orders
  PROVE  /\ o \in Placed <=> order[o] \in Order
         /\ o \in Placed => /\ order[o].right \in Rights
                            /\ order[o].code \in Codes
                            /\ order[o].status \in {"PENDING", "SUCCESS"}
         /\ o \notin Placed => order[o] = Absent
         /\ o \in Paid => o \in Placed
<1>1. order[o] \in Order \cup {Absent}
  BY DEF TypeOK
<1>2. CASE order[o] = Absent
  BY <1>2 DEF Absent, Order, Placed, Paid
<1>3. CASE order[o] \in Order
  BY <1>3 DEF Order, Placed, Paid
<1> QED
  BY <1>1, <1>2, <1>3

\* Placing an order and marking it keep the collection well formed.
LEMMA PlaceTyped ==
  ASSUME TypeOK, NEW o \in Orders, NEW r \in Rights, NEW c \in Codes,
         order' = [order EXCEPT ![o] = [right |-> r, code |-> c, status |-> "PENDING"]]
  PROVE  order' \in [Orders -> Order \cup {Absent}]
<1>1. [right |-> r, code |-> c, status |-> "PENDING"] \in Order
  BY DEF Order
<1> QED
  BY <1>1 DEF TypeOK

LEMMA MarkTyped ==
  ASSUME TypeOK, NEW o \in Placed,
         order' = [order EXCEPT ![o].status = "SUCCESS"]
  PROVE  /\ order' \in [Orders -> Order \cup {Absent}]
         /\ order'[o] = [right |-> order[o].right, code |-> order[o].code,
                         status |-> "SUCCESS"]
<1>1. o \in Orders /\ order[o] \in Order
  BY OrderFields DEF Placed
<1>2. order'[o] = [order[o] EXCEPT !.status = "SUCCESS"]
  BY <1>1 DEF TypeOK
<1>3. order'[o] = [right |-> order[o].right, code |-> order[o].code, status |-> "SUCCESS"]
  BY <1>1, <1>2 DEF Order
<1>4. order'[o] \in Order
  BY <1>1, <1>3 DEF Order
<1> QED
  BY <1>1, <1>3, <1>4 DEF TypeOK

\* What happens to a webhook request.
LEMMA HookTyped ==
  ASSUME TypeOK, NEW w \in Hooks, NEW h \in Hook, hook' = [hook EXCEPT ![w] = h]
  PROVE  hook' \in [Hooks -> Hook]
BY DEF TypeOK

LEMMA MovesTyped ==
  ASSUME TypeOK, NEW w \in Hooks, NEW s, NEW t \in Stages, Moves(w, s, t)
  PROVE  /\ hook' \in [Hooks -> Hook]
         /\ hook[w].at = s
         /\ hook'[w] = [at |-> t, code |-> hook[w].code, order |-> hook[w].order]
         /\ \A v \in Hooks \ {w} : hook'[v] = hook[v]
<1>1. hook[w] \in Hook /\ hook' = [hook EXCEPT ![w] = [hook[w] EXCEPT !.at = t]]
  BY DEF TypeOK, Moves
<1>2. [hook[w] EXCEPT !.at = t] = [at |-> t, code |-> hook[w].code, order |-> hook[w].order]
  BY <1>1 DEF Hook
<1>3. [at |-> t, code |-> hook[w].code, order |-> hook[w].order] \in Hook
  BY <1>1 DEF Hook
<1> QED
  BY <1>1, <1>2, <1>3 DEF TypeOK, Moves

LEMMA IdleTyped == Idle \in Hook /\ Idle.at = "idle"
BY DEF Idle, Hook, Stages

\* An order is found: the code stays.
LEMMA FindTyped ==
  ASSUME TypeOK, NEW w \in Hooks, FindOrder(w)
  PROVE  /\ hook' \in [Hooks -> Hook]
         /\ \E o \in WithCode(hook[w].code) \ Paid :
              hook'[w] = [at |-> "mark", code |-> hook[w].code, order |-> o]
         /\ \A v \in Hooks \ {w} : hook'[v] = hook[v]
<1>1. PICK o \in WithCode(hook[w].code) \ Paid :
        hook' = [hook EXCEPT ![w] = [at |-> "mark", code |-> hook[w].code, order |-> o]]
  BY DEF FindOrder
<1>2. hook[w] \in Hook /\ o \in Orders
  BY DEF TypeOK, WithCode, Placed
<1>3. [at |-> "mark", code |-> hook[w].code, order |-> o] \in Hook
  BY <1>2 DEF Hook, Stages
<1> QED
  BY <1>1, <1>3 DEF TypeOK

-----------------------------------------------------------------------------
\* The disjuncts of Next, request by request.
LEMMA NextCases ==
  ASSUME Next
  PROVE  \/ \E o \in Orders, r \in Rights, c \in Codes : CreatePaymentQr(o, r, c)
         \/ \E c \in Codes : Transfer(c)
         \/ \E o \in Orders : PollStatus(o)
         \/ \E o \in Orders : CloseWindow(o)
         \/ \E w \in Hooks, c \in Codes : Deliver(w, c)
         \/ \E w \in Hooks : OrderNotFound(w)
         \/ \E w \in Hooks : FindOrder(w)
         \/ \E w \in Hooks : AlreadyPaid(w)
         \/ \E w \in Hooks : MarkPaid(w)
         \/ \E w \in Hooks : AccessFound(w) /\ FindAccess(w)
         \/ \E w \in Hooks : AccessMissing(w) /\ FindAccess(w)
         \/ \E w \in Hooks : GrantAccess(w)
         \/ \E w \in Hooks : PublishPaymentSuccess(w)
         \/ \E w \in Hooks : Acknowledge(w)
         \/ \E w \in Hooks : HookFails(w)
BY DEF Next, HookStep, FindAccess

LEMMA TypeInit == Init => TypeOK
<1> SUFFICES ASSUME Init PROVE TypeOK
  OBVIOUS
<1>1. order \in [Orders -> Order \cup {Absent}] /\ hook \in [Hooks -> Hook]
  BY IdleTyped DEF Init
<1>2. window \in [Orders -> {"closed", "open", "success"}] /\ faults \in 0..MaxFaults
  BY DEF Init
<1> QED
  BY <1>1, <1>2 DEF Init, TypeOK

\* What a request works on, by its stage.
LEMMA AtWork ==
  ASSUME TypeOK, HookFollowsOrder, NEW w \in Hooks
  PROVE  /\ hook[w].at # "idle" => hook[w].code \in Codes
         /\ hook[w].at \in {"mark", "access", "insert", "publish", "answer"}
              => /\ hook[w].order \in Placed
                 /\ order[hook[w].order].code = hook[w].code
BY DEF TypeOK, HookFollowsOrder, WithCode

LEMMA TypeStep == TypeOK /\ HookFollowsOrder /\ [Next]_vars => TypeOK'
<1> SUFFICES ASSUME TypeOK, HookFollowsOrder, [Next]_vars PROVE TypeOK'
  OBVIOUS
<1>1. ASSUME NEW o \in Orders, NEW r \in Rights, NEW c \in Codes, CreatePaymentQr(o, r, c)
      PROVE  TypeOK'
  <2>1. order' \in [Orders -> Order \cup {Absent}]
    BY <1>1, PlaceTyped DEF CreatePaymentQr
  <2>2. window' \in [Orders -> {"closed", "open", "success"}]
    BY <1>1 DEF CreatePaymentQr, TypeOK
  <2> QED
    BY <1>1, <2>1, <2>2 DEF CreatePaymentQr, TypeOK
<1>2. ASSUME NEW c \in Codes, Transfer(c) PROVE TypeOK'
  BY <1>2 DEF Transfer, TypeOK
<1>3. ASSUME NEW o \in Orders, PollStatus(o) \/ CloseWindow(o) PROVE TypeOK'
  <2>1. window' \in [Orders -> {"closed", "open", "success"}]
    BY <1>3 DEF PollStatus, CloseWindow, TypeOK
  <2>2. UNCHANGED <<order, access, transfers, hook, acked, cut, raced, faults>>
    BY <1>3 DEF PollStatus, CloseWindow
  <2> QED
    BY <2>1, <2>2 DEF TypeOK
<1>4. ASSUME NEW w \in Hooks, NEW c \in Codes, Deliver(w, c) PROVE TypeOK'
  <2>1. [at |-> "find", code |-> c, order |-> NoOrder] \in Hook
    BY DEF Hook, Stages
  <2>2. hook' \in [Hooks -> Hook]
    BY <1>4, <2>1, HookTyped DEF Deliver
  <2> QED
    BY <1>4, <2>2 DEF Deliver, TypeOK
<1>5. ASSUME NEW w \in Hooks, OrderNotFound(w) PROVE TypeOK'
  <2>1. hook' \in [Hooks -> Hook]
    BY <1>5, IdleTyped, HookTyped DEF OrderNotFound
  <2> QED
    BY <1>5, <2>1 DEF OrderNotFound, TypeOK
<1>6. ASSUME NEW w \in Hooks, FindOrder(w) PROVE TypeOK'
  <2>1. hook' \in [Hooks -> Hook]
    BY <1>6, FindTyped
  <2> QED
    BY <1>6, <2>1 DEF FindOrder, TypeOK
<1>7. ASSUME NEW w \in Hooks, AlreadyPaid(w) \/ Acknowledge(w) PROVE TypeOK'
  <2>1. hook' \in [Hooks -> Hook]
    BY <1>7, IdleTyped, HookTyped DEF AlreadyPaid, Acknowledge
  <2>2. acked' \in SUBSET Codes
    BY <1>7, AtWork DEF AlreadyPaid, Acknowledge, TypeOK
  <2>3. UNCHANGED <<order, access, transfers, window, cut, raced, faults>>
    BY <1>7 DEF AlreadyPaid, Acknowledge
  <2> QED
    BY <2>1, <2>2, <2>3 DEF TypeOK
<1>8. ASSUME NEW w \in Hooks, MarkPaid(w) PROVE TypeOK'
  <2>1. hook' \in [Hooks -> Hook] /\ hook[w].at = "mark"
    BY <1>8, MovesTyped DEF MarkPaid, Stages
  <2>2. order' \in [Orders -> Order \cup {Absent}]
    BY <1>8, <2>1, AtWork, MarkTyped DEF MarkPaid
  <2> QED
    BY <1>8, <2>1, <2>2 DEF MarkPaid, TypeOK
<1>9. ASSUME NEW w \in Hooks, FindAccess(w) PROVE TypeOK'
  <2>1. CASE AccessFound(w)
    <3>1. hook' \in [Hooks -> Hook]
      BY <2>1, MovesTyped DEF AccessFound, Stages
    <3> QED
      BY <1>9, <2>1, <3>1 DEF FindAccess, AccessFound, TypeOK
  <2>2. CASE AccessMissing(w)
    <3>1. hook' \in [Hooks -> Hook] /\ hook[w].at = "access"
      BY <2>2, MovesTyped DEF AccessMissing, Stages
    <3>2. RightOf(hook[w].order) \in Rights
      BY <3>1, AtWork, OrderFields DEF RightOf, Placed
    <3>3. raced' \in SUBSET Rights
      BY <2>2, <3>2 DEF AccessMissing, TypeOK
    <3> QED
      BY <1>9, <3>1, <3>3 DEF FindAccess, TypeOK
  <2> QED
    BY <1>9, <2>1, <2>2 DEF FindAccess
<1>10. ASSUME NEW w \in Hooks, GrantAccess(w) PROVE TypeOK'
  <2>1. hook' \in [Hooks -> Hook] /\ hook[w].at = "insert"
    BY <1>10, MovesTyped DEF GrantAccess, Stages
  <2>2. hook[w].order \in Orders
    BY <2>1, AtWork DEF Placed
  <2>3. access' \in SUBSET (Orders \X Hooks)
    BY <1>10, <2>2 DEF GrantAccess, TypeOK
  <2> QED
    BY <1>10, <2>1, <2>3 DEF GrantAccess, TypeOK
<1>11. ASSUME NEW w \in Hooks, PublishPaymentSuccess(w) PROVE TypeOK'
  <2>1. hook' \in [Hooks -> Hook]
    BY <1>11, MovesTyped DEF PublishPaymentSuccess, Stages
  <2>2. window' \in [Orders -> {"closed", "open", "success"}]
    BY <1>11 DEF PublishPaymentSuccess, TypeOK
  <2> QED
    BY <1>11, <2>1, <2>2 DEF PublishPaymentSuccess, TypeOK
<1>12. ASSUME NEW w \in Hooks, HookFails(w) PROVE TypeOK'
  <2>1. hook' \in [Hooks -> Hook]
    BY <1>12, IdleTyped, HookTyped DEF HookFails
  <2>2. cut' \in SUBSET Orders
    BY <1>12, AtWork DEF HookFails, TypeOK, Placed
  <2>3. faults' \in 0..MaxFaults
    BY <1>12 DEF HookFails, TypeOK
  <2> QED
    BY <1>12, <2>1, <2>2, <2>3 DEF HookFails, TypeOK
<1>13. CASE UNCHANGED vars
  BY <1>13 DEF vars, TypeOK
<1> QED
  BY <1>1, <1>2, <1>3, <1>4, <1>5, <1>6, <1>7, <1>8, <1>9, <1>10, <1>11, <1>12, <1>13,
     NextCases

-----------------------------------------------------------------------------
\* What no step undoes: orders keep whose they are and their code, SUCCESS
\* stays, nothing is deleted.
Kept ==
  /\ \A o \in Placed : /\ o \in Placed'
                       /\ order'[o].right = order[o].right
                       /\ order'[o].code = order[o].code
  /\ Paid \subseteq Paid'
  /\ access \subseteq access' /\ transfers \subseteq transfers'
  /\ cut \subseteq cut' /\ raced \subseteq raced' /\ acked \subseteq acked'

LEMMA KeptStep == TypeOK /\ HookFollowsOrder /\ [Next]_vars => Kept
<1> SUFFICES ASSUME TypeOK, HookFollowsOrder, [Next]_vars PROVE Kept
  OBVIOUS
<1>1. CASE order' = order
  <2>1. Placed' = Placed /\ Paid' = Paid
    BY <1>1 DEF Placed, Paid
  <2>2. /\ access \subseteq access' /\ transfers \subseteq transfers'
        /\ cut \subseteq cut' /\ raced \subseteq raced' /\ acked \subseteq acked'
    BY DEF Next, CreatePaymentQr, Transfer, PollStatus, CloseWindow, Deliver, HookStep,
       OrderNotFound, FindOrder, AlreadyPaid, MarkPaid, FindAccess, AccessFound,
       AccessMissing, GrantAccess, PublishPaymentSuccess, Acknowledge, HookFails, vars
  <2> QED
    BY <1>1, <2>1, <2>2 DEF Kept
<1>2. ASSUME NEW o \in Orders, NEW r \in Rights, NEW c \in Codes, CreatePaymentQr(o, r, c)
      PROVE  Kept
  <2>1. \A p \in Orders : p # o => order'[p] = order[p]
    BY <1>2 DEF CreatePaymentQr, TypeOK
  <2>2. o \notin Placed /\ o \notin Paid
    BY <1>2, OrderFields DEF CreatePaymentQr
  <2>3. \A p \in Placed : p \in Placed' /\ order'[p] = order[p]
    BY <2>1, <2>2 DEF Placed
  <2>4. Paid \subseteq Paid'
    BY <2>1, <2>2 DEF Paid
  <2> QED
    BY <1>2, <2>3, <2>4 DEF Kept, CreatePaymentQr
<1>3. ASSUME NEW w \in Hooks, MarkPaid(w) PROVE Kept
  <2>1. hook[w].at = "mark" /\ hook[w].order \in Placed
    BY <1>3, AtWork DEF MarkPaid, Moves
  <2> DEFINE o == hook[w].order
  <2>2. order'[o] = [right |-> order[o].right, code |-> order[o].code, status |-> "SUCCESS"]
    BY <1>3, <2>1, MarkTyped DEF MarkPaid
  <2>3. \A p \in Orders : p # o => order'[p] = order[p]
    BY <1>3 DEF MarkPaid, TypeOK
  <2>4. \A p \in Placed : p \in Placed' /\ order'[p].right = order[p].right
                                       /\ order'[p].code = order[p].code
    BY <2>2, <2>3 DEF Placed
  <2>5. Paid \subseteq Paid'
    BY <2>2, <2>3 DEF Paid
  <2> QED
    BY <1>3, <2>4, <2>5 DEF Kept, MarkPaid
<1>4. CASE UNCHANGED vars
  BY <1>1, <1>4 DEF vars
<1>5. CASE Next
  BY <1>1, <1>2, <1>3, <1>5, NextCases DEF Transfer, PollStatus, CloseWindow, Deliver,
     OrderNotFound, FindOrder, AlreadyPaid, FindAccess, GrantAccess,
     PublishPaymentSuccess, Acknowledge, HookFails
<1> QED
  BY <1>4, <1>5

\* So an order found by its code is found again, and a right granted stays.
LEMMA KeptFacts ==
  ASSUME TypeOK, TypeOK', PaidFor, Kept
  PROVE  /\ \A o \in Placed : RightOf(o)' = RightOf(o)
         /\ \A c : WithCode(c) \subseteq WithCode(c)'
         /\ \A c : WithCode(c) \cap Paid # {} => (WithCode(c) \cap Paid)' # {}
         /\ \A d \in access : d \in Orders \X Hooks /\ d[1] \in Placed
         /\ \A r : HasAccess(r) => HasAccess(r)'
<1>1. \A o \in Placed : RightOf(o)' = RightOf(o)
  BY DEF Kept, RightOf
<1>2. \A c : WithCode(c) \subseteq WithCode(c)'
  BY DEF Kept, WithCode
<1>3. \A c : WithCode(c) \cap Paid # {} => (WithCode(c) \cap Paid)' # {}
  BY <1>2 DEF Kept
<1>4. \A d \in access : d \in Orders \X Hooks /\ d[1] \in Placed
  BY OrderFields DEF PaidFor, TypeOK, Paid
<1>5. \A r : HasAccess(r) => HasAccess(r)'
  BY <1>1, <1>4 DEF HasAccess, AccessDocs, Kept
<1> QED
  BY <1>1, <1>2, <1>3, <1>4, <1>5

\* A request that keeps its stage and its order keeps what it works on.
LEMMA HookFollowsStep ==
  ASSUME TypeOK, HookFollowsOrder, PaidFor, [Next]_vars, TypeOK', Kept
  PROVE  HookFollowsOrder'
<1> DEFINE Follows(w) ==
      /\ hook[w].at # "idle" => hook[w].code \in transfers
      /\ hook[w].at \notin {"idle", "find"} => hook[w].order \in WithCode(hook[w].code)
      /\ hook[w].at \in {"access", "insert", "publish", "answer"} => hook[w].order \in Paid
<1>1. SUFFICES \A w \in Hooks : Follows(w)'
  BY DEF HookFollowsOrder
<1>2. \A w \in Hooks : Follows(w)
  BY DEF HookFollowsOrder
<1>3. \A w \in Hooks : hook'[w] = hook[w] => Follows(w)'
  BY <1>2, KeptFacts DEF Kept
<1>4. \A w \in Hooks : hook'[w].at = "idle" => Follows(w)'
  OBVIOUS
<1>5. \A w \in Hooks, c \in Codes : Deliver(w, c) => \A v \in Hooks : Follows(v)'
  <2> SUFFICES ASSUME NEW w \in Hooks, NEW c \in Codes, Deliver(w, c), NEW v \in Hooks
               PROVE Follows(v)'
    OBVIOUS
  <2>1. CASE v = w
    <3>1. hook'[w] = [at |-> "find", code |-> c, order |-> NoOrder] /\ c \in transfers'
      BY DEF Deliver, TypeOK
    <3> QED
      BY <2>1, <3>1
  <2>2. CASE v # w
    BY <1>3, <2>2 DEF Deliver, TypeOK
  <2> QED
    BY <2>1, <2>2
<1>6. \A w \in Hooks : FindOrder(w) => \A v \in Hooks : Follows(v)'
  <2> SUFFICES ASSUME NEW w \in Hooks, FindOrder(w), NEW v \in Hooks PROVE Follows(v)'
    OBVIOUS
  <2>1. CASE v = w
    <3>1. hook[w].at = "find" /\ UNCHANGED <<transfers, order>>
      BY DEF FindOrder
    <3>2. PICK o \in WithCode(hook[w].code) :
            hook'[w] = [at |-> "mark", code |-> hook[w].code, order |-> o]
      BY FindTyped
    <3>3. o \in WithCode(hook[w].code)'
      BY <3>2, KeptFacts
    <3> QED
      BY <1>2, <2>1, <3>1, <3>2, <3>3 DEF WithCode, Placed
  <2>2. CASE v # w
    BY <1>3, <2>2, FindTyped
  <2> QED
    BY <2>1, <2>2
<1>7. \A w \in Hooks, s, t \in Stages :
        /\ Moves(w, s, t)
        /\ s \notin {"idle", "find"} /\ t \notin {"idle", "find"}
        /\ hook[w].order \in Paid'
        => \A v \in Hooks : Follows(v)'
  <2> SUFFICES ASSUME NEW w \in Hooks, NEW s \in Stages, NEW t \in Stages, Moves(w, s, t),
                      s \notin {"idle", "find"}, t \notin {"idle", "find"},
                      hook[w].order \in Paid', NEW v \in Hooks
               PROVE Follows(v)'
    OBVIOUS
  <2>1. CASE v = w
    <3>1. /\ hook[w].at = s
          /\ hook'[w] = [at |-> t, code |-> hook[w].code, order |-> hook[w].order]
      BY MovesTyped
    <3>2. hook[w].code \in transfers' /\ hook[w].order \in WithCode(hook[w].code)'
      BY <1>2, <3>1, KeptFacts DEF Kept
    <3>3. hook'[w].code = hook[w].code /\ hook'[w].order = hook[w].order
      BY <3>1
    <3> QED
      BY <2>1, <3>2, <3>3
  <2>2. CASE v # w
    BY <1>3, <2>2, MovesTyped
  <2> QED
    BY <2>1, <2>2
<1>8. \A w \in Hooks : MarkPaid(w) => \A v \in Hooks : Follows(v)'
  <2> SUFFICES ASSUME NEW w \in Hooks, MarkPaid(w) PROVE \A v \in Hooks : Follows(v)'
    OBVIOUS
  <2>1. Moves(w, "mark", "access") /\ hook[w].order \in Placed
    BY AtWork DEF MarkPaid, Moves
  <2>2. hook[w].order \in Paid'
    <3> DEFINE o == hook[w].order
    <3>1. o \in Placed /\ order' = [order EXCEPT ![o].status = "SUCCESS"]
      BY <2>1 DEF MarkPaid
    <3>2. order'[o] = [right |-> order[o].right, code |-> order[o].code,
                       status |-> "SUCCESS"]
      BY <3>1, MarkTyped
    <3> QED
      BY <3>1, <3>2 DEF Paid, Placed
  <2> QED
    BY <1>7, <2>1, <2>2 DEF Stages
<1>9. \A w \in Hooks : \/ AccessFound(w) \/ AccessMissing(w) \/ GrantAccess(w)
                       \/ PublishPaymentSuccess(w)
        => \A v \in Hooks : Follows(v)'
  <2> SUFFICES ASSUME NEW w \in Hooks, \/ AccessFound(w) \/ AccessMissing(w)
                                       \/ GrantAccess(w) \/ PublishPaymentSuccess(w)
               PROVE \A v \in Hooks : Follows(v)'
    OBVIOUS
  <2>1. PICK s \in {"access", "insert", "publish"}, t \in {"insert", "publish", "answer"} :
          Moves(w, s, t)
    BY DEF AccessFound, AccessMissing, GrantAccess, PublishPaymentSuccess
  <2>2. hook[w].order \in Paid'
    BY <1>2, <2>1 DEF Moves, Kept
  <2> QED
    BY <1>7, <2>1, <2>2 DEF Stages
<1>10. \A w \in Hooks : hook' = [hook EXCEPT ![w] = Idle] => \A v \in Hooks : Follows(v)'
  <2> SUFFICES ASSUME NEW w \in Hooks, hook' = [hook EXCEPT ![w] = Idle], NEW v \in Hooks
               PROVE Follows(v)'
    OBVIOUS
  <2>1. CASE v = w
    BY <1>4, <2>1, IdleTyped DEF TypeOK
  <2>2. CASE v # w
    BY <1>3, <2>2 DEF TypeOK
  <2> QED
    BY <2>1, <2>2
<1>11. hook' = hook => \A v \in Hooks : Follows(v)'
  BY <1>3
<1>12. CASE UNCHANGED vars
  BY <1>11, <1>12 DEF vars
<1>13. CASE Next
  BY <1>5, <1>6, <1>8, <1>9, <1>10, <1>11, <1>13, NextCases
     DEF CreatePaymentQr, Transfer, PollStatus, CloseWindow, OrderNotFound, AlreadyPaid,
         Acknowledge, HookFails
<1> QED
  BY <1>12, <1>13

-----------------------------------------------------------------------------
\* An order becomes SUCCESS by a request that has its code from a transfer.
LEMMA NewlyPaid ==
  ASSUME TypeOK, HookFollowsOrder, [Next]_vars, TypeOK',
         NEW o \in Paid' \ Paid
  PROVE  \E w \in Hooks : MarkPaid(w) /\ hook[w].order = o
<1>1. o \in Orders /\ order'[o].status = "SUCCESS" /\ order[o].status # "SUCCESS"
  BY DEF Paid
<1>2. order' # order
  BY <1>1
<1>3. ASSUME NEW p \in Orders, NEW r \in Rights, NEW c \in Codes, CreatePaymentQr(p, r, c)
      PROVE  FALSE
  <2>1. order'[p] = [right |-> r, code |-> c, status |-> "PENDING"]
        /\ \A q \in Orders : q # p => order'[q] = order[q]
    BY <1>3 DEF CreatePaymentQr, TypeOK
  <2> QED
    BY <1>1, <2>1
<1>4. \E w \in Hooks : MarkPaid(w)
  BY <1>2, <1>3, NextCases DEF Transfer, PollStatus, CloseWindow, Deliver,
     OrderNotFound, FindOrder, AlreadyPaid, FindAccess, GrantAccess,
     PublishPaymentSuccess, Acknowledge, HookFails, vars
<1> QED
  BY <1>1, <1>4 DEF MarkPaid, TypeOK

LEMMA PaidForStep ==
  ASSUME TypeOK, HookFollowsOrder, PaidFor, [Next]_vars, TypeOK', Kept
  PROVE  PaidFor'
<1>1. \A d \in access' : d[1] \in Paid'
  <2>1. \A w \in Hooks : GrantAccess(w) => hook[w].order \in Paid'
    BY DEF GrantAccess, Moves, HookFollowsOrder, Kept
  <2>2. access' = access \/ \E w \in Hooks : GrantAccess(w)
    BY NextCases DEF CreatePaymentQr, Transfer, PollStatus, CloseWindow, Deliver,
       OrderNotFound, FindOrder, AlreadyPaid, MarkPaid, FindAccess,
       PublishPaymentSuccess, Acknowledge, HookFails, vars
  <2>3. \A d \in access : d[1] \in Paid'
    BY DEF PaidFor, Kept
  <2> QED
    BY <2>1, <2>2, <2>3 DEF GrantAccess
<1>2. \A o \in Paid' : order'[o].code \in transfers'
  <2>1. \A o \in Paid : order'[o].code \in transfers'
    BY OrderFields DEF PaidFor, Kept, Paid
  <2>2. \A o \in Paid' \ Paid : order'[o].code \in transfers'
    <3> SUFFICES ASSUME NEW o \in Paid' \ Paid PROVE order'[o].code \in transfers'
      OBVIOUS
    <3>1. PICK w \in Hooks : MarkPaid(w) /\ hook[w].order = o
      BY NewlyPaid
    <3>2. o \in Placed /\ order[o].code = hook[w].code /\ hook[w].code \in transfers
      BY <3>1, AtWork DEF MarkPaid, Moves, HookFollowsOrder
    <3> QED
      BY <3>2 DEF Kept
  <2> QED
    BY <2>1, <2>2
<1>3. \A c \in acked' : (WithCode(c) \cap Paid)' # {}
  <2>1. \A c \in acked : (WithCode(c) \cap Paid)' # {}
    BY KeptFacts DEF PaidFor
  <2>2. acked' = acked \/ \E w \in Hooks : AlreadyPaid(w) \/ Acknowledge(w)
    BY NextCases DEF CreatePaymentQr, Transfer, PollStatus, CloseWindow, Deliver,
       OrderNotFound, FindOrder, MarkPaid, FindAccess, GrantAccess,
       PublishPaymentSuccess, HookFails, vars
  <2>3. \A w \in Hooks : AlreadyPaid(w) \/ Acknowledge(w)
          => acked' = acked \cup {hook[w].code} /\ WithCode(hook[w].code) \cap Paid # {}
    BY DEF AlreadyPaid, Acknowledge, HookFollowsOrder
  <2> QED
    BY <2>1, <2>2, <2>3, KeptFacts
<1> QED
  BY <1>1, <1>2, <1>3 DEF PaidFor

\* A request on its way to grant stays on its way, is cut, or grants.
LEMMA ReadableStep ==
  ASSUME TypeOK, HookFollowsOrder, PaidFor, PaidIsReadable, [Next]_vars, TypeOK', Kept
  PROVE  PaidIsReadable'
<1> SUFFICES ASSUME NEW o \in Paid'
             PROVE  (HasAccess(RightOf(o)) \/ Serving(o) \/ o \in cut)'
  BY DEF PaidIsReadable
<1>1. CASE o \notin Paid
  <2>1. PICK w \in Hooks : MarkPaid(w) /\ hook[w].order = o
    BY <1>1, NewlyPaid
  <2>2. hook'[w] = [at |-> "access", code |-> hook[w].code, order |-> o]
    BY <2>1, MovesTyped DEF MarkPaid, Stages
  <2> QED
    BY <2>2 DEF Serving
<1>2. CASE o \in Paid
  <2>1. o \in Placed /\ RightOf(o)' = RightOf(o)
    BY <1>2, OrderFields, KeptFacts DEF Paid
  <2>2. CASE HasAccess(RightOf(o))
    BY <2>1, <2>2, KeptFacts
  <2>3. CASE o \in cut
    BY <2>3 DEF Kept
  <2>4. CASE Serving(o)
    <3>1. PICK w \in Hooks : hook[w].order = o /\ hook[w].at \in {"access", "insert"}
      BY <2>4 DEF Serving
    <3>2. CASE hook'[w] = hook[w]
      BY <3>1, <3>2 DEF Serving
    <3>3. CASE AccessFound(w)
      BY <2>1, <3>1, <3>3, KeptFacts DEF AccessFound
    <3>4. CASE AccessMissing(w)
      <4>1. hook'[w] = [at |-> "insert", code |-> hook[w].code, order |-> o]
        BY <3>1, <3>4, MovesTyped DEF AccessMissing, Stages
      <4> QED
        BY <4>1 DEF Serving
    <3>5. CASE GrantAccess(w)
      <4>1. <<o, w>> \in access'
        BY <3>1, <3>5 DEF GrantAccess
      <4>2. <<o, w>> \in AccessDocs(RightOf(o))'
        BY <4>1 DEF AccessDocs
      <4> QED
        BY <4>2 DEF HasAccess
    <3>6. CASE HookFails(w)
      BY <3>1, <3>6 DEF HookFails
    <3>7. \/ hook'[w] = hook[w] \/ AccessFound(w) \/ AccessMissing(w)
          \/ GrantAccess(w) \/ HookFails(w)
      <4>1. \A v \in Hooks \ {w} : \A h : hook' = [hook EXCEPT ![v] = h] => hook'[w] = hook[w]
        BY DEF TypeOK
      <4>2. \A v \in Hooks \ {w} : \A s, t : Moves(v, s, t) => hook'[w] = hook[w]
        BY <4>1 DEF Moves
      <4>3. \A v \in Hooks : FindOrder(v) => hook[v].at = "find"
                                         /\ (v # w => hook'[w] = hook[w])
        BY FindTyped DEF FindOrder
      <4>4. ASSUME NEW v \in Hooks,
                   \/ \E c \in Codes : Deliver(v, c)
                   \/ OrderNotFound(v) \/ AlreadyPaid(v) \/ Acknowledge(v)
                   \/ MarkPaid(v) \/ PublishPaymentSuccess(v)
            PROVE  hook'[w] = hook[w]
        <5>1. v # w
          BY <3>1, <4>4 DEF Deliver, OrderNotFound, AlreadyPaid, Acknowledge, MarkPaid,
             PublishPaymentSuccess, Moves
        <5> QED
          BY <4>1, <4>2, <4>4, <5>1 DEF Deliver, OrderNotFound, AlreadyPaid, Acknowledge,
             MarkPaid, PublishPaymentSuccess
      <4>5. ASSUME NEW v \in Hooks,
                   AccessFound(v) \/ AccessMissing(v) \/ GrantAccess(v) \/ HookFails(v)
            PROVE  v = w \/ hook'[w] = hook[w]
        BY <4>1, <4>2, <4>5 DEF AccessFound, AccessMissing, GrantAccess, HookFails
      <4>6. CASE hook' = hook
        BY <4>6
      <4>7. CASE Next
        BY <3>1, <4>3, <4>4, <4>5, <4>6, <4>7, NextCases
           DEF CreatePaymentQr, Transfer, PollStatus, CloseWindow
      <4> QED
        BY <4>6, <4>7 DEF vars
    <3> QED
      BY <3>2, <3>3, <3>4, <3>5, <3>6, <3>7
  <2> QED
    BY <1>2, <2>2, <2>3, <2>4 DEF PaidIsReadable
<1> QED
  BY <1>1, <1>2

LEMMA ShownStep ==
  ASSUME TypeOK, HookFollowsOrder, PaidFor, ShownIsPaid, [Next]_vars, TypeOK', Kept
  PROVE  ShownIsPaid'
<1> SUFFICES ASSUME NEW o \in Orders, window'[o] = "success"
             PROVE  (WithCode(order[o].code) \cap Paid)' # {}
  BY DEF ShownIsPaid
<1>1. ASSUME WithCode(order[o].code) \cap Paid # {}
      PROVE  (WithCode(order[o].code) \cap Paid)' # {}
  <2>1. order[o].code \in Codes
    BY <1>1, OrderFields DEF WithCode, Placed
  <2>2. o \in Placed
    BY <2>1, OrderFields DEF Absent
  <2> QED
    BY <1>1, <2>2, KeptFacts DEF Kept
<1>2. CASE window[o] = "success"
  BY <1>1, <1>2 DEF ShownIsPaid
<1>3. ASSUME NEW p \in Orders, PollStatus(p), window[o] # "success"
      PROVE  WithCode(order[o].code) \cap Paid # {}
  BY <1>3 DEF PollStatus, TypeOK
<1>4. ASSUME NEW w \in Hooks, PublishPaymentSuccess(w), window[o] # "success"
      PROVE  WithCode(order[o].code) \cap Paid # {}
  <2>1. o \in WithCode(order[hook[w].order].code)
    BY <1>4 DEF PublishPaymentSuccess
  <2>2. hook[w].order \in Paid /\ hook[w].order \in Placed
    BY <1>4, AtWork DEF PublishPaymentSuccess, Moves, HookFollowsOrder
  <2> QED
    BY <2>1, <2>2 DEF WithCode
<1>5. ASSUME NEW p \in Orders, CloseWindow(p) \/ \E r \in Rights, c \in Codes : CreatePaymentQr(p, r, c)
      PROVE  window[o] = "success"
  BY <1>5 DEF CloseWindow, CreatePaymentQr, TypeOK
<1>6. window' = window => window[o] = "success"
  OBVIOUS
<1>7. CASE UNCHANGED vars
  BY <1>2, <1>6, <1>7 DEF vars
<1>8. CASE Next
  BY <1>1, <1>2, <1>3, <1>4, <1>5, <1>6, <1>8, NextCases
     DEF Transfer, Deliver, OrderNotFound, FindOrder, AlreadyPaid, MarkPaid, FindAccess,
         GrantAccess, Acknowledge, HookFails
<1> QED
  BY <1>7, <1>8

\* A request reaches the stage before the insertion by finding no access.
LEMMA ReachesInsert ==
  ASSUME TypeOK, HookFollowsOrder, [Next]_vars, NEW w \in Hooks, hook'[w].at = "insert"
  PROVE  hook'[w] = hook[w] \/ AccessMissing(w)
<1>1. \A v \in Hooks \ {w} : \A h : hook' = [hook EXCEPT ![v] = h] => hook'[w] = hook[w]
  BY DEF TypeOK
<1>2. \A v \in Hooks \ {w} : \A s, t : Moves(v, s, t) => hook'[w] = hook[w]
  BY <1>1 DEF Moves
<1>3. \A v \in Hooks : FindOrder(v) => hook'[w] = hook[w]
  <2> SUFFICES ASSUME NEW v \in Hooks, FindOrder(v) PROVE hook'[w] = hook[w]
    OBVIOUS
  <2>1. CASE v = w
    <3>1. FindOrder(w)
      BY <2>1
    <3>2. PICK o \in WithCode(hook[w].code) \ Paid :
            hook'[w] = [at |-> "mark", code |-> hook[w].code, order |-> o]
      BY <3>1, FindTyped
    <3> QED
      BY <3>2
  <2>2. CASE v # w
    BY <2>2, FindTyped
  <2> QED
    BY <2>1, <2>2
<1>4. \A v \in Hooks : \A h : hook' = [hook EXCEPT ![v] = h] /\ h.at # "insert" => hook'[w] = hook[w]
  BY DEF TypeOK
<1>5. \A v \in Hooks, s, t \in Stages : Moves(v, s, t) /\ t # "insert" => hook'[w] = hook[w]
  <2> SUFFICES ASSUME NEW v \in Hooks, NEW s \in Stages, NEW t \in Stages,
                      Moves(v, s, t), t # "insert"
               PROVE  hook'[w] = hook[w]
    OBVIOUS
  <2>1. hook'[v] = [at |-> t, code |-> hook[v].code, order |-> hook[v].order]
    BY MovesTyped
  <2> QED
    BY <1>2, <2>1
<1>6. ASSUME NEW v \in Hooks,
             MarkPaid(v) \/ AccessFound(v) \/ GrantAccess(v) \/ PublishPaymentSuccess(v)
      PROVE  hook'[w] = hook[w]
  BY <1>5, <1>6 DEF MarkPaid, AccessFound, GrantAccess, PublishPaymentSuccess, Stages
<1>7. ASSUME NEW v \in Hooks, OrderNotFound(v) \/ AlreadyPaid(v) \/ Acknowledge(v) \/ HookFails(v)
      PROVE  hook'[w] = hook[w]
  BY <1>4, <1>7, IdleTyped DEF OrderNotFound, AlreadyPaid, Acknowledge, HookFails
<1>8. \A v \in Hooks, c \in Codes : Deliver(v, c) => hook'[w] = hook[w]
  BY <1>4 DEF Deliver
<1>9. \A v \in Hooks : AccessMissing(v) => v = w \/ hook'[w] = hook[w]
  BY <1>2 DEF AccessMissing
<1>10. CASE hook' = hook
  BY <1>10
<1>11. CASE Next
  BY <1>3, <1>6, <1>7, <1>8, <1>9, <1>10, <1>11, NextCases
     DEF CreatePaymentQr, Transfer, PollStatus, CloseWindow
<1> QED
  BY <1>10, <1>11 DEF vars

\* Only a grant adds a document, and it adds one.
LEMMA GrantSource ==
  ASSUME [Next]_vars
  PROVE  \/ access' = access
         \/ \E u \in Hooks : /\ hook[u].at = "insert" /\ GrantAccess(u)
                            /\ access' = access \cup {<<hook[u].order, u>>}
BY NextCases DEF CreatePaymentQr, Transfer, PollStatus, CloseWindow, Deliver,
   OrderNotFound, FindOrder, AlreadyPaid, MarkPaid, FindAccess, GrantAccess, Moves,
   PublishPaymentSuccess, Acknowledge, HookFails, vars

\* A look that finds nothing changes no order, no access and no other request.
LEMMA MissingFrame ==
  ASSUME TypeOK, [Next]_vars, NEW v \in Hooks, AccessMissing(v)
  PROVE  /\ hook[v].at = "access"
         /\ hook'[v] = [at |-> "insert", code |-> hook[v].code, order |-> hook[v].order]
         /\ \A u \in Hooks \ {v} : hook'[u] = hook[u]
         /\ raced' = IF MissedBy(v) = {} THEN raced
                     ELSE raced \cup {RightOf(hook[v].order)}
         /\ ~HasAccess(RightOf(hook[v].order))
         /\ access' = access
<1>1. /\ hook[v].at = "access"
      /\ hook'[v] = [at |-> "insert", code |-> hook[v].code, order |-> hook[v].order]
      /\ \A u \in Hooks \ {v} : hook'[u] = hook[u]
  BY MovesTyped DEF AccessMissing, Stages
<1>2. ASSUME access' # access PROVE FALSE
  <2>1. PICK u \in Hooks : hook[u].at = "insert" /\ GrantAccess(u)
    BY <1>2, GrantSource
  <2>2. hook'[u] = [at |-> "publish", code |-> hook[u].code, order |-> hook[u].order]
    BY <2>1, MovesTyped DEF GrantAccess, Stages
  <2> QED
    BY <1>1, <2>1, <2>2
<1> QED
  BY <1>1, <1>2 DEF AccessMissing

LEMMA MissedStep ==
  ASSUME TypeOK, HookFollowsOrder, PaidFor, MissedIsRaced, [Next]_vars, TypeOK', Kept
  PROVE  MissedIsRaced'
<1> SUFFICES ASSUME NEW w \in Hooks, hook'[w].at = "insert",
                    (HasAccess(RightOf(hook[w].order)) \/ MissedBy(w) # {})'
             PROVE  RightOf(hook[w].order)' \in raced'
  BY DEF MissedIsRaced
<1> DEFINE Right(v) == RightOf(hook[v].order)
<1>1. \A v \in Hooks : hook'[v].at = "insert" =>
        /\ hook[v].at \in {"access", "insert"} /\ hook'[v].order = hook[v].order
        /\ hook[v].order \in Placed
        /\ Right(v)' = Right(v)
  <2> SUFFICES ASSUME NEW v \in Hooks, hook'[v].at = "insert"
               PROVE  /\ hook[v].at \in {"access", "insert"}
                      /\ hook'[v].order = hook[v].order
                      /\ hook[v].order \in Placed
                      /\ Right(v)' = Right(v)
    OBVIOUS
  <2>1. hook[v].at \in {"access", "insert"} /\ hook'[v].order = hook[v].order
    <3>1. CASE hook'[v] = hook[v]
      BY <3>1
    <3>2. CASE AccessMissing(v)
      <4>1. hook[v].at = "access"
        BY <3>2, MissingFrame
      <4>2. hook'[v] = [at |-> "insert", code |-> hook[v].code, order |-> hook[v].order]
        BY <3>2, MissingFrame
      <4> QED
        BY <4>1, <4>2
    <3> QED
      BY <3>1, <3>2, ReachesInsert
  <2>2. hook[v].order \in Placed
    BY <2>1, AtWork
  <2> QED
    BY <2>1, <2>2, KeptFacts DEF RightOf
<1>2. CASE AccessMissing(w)
  <2>1. ~HasAccess(Right(w)) /\ access' = access
    BY <1>2, MissingFrame
  <2>2. ~HasAccess(RightOf(hook[w].order))'
    BY <1>1, <2>1, KeptFacts DEF HasAccess, AccessDocs
  <2>3. PICK v \in Hooks \ {w} : hook'[v].at = "insert" /\ Right(v)' = Right(w)'
    BY <2>2 DEF MissedBy
  <2>4. hook'[v] = hook[v] /\ Right(v) = Right(w)
    <3>1. \A u \in Hooks \ {w} : hook'[u] = hook[u]
      BY <1>2, MissingFrame
    <3>2. hook'[v] = hook[v]
      BY <2>3, <3>1
    <3> QED
      BY <1>1, <2>3, <3>2
  <2>5. v \in MissedBy(w)
    BY <2>3, <2>4 DEF MissedBy
  <2> QED
    BY <1>1, <1>2, <2>5, MissingFrame
<1>3. CASE hook'[w] = hook[w]
  <2>1. CASE HasAccess(Right(w)) \/ MissedBy(w) # {}
    BY <1>1, <1>3, <2>1 DEF MissedIsRaced, Kept
  <2>2. CASE ~HasAccess(Right(w)) /\ MissedBy(w) = {}
    <3>1. ASSUME HasAccess(RightOf(hook[w].order))' PROVE FALSE
      <4>1. PICK d \in access' : RightOf(d[1])' = Right(w)
        BY <1>1, <3>1 DEF HasAccess, AccessDocs
      <4>2. d \notin access
        BY <2>2, <4>1, KeptFacts DEF HasAccess, AccessDocs
      <4>3. PICK u \in Hooks : /\ hook[u].at = "insert" /\ GrantAccess(u)
                               /\ d = <<hook[u].order, u>>
        BY <4>1, <4>2, GrantSource
      <4>4. hook'[u] = [at |-> "publish", code |-> hook[u].code, order |-> hook[u].order]
        BY <4>3, MovesTyped DEF GrantAccess, Stages
      <4>5. u # w
        BY <4>4
      <4>6. d[1] = hook[u].order /\ hook[u].order \in Placed
        BY <4>3, AtWork
      <4>7. Right(u) = Right(w)
        BY <4>1, <4>6, KeptFacts
      <4>8. u \in MissedBy(w)
        BY <4>3, <4>5, <4>7 DEF MissedBy
      <4> QED
        BY <2>2, <4>8
    <3>2. PICK v \in Hooks \ {w} : hook'[v].at = "insert" /\ Right(v)' = Right(w)'
      BY <3>1 DEF MissedBy
    <3>3. Right(v) = Right(w)
      BY <1>1, <3>2
    <3>4. hook'[v] # hook[v]
      BY <2>2, <3>2, <3>3 DEF MissedBy
    <3>5. AccessMissing(v)
      BY <3>2, <3>4, ReachesInsert
    <3>6. w \in MissedBy(v)
      BY <1>3, <3>2, <3>3 DEF MissedBy
    <3>7. raced' = IF MissedBy(v) = {} THEN raced ELSE raced \cup {Right(v)}
      BY <3>5, MissingFrame
    <3>8. Right(v) \in raced'
      BY <3>6, <3>7
    <3>9. Right(w)' = Right(w)
      BY <1>1
    <3> QED
      BY <3>3, <3>8, <3>9
  <2> QED
    BY <2>1, <2>2
<1> QED
  BY <1>2, <1>3, ReachesInsert

LEMMA OneAccessStep ==
  ASSUME TypeOK, HookFollowsOrder, PaidFor, MissedIsRaced, OneAccessPerRight,
         [Next]_vars, TypeOK', Kept
  PROVE  OneAccessPerRight'
<1>1. \A d \in access : RightOf(d[1])' = RightOf(d[1])
  BY KeptFacts
<1>2. CASE access' = access
  BY <1>1, <1>2 DEF OneAccessPerRight, Kept
<1>3. ASSUME NEW u \in Hooks, hook[u].at = "insert", NEW n, n = <<hook[u].order, u>>,
             access' = access \cup {n}
      PROVE  OneAccessPerRight'
  <2>1. n[1] = hook[u].order /\ RightOf(n[1])' = RightOf(hook[u].order)
    <3>1. hook[u].order \in Placed
      BY <1>3, AtWork
    <3>2. n[1] = hook[u].order
      BY <1>3
    <3>3. \A o \in Placed : order'[o].right = order[o].right
      BY DEF Kept
    <3> QED
      BY <3>1, <3>2, <3>3 DEF RightOf
  <2>2. ASSUME NEW d \in access, RightOf(d[1]) = RightOf(hook[u].order)
        PROVE  RightOf(d[1]) \in raced'
    BY <1>3, <2>2 DEF MissedIsRaced, HasAccess, AccessDocs, Kept
  <2>3. ASSUME NEW d \in access', NEW e \in access', RightOf(d[1])' = RightOf(e[1])', d # e
        PROVE  RightOf(d[1])' \in raced'
    <3>1. CASE d \in access /\ e \in access
      BY <1>1, <2>3, <3>1 DEF OneAccessPerRight, Kept
    <3>2. CASE d = n /\ e \in access
      <4>1. RightOf(d[1])' = RightOf(hook[u].order)
        BY <2>1, <3>2
      <4>2. RightOf(e[1])' = RightOf(e[1])
        BY <1>1, <3>2
      <4> QED
        BY <2>2, <2>3, <3>2, <4>1, <4>2
    <3>3. CASE d \in access /\ e = n
      <4>1. RightOf(e[1])' = RightOf(hook[u].order)
        BY <2>1, <3>3
      <4>2. RightOf(d[1])' = RightOf(d[1])
        BY <1>1, <3>3
      <4> QED
        BY <2>2, <2>3, <3>3, <4>1, <4>2
    <3> QED
      BY <1>3, <2>3, <3>1, <3>2, <3>3
  <2> QED
    BY <2>3 DEF OneAccessPerRight
<1> QED
  BY <1>2, <1>3, GrantSource

-----------------------------------------------------------------------------
LEMMA PurchaseInit == Init => PurchaseInv
<1> SUFFICES ASSUME Init PROVE PurchaseInv
  OBVIOUS
<1>1. \A w \in Hooks : hook[w] = Idle /\ hook[w].at = "idle"
  BY IdleTyped DEF Init
<1>2. Paid = {} /\ access = {} /\ acked = {} /\ \A o \in Orders : window[o] = "closed"
  BY DEF Init, Paid, Absent
<1> QED
  BY <1>1, <1>2, TypeInit DEF PurchaseInv, HookFollowsOrder, MissedIsRaced, PaidIsReadable,
     PaidFor, OneAccessPerRight, ShownIsPaid

LEMMA PurchaseStep == PurchaseInv /\ [Next]_vars => PurchaseInv'
<1> SUFFICES ASSUME PurchaseInv, [Next]_vars PROVE PurchaseInv'
  OBVIOUS
<1>1. TypeOK' /\ Kept
  BY TypeStep, KeptStep DEF PurchaseInv
<1>2. HookFollowsOrder' /\ PaidFor' /\ PaidIsReadable' /\ ShownIsPaid'
  BY <1>1, HookFollowsStep, PaidForStep, ReadableStep, ShownStep DEF PurchaseInv
<1>3. MissedIsRaced' /\ OneAccessPerRight'
  BY <1>1, MissedStep, OneAccessStep DEF PurchaseInv
<1> QED
  BY <1>1, <1>2, <1>3 DEF PurchaseInv

\* The inductive invariant of the purchases, with no assumption on how often
\* or how concurrently SePay reports (PaymentService.cs:91-162).
THEOREM PurchaseInvariance == Spec => []PurchaseInv
<1>1. Init => PurchaseInv
  BY PurchaseInit
<1>2. PurchaseInv /\ [Next]_vars => PurchaseInv'
  BY PurchaseStep
<1> QED
  BY <1>1, <1>2, PTL DEF Spec

\* A SUCCESS order opens the book, or its webhook is on the way to open it or
\* was cut short there (PaymentService.cs:118-146).
THEOREM PaidIsReadableHolds == Spec => []PaidIsReadable
<1>1. PurchaseInv => PaidIsReadable
  BY DEF PurchaseInv
<1> QED
  BY <1>1, PurchaseInvariance, PTL

\* No access without a SUCCESS order, no SUCCESS order without a transfer, no
\* 200 without a SUCCESS order (PaymentService.cs:107-146).
THEOREM PaidForHolds == Spec => []PaidFor
<1>1. PurchaseInv => PaidFor
  BY DEF PurchaseInv
<1> QED
  BY <1>1, PurchaseInvariance, PTL

\* One access document per reader and book, unless two webhooks found none at
\* the same time (PaymentService.cs:133-146).
THEOREM OneAccessPerRightHolds == Spec => []OneAccessPerRight
<1>1. PurchaseInv => OneAccessPerRight
  BY DEF PurchaseInv
<1> QED
  BY <1>1, PurchaseInvariance, PTL

\* A window that shows success has a code that was paid (PaymentModal.tsx:97-121,
\* RedisPaymentService.cs:24-37).
THEOREM ShownIsPaidHolds == Spec => []ShownIsPaid
<1>1. PurchaseInv => ShownIsPaid
  BY DEF PurchaseInv
<1> QED
  BY <1>1, PurchaseInvariance, PTL

\* The books balance: what was granted, marked and answered was paid for, and
\* granted once (PaymentService.cs:107-146).
THEOREM BooksBalanceHolds == Spec => []BooksBalance
<1>1. PaidFor /\ OneAccessPerRight => BooksBalance
  BY DEF BooksBalance
<1> QED
  BY <1>1, PaidForHolds, OneAccessPerRightHolds, PTL

-----------------------------------------------------------------------------
(***************************************************************************)
(* BookPurchase implements Sale.                                           *)
(***************************************************************************)
\* What is forgotten was paid.
LEMMA CutIsPaidStep ==
  ASSUME TypeOK, HookFollowsOrder, cut \subseteq Paid, [Next]_vars, Kept
  PROVE  (cut \subseteq Paid)'
<1>1. ASSUME NEW w \in Hooks, HookFails(w) PROVE cut' \subseteq Paid
  BY <1>1 DEF HookFails, HookFollowsOrder
<1>2. cut' \subseteq Paid
  BY <1>1, NextCases DEF CreatePaymentQr, Transfer, PollStatus, CloseWindow, Deliver,
     OrderNotFound, FindOrder, AlreadyPaid, MarkPaid, FindAccess, GrantAccess,
     PublishPaymentSuccess, Acknowledge, vars
<1> QED
  BY <1>2 DEF Kept

\* The fields by which an order is known, and the codes that are drawn.
LEMMA AskedFields ==
  ASSUME TypeOK, NEW o \in Orders
  PROVE  /\ Asked[o].right = RightOf(o) /\ Asked[o].code = order[o].code
         /\ Asked[o] = [right |-> order[o].right, code |-> order[o].code]
         /\ o \notin Placed => Asked[o] = Sales!Unasked /\ WithCode(order[o].code) = {}
         /\ \A c \in Codes : o \in WithCode(c) <=> o \in Sales!WithCode(c)
<1>1. /\ Asked[o].right = RightOf(o) /\ Asked[o].code = order[o].code
      /\ Asked[o] = [right |-> order[o].right, code |-> order[o].code]
  BY DEF Asked, RightOf
<1>2. ASSUME o \notin Placed PROVE Asked[o] = Sales!Unasked /\ WithCode(order[o].code) = {}
  <2>1. order[o] = Absent
    BY <1>2, OrderFields
  <2>2. order[o].code = NoCode /\ order[o].right = <<>>
    BY <2>1 DEF Absent
  <2>3. \A p \in Placed : p \in Orders /\ order[p].code \in Codes
    BY OrderFields DEF Placed
  <2> QED
    BY <1>1, <2>2, <2>3 DEF Sales!Unasked, WithCode
<1>3. ASSUME NEW c \in Codes PROVE o \in WithCode(c) <=> o \in Sales!WithCode(c)
  <2>1. order[o].code = c => o \in Placed
    BY OrderFields DEF Absent
  <2> QED
    BY <1>1, <2>1 DEF WithCode, Sales!WithCode
<1> QED
  BY <1>1, <1>2, <1>3

\* What no reader has been handed over meanwhile stays as it is.
LEMMA SameAccess ==
  ASSUME TypeOK, TypeOK', PaidFor, Kept, access' = access
  PROVE  /\ \A r : HasAccess(r)' <=> HasAccess(r)
         /\ Owned' = Owned
         /\ Paid' = Paid /\ cut' = cut => Owing' = Owing
<1>1. \A d \in access : RightOf(d[1])' = RightOf(d[1])
  BY KeptFacts
<1>2. \A r : HasAccess(r)' <=> HasAccess(r)
  BY <1>1 DEF HasAccess, AccessDocs
<1>3. Owned' = Owned
  BY <1>2 DEF Owned
<1>4. \A o \in Paid : o \in Placed /\ RightOf(o)' = RightOf(o)
  BY KeptFacts, OrderFields DEF Paid
<1>5. Paid' = Paid /\ cut' = cut => Owing' = Owing
  BY <1>2, <1>4 DEF Owing
<1> QED
  BY <1>2, <1>3, <1>5

LEMMA SaleInit == Init => Sales!Init
<1> SUFFICES ASSUME Init PROVE Sales!Init
  OBVIOUS
<1>1. Asked = [o \in Orders |-> Sales!Unasked]
  BY DEF Init, Asked, Absent, Sales!Unasked
<1>2. Paid = {} /\ Owing = {}
  BY DEF Init, Paid, Absent, Owing
<1>3. Owned = {} /\ Told = {}
  BY DEF Init, Owned, HasAccess, AccessDocs, Told
<1> QED
  BY <1>1, <1>2, <1>3 DEF Init, Sales!Init

LEMMA SaleStep ==
  ASSUME PurchaseInv, cut \subseteq Paid, [Next]_vars, TypeOK', Kept
  PROVE  [Sales!Next]_Sales!promised
<1> DEFINE G == [Sales!Next]_Sales!promised
<1>1. TypeOK /\ HookFollowsOrder /\ PaidFor /\ ShownIsPaid
  BY DEF PurchaseInv
<1>2. order' = order => Asked' = Asked /\ Paid' = Paid
  BY DEF Asked, Paid
<1>3. window' = window => Told' = Told
  BY DEF Told
<1>4. ASSUME UNCHANGED <<order, access, transfers, acked, cut>>, Told' = Told PROVE G
  <2>1. Owned' = Owned /\ Owing' = Owing
    BY <1>1, <1>2, <1>4, SameAccess
  <2> QED
    BY <1>2, <1>4, <2>1 DEF Sales!promised
\* Somebody may be told under the code of a paid order.
<1>5. ASSUME NEW c \in Codes, NEW p \in WithCode(c) \cap Paid
      PROVE  Sales!WithCode(c) \cap Paid # {}
  BY <1>1, <1>5, AskedFields DEF WithCode, Placed
<1>6. ASSUME NEW o \in Orders, NEW r \in Rights, NEW c \in Codes, CreatePaymentQr(o, r, c)
      PROVE  G
  <2>1. /\ o \notin Placed /\ order[o] = Absent
        /\ order' = [order EXCEPT ![o] = [right |-> r, code |-> c, status |-> "PENDING"]]
        /\ UNCHANGED <<access, transfers, acked, cut>>
    BY <1>1, <1>6, OrderFields DEF CreatePaymentQr
  <2>2. order'[o] = [right |-> r, code |-> c, status |-> "PENDING"]
        /\ \A p \in Orders : p # o => order'[p] = order[p]
    BY <1>1, <2>1 DEF TypeOK
  <2>3. Paid' = Paid
    BY <2>1, <2>2 DEF Paid, Absent
  <2>4. Owned' = Owned /\ Owing' = Owing
    BY <1>1, <2>1, <2>3, SameAccess
  <2>5. Asked' = [Asked EXCEPT ![o] = [right |-> r, code |-> c]]
    <3>1. order'[o].right = r /\ order'[o].code = c
      BY <2>2
    <3>2. Asked'[o] = [right |-> r, code |-> c]
      BY <3>1 DEF Asked
    <3>3. \A p \in Orders : p # o => Asked'[p] = Asked[p]
      BY <2>2 DEF Asked
    <3>4. Asked' = [p \in Orders |-> Asked'[p]] /\ Asked = [p \in Orders |-> Asked[p]]
      BY DEF Asked
    <3> QED
      BY <3>2, <3>3, <3>4
  <2>6. Told' = Told
    <3>1. window[o] # "success"
      BY <1>1, <2>1, AskedFields DEF ShownIsPaid
    <3>2. window'[o] # "success"
      BY <1>1, <1>6 DEF CreatePaymentQr, TypeOK
    <3>3. \A p \in Orders : p # o => window'[p] = window[p]
      BY <1>1, <1>6 DEF CreatePaymentQr, TypeOK
    <3> QED
      BY <3>1, <3>2, <3>3 DEF Told
  <2>7. Sales!Ask(o, r, c)
    BY <1>1, <2>1, <2>3, <2>4, <2>5, <2>6, AskedFields DEF Sales!Ask
  <2> QED
    BY <2>7 DEF Sales!Next
<1>7. ASSUME NEW c \in Codes, Transfer(c) PROVE G
  <2>1. /\ transfers' = transfers \cup {c}
        /\ UNCHANGED <<order, access, acked, cut, window>>
    BY <1>7 DEF Transfer
  <2>2. Owned' = Owned /\ Owing' = Owing
    BY <1>1, <1>2, <2>1, SameAccess
  <2>3. Sales!Pay(c)
    BY <1>2, <1>3, <2>1, <2>2 DEF Sales!Pay
  <2> QED
    BY <2>3 DEF Sales!Next
\* A window learns, by a poll or by a message.
<1>8. ASSUME NEW c \in Codes, NEW p \in WithCode(c) \cap Paid,
             UNCHANGED <<order, access, transfers, acked, cut>>,
             Told \subseteq Told', Told' \subseteq Told \cup WithCode(c)
      PROVE  G
  <2>1. Owned' = Owned /\ Owing' = Owing
    BY <1>1, <1>2, <1>8, SameAccess
  <2>2. WithCode(c) \subseteq Sales!WithCode(c)
    BY <1>1, AskedFields DEF WithCode, Placed
  <2>3. Sales!WithCode(c) \cap Paid # {}
    BY <1>5
  <2>4. Sales!Tell(c)
    BY <1>2, <1>8, <2>1, <2>2, <2>3 DEF Sales!Tell
  <2> QED
    BY <2>4 DEF Sales!Next
<1>9. ASSUME NEW o \in Orders, PollStatus(o) PROVE G
  <2>1. PICK p \in WithCode(order[o].code) : p \in Paid
    BY <1>9 DEF PollStatus
  <2>2. order[o].code \in Codes /\ o \in WithCode(order[o].code)
    <3>1. o \in Placed
      BY <1>1, <2>1, AskedFields
    <3> QED
      BY <1>1, <3>1, OrderFields DEF WithCode
  <2>3. Told' = Told \cup {o}
    BY <1>1, <1>9 DEF PollStatus, Told, TypeOK
  <2> QED
    BY <1>8, <1>9, <2>1, <2>2, <2>3 DEF PollStatus
<1>10. ASSUME NEW o \in Orders, CloseWindow(o) PROVE G
  <2>1. Told' = Told
    BY <1>1, <1>10 DEF CloseWindow, Told, TypeOK
  <2> QED
    BY <1>4, <1>10, <2>1 DEF CloseWindow
<1>11. ASSUME NEW w \in Hooks,
              \/ \E c \in Codes : Deliver(w, c)
              \/ OrderNotFound(w) \/ FindOrder(w) \/ FindAccess(w)
       PROVE  G
  BY <1>3, <1>4, <1>11 DEF Deliver, OrderNotFound, FindOrder, FindAccess
<1>12. ASSUME NEW w \in Hooks, AlreadyPaid(w) \/ Acknowledge(w) PROVE G
  <2>1. /\ acked' = acked \cup {hook[w].code}
        /\ UNCHANGED <<order, access, transfers, cut, window>>
    BY <1>12 DEF AlreadyPaid, Acknowledge
  <2>2. hook[w].at # "idle" /\ hook[w].code \in Codes
    BY <1>1, <1>12, AtWork DEF AlreadyPaid, Acknowledge
  <2>3. WithCode(hook[w].code) \cap Paid # {}
    BY <1>1, <1>12 DEF AlreadyPaid, Acknowledge, HookFollowsOrder
  <2>4. Sales!WithCode(hook[w].code) \cap Paid # {}
    BY <1>5, <2>2, <2>3
  <2>5. Owned' = Owned /\ Owing' = Owing
    BY <1>1, <1>2, <2>1, SameAccess
  <2>6. Sales!Settle(hook[w].code)
    BY <1>2, <1>3, <2>1, <2>4, <2>5 DEF Sales!Settle
  <2> QED
    BY <2>2, <2>6 DEF Sales!Next
<1>13. ASSUME NEW w \in Hooks, MarkPaid(w) PROVE G
  <2> DEFINE o == hook[w].order
  <2>1. /\ o \in Orders /\ o \in Placed /\ order[o].code \in transfers
        /\ order' = [order EXCEPT ![o].status = "SUCCESS"]
        /\ UNCHANGED <<access, transfers, acked, cut, window>>
    BY <1>1, <1>13, AtWork DEF MarkPaid, Moves, HookFollowsOrder, Placed
  <2>2. order'[o] = [right |-> order[o].right, code |-> order[o].code, status |-> "SUCCESS"]
        /\ \A p \in Orders : p # o => order'[p] = order[p]
    BY <1>1, <2>1, MarkTyped DEF TypeOK
  <2>3. Asked' = Asked
    BY <2>2 DEF Asked
  <2>4. Paid' = Paid \cup {o}
    BY <2>1, <2>2 DEF Paid
  <2>5. Owned' = Owned /\ \A r : HasAccess(r)' <=> HasAccess(r)
    BY <1>1, <2>1, SameAccess
  <2>6. CASE o \in Paid
    <3>1. Paid' = Paid
      BY <2>4, <2>6
    <3>2. Owing' = Owing
      BY <1>1, <2>1, <3>1, SameAccess
    <3> QED
      BY <1>3, <2>1, <2>3, <2>5, <3>1, <3>2 DEF Sales!promised
  <2>7. CASE o \notin Paid
    <3>1. o \notin cut
      BY <2>7
    <3>2. \A p \in Paid' : RightOf(p)' = RightOf(p)
      BY <2>2, <2>4 DEF RightOf, Paid
    <3>3. RightOf(o) \in Rights /\ Asked[o].right = RightOf(o)
          /\ Asked[o].code = order[o].code
      BY <1>1, <2>1, OrderFields, AskedFields DEF RightOf
    <3>4. HasAccess(RightOf(o)) <=> Asked[o].right \in Owned
      BY <3>3 DEF Owned
    <3>5. Owing' = Owing \cup {p \in {o} : Asked[p].right \notin Owned}
      BY <2>1, <2>4, <2>5, <2>7, <3>1, <3>2, <3>4 DEF Owing
    <3>6. Sales!Sell(o)
      BY <1>3, <2>1, <2>3, <2>4, <2>5, <2>7, <3>3, <3>5 DEF Sales!Sell
    <3> QED
      BY <2>1, <3>6 DEF Sales!Next
  <2> QED
    BY <2>6, <2>7
<1>14. ASSUME NEW w \in Hooks, GrantAccess(w) PROVE G
  <2> DEFINE o == hook[w].order
             r == RightOf(o)
  <2>1. /\ o \in Paid /\ o \in Orders
        /\ access' = access \cup {<<o, w>>}
        /\ UNCHANGED <<order, transfers, acked, cut, window>>
    BY <1>1, <1>14 DEF GrantAccess, Moves, HookFollowsOrder, Paid
  <2>2. r \in Rights /\ Asked[o].right = r
    BY <1>1, <2>1, OrderFields, AskedFields DEF RightOf
  <2>3. \A s : HasAccess(s)' <=> HasAccess(s) \/ s = r
    <3>1. \A p : RightOf(p)' = RightOf(p)
      BY <2>1 DEF RightOf
    <3>2. <<o, w>>[1] = o
      OBVIOUS
    <3> QED
      BY <2>1, <3>1, <3>2 DEF HasAccess, AccessDocs
  <2>4. Owned' = Owned \cup {r}
    BY <2>2, <2>3 DEF Owned
  <2>5. Owing' = {p \in Owing : Asked[p].right # r}
    <3>1. \A p \in Paid : RightOf(p)' = RightOf(p) /\ Asked[p].right = RightOf(p)
      BY <1>1, <2>1, AskedFields DEF RightOf, Paid
    <3> QED
      BY <1>2, <2>1, <2>3, <3>1 DEF Owing
  <2>6. Sales!HandOver(r)
    BY <1>2, <1>3, <2>1, <2>2, <2>4, <2>5 DEF Sales!HandOver
  <2> QED
    BY <2>2, <2>6 DEF Sales!Next
<1>15. ASSUME NEW w \in Hooks, PublishPaymentSuccess(w) PROVE G
  <2>1. PICK told \in SUBSET {o \in WithCode(order[hook[w].order].code) : window[o] = "open"} :
          window' = [o \in Orders |-> IF o \in told THEN "success" ELSE window[o]]
    BY <1>15 DEF PublishPaymentSuccess
  <2>2. /\ hook[w].order \in WithCode(order[hook[w].order].code) \cap Paid
        /\ order[hook[w].order].code \in Codes
    BY <1>1, <1>15, AtWork, OrderFields
       DEF PublishPaymentSuccess, Moves, HookFollowsOrder, WithCode, Placed
  <2>3. Told \subseteq Told' /\ Told' \subseteq Told \cup WithCode(order[hook[w].order].code)
    BY <2>1 DEF Told
  <2> QED
    BY <1>8, <1>15, <2>2, <2>3 DEF PublishPaymentSuccess
<1>16. ASSUME NEW w \in Hooks, HookFails(w) PROVE G
  <2>1. UNCHANGED <<order, access, transfers, acked, window>>
    BY <1>16 DEF HookFails
  <2>2. CASE cut' = cut
    BY <1>3, <1>4, <2>1, <2>2
  <2>3. CASE /\ hook[w].at \in {"access", "insert"}
             /\ cut' = cut \cup {hook[w].order}
    <3>1. hook[w].order \in Orders
      BY <1>1, <2>3 DEF HookFollowsOrder, Paid
    <3>2. Owned' = Owned /\ \A r : HasAccess(r)' <=> HasAccess(r)
      BY <1>1, <2>1, SameAccess
    <3>3. Owing' = Owing \ {hook[w].order}
      BY <1>2, <2>1, <2>3, <3>2 DEF Owing, RightOf
    <3>4. Sales!Forget(hook[w].order)
      BY <1>2, <1>3, <2>1, <3>2, <3>3 DEF Sales!Forget
    <3> QED
      BY <3>1, <3>4 DEF Sales!Next
  <2> QED
    BY <1>16, <2>2, <2>3 DEF HookFails
<1>17. CASE UNCHANGED vars
  BY <1>3, <1>4, <1>17 DEF vars
<1>18. CASE Next
  BY <1>6, <1>7, <1>9, <1>10, <1>11, <1>12, <1>13, <1>14, <1>15, <1>16, <1>18, NextCases
<1> QED
  BY <1>17, <1>18

\* The collections, the webhook and the window implement a sale, however often
\* and concurrently SePay reports and wherever a request stops: an order is
\* sold once and for good after its code was paid, a right comes from a sold
\* order and stays, and bank and reader are told of what is sold only
\* (PaymentService.cs:91-162).
THEOREM SaleHolds == Spec => SaleSpec
<1> DEFINE Inv == PurchaseInv /\ cut \subseteq Paid
<1>1. Init => Inv /\ Sales!Init
  BY PurchaseInit, SaleInit DEF Init
<1>2. Inv /\ [Next]_vars => Inv' /\ [Sales!Next]_Sales!promised
  <2> SUFFICES ASSUME Inv, [Next]_vars PROVE Inv' /\ [Sales!Next]_Sales!promised
    OBVIOUS
  <2>1. TypeOK /\ HookFollowsOrder /\ TypeOK' /\ Kept
    BY TypeStep, KeptStep DEF PurchaseInv
  <2> QED
    BY <2>1, PurchaseStep, CutIsPaidStep, SaleStep
<1> QED
  BY <1>1, <1>2, PTL DEF Spec, SaleSpec, Sales!Spec
=============================================================================
