-------------------------- MODULE ReservationQueue --------------------------
(***************************************************************************)
(* The waiting list of one book: ReservationService over the reservations  *)
(* collection.  A reservation holds a position of its own, so whoever      *)
(* leaves the list renumbers the others, one whole-document replacement    *)
(* after another, and nothing locks the list meanwhile.                    *)
(*                                                                         *)
(* No handler touches the reservations of two books.  A reservation is     *)
(* named after the request that places it.  Nothing in the program writes  *)
(* the status READY, so an active reservation is a WAITING one and the     *)
(* expiry worker finds nothing to expire.                                  *)
(*                                                                         *)
(* An action is the code between two awaits.                               *)
(***************************************************************************)
EXTENDS Integers, FiniteSets

CONSTANTS
  Creates,    \* requests to reserve the book, and their reservations
  Changes,    \* requests to cancel or fulfil a reservation
  Members,
  MemberOf,   \* dto.UserId of each create request
  Nothing,    \* no reservation
  MaxFaults   \* bound: requests that are cut short

\* What is assumed of the traffic.
CONSTANT
  OneChange   \* one cancel or fulfil request for the book is served at a time

ASSUME QueueAssumption ==
  /\ Creates \cap Changes = {} /\ Nothing \notin Creates
  /\ IsFiniteSet(Creates)
  /\ MemberOf \in [Creates -> Members]
  /\ MaxFaults \in Nat
  /\ OneChange \in BOOLEAN

VARIABLES
  doc,         \* the reservations collection: status and queuePosition
  reservedAt,  \* when each was placed
  clock,       \* how many have been placed
  stage,       \* where each request is
  next,        \* the position a create request read, 0 before
  target,      \* the reservation a change request is about
  closing,     \* the status it writes
  seen,        \* the documents it read
  queue,       \* their order, positions ascending
  index,       \* the list place up to which it has renumbered
  raced,       \* history: two create requests were served at once
  closedSince, \* history: what others have closed since a change request read it
  faults

createVars == <<next>>
changeVars == <<target, closing, seen, queue, index, closedSince>>
docVars == <<doc, reservedAt, clock>>
vars == <<docVars, stage, createVars, changeVars, raced, faults>>

Closed == {"CANCELLED", "FULFILLED"}
Doc == [status : {"WAITING"} \cup Closed, position : Nat \ {0}]
Absent == [status |-> "absent", position |-> 0]

\* Mutant: a cancelled reservation still counts as active.
CancelledIsActive(d) == d.status \in {"WAITING", "CANCELLED"}

IsActive(d) == d.status = "WAITING"

\* GetActiveByBookIdAsync, before its sort.
Waiting == {r \in Creates : IsActive(doc[r])}

Requests == Creates \cup Changes
Ended == {"done", "refused", "failed"}
Served(q) == stage[q] \notin {"idle"} \cup Ended

Orders(S) == [1..Cardinality(S) -> S]
Lists == UNION {Orders(S) : S \in SUBSET Creates}

TypeOK ==
  /\ doc \in [Creates -> Doc \cup {Absent}]
  /\ reservedAt \in [Creates -> Nat] /\ clock \in Nat
  /\ stage \in [Requests -> {"idle", "existing", "copies", "position", "insert",
                             "get", "replace", "list", "renumber"} \cup Ended]
  /\ next \in [Creates -> Nat]
  /\ target \in [Changes -> Creates \cup {Nothing}]
  /\ closing \in [Changes -> Closed]
  /\ seen \in [Changes -> [Creates -> Doc \cup {Absent}]]
  /\ queue \in [Changes -> Lists]
  /\ index \in [Changes -> Nat]
  /\ raced \in BOOLEAN
  /\ closedSince \in [Changes -> SUBSET Creates]
  /\ faults \in 0..MaxFaults

Unseen == [r \in Creates |-> Absent]
NoOrder == [i \in 1..0 |-> Nothing]

Init ==
  /\ doc = Unseen
  /\ reservedAt = [r \in Creates |-> 0] /\ clock = 0
  /\ stage = [q \in Requests |-> "idle"]
  /\ next = [r \in Creates |-> 0]
  /\ target = [c \in Changes |-> Nothing]
  /\ closing = [c \in Changes |-> "CANCELLED"]
  /\ seen = [c \in Changes |-> Unseen]
  /\ queue = [c \in Changes |-> NoOrder]
  /\ index = [c \in Changes |-> 0]
  /\ raced = FALSE
  /\ closedSince = [c \in Changes |-> {}]
  /\ faults = 0

GoTo(q, s) == stage' = [stage EXCEPT ![q] = s]

\* The request is over and its memory gone.
EndCreate(r, how) ==
  /\ GoTo(r, how)
  /\ next' = [next EXCEPT ![r] = 0]
  /\ UNCHANGED changeVars

EndChange(c, how) ==
  /\ GoTo(c, how)
  /\ target' = [target EXCEPT ![c] = Nothing]
  /\ closing' = [closing EXCEPT ![c] = "CANCELLED"]
  /\ seen' = [seen EXCEPT ![c] = Unseen]
  /\ queue' = [queue EXCEPT ![c] = NoOrder]
  /\ index' = [index EXCEPT ![c] = 0]
  /\ closedSince' = [closedSince EXCEPT ![c] = {}]
  /\ UNCHANGED createVars

(***************************************************************************)
(* CreateReservationAsync                                                  *)
(***************************************************************************)
CreateMoves(r, s, t) ==
  /\ stage[r] = s /\ GoTo(r, t)
  /\ UNCHANGED <<docVars, createVars, changeVars, raced, faults>>

\* The member is active and owes nothing, and the book exists.
BeginCreate(r) ==
  /\ stage[r] = "idle" /\ GoTo(r, "existing")
  /\ raced' = (raced \/ \E s \in Creates : Served(s))
  /\ UNCHANGED <<docVars, createVars, changeVars, faults>>

\* Or not: these checks read what other modules keep.
RefuseMember(r) == CreateMoves(r, "idle", "refused")

HasActive(m) == \E r \in Waiting : MemberOf[r] = m

\* Mutant: a member may reserve the same book again.
SkipExisting(r) == CreateMoves(r, "existing", "copies")

CheckExisting(r) ==
  IF HasActive(MemberOf[r])
  THEN CreateMoves(r, "existing", "refused")
  ELSE CreateMoves(r, "existing", "copies")

\* Copies are available at the desk, or none is: the shelf is not part of
\* this module.
CheckCopies(r) ==
  \/ CreateMoves(r, "copies", "refused")
  \/ CreateMoves(r, "copies", "position")

\* Mutant: one more than the number of active reservations.
CountAndOne == {Cardinality(Waiting) + 1}

\* GetNextQueuePositionAsync: the greatest position and one.
NextPositions ==
  IF Waiting = {} THEN {1}
  ELSE {doc[r].position + 1 : r \in
          {w \in Waiting : \A v \in Waiting : doc[v].position <= doc[w].position}}

ReadPosition(r) ==
  /\ stage[r] = "position" /\ GoTo(r, "insert")
  /\ \E p \in NextPositions : next' = [next EXCEPT ![r] = p]
  /\ UNCHANGED <<docVars, changeVars, raced, faults>>

InsertReservation(r) ==
  /\ stage[r] = "insert"
  /\ doc' = [doc EXCEPT ![r] = [status |-> "WAITING", position |-> next[r]]]
  /\ reservedAt' = [reservedAt EXCEPT ![r] = clock + 1]
  /\ clock' = clock + 1
  /\ EndCreate(r, "done")
  /\ UNCHANGED <<raced, faults>>

(***************************************************************************)
(* CancelReservationAsync and FulfillReservationAsync                      *)
(***************************************************************************)
BeginChange(c, r, how) ==
  /\ stage[c] = "idle"
  /\ OneChange => \A d \in Changes : ~Served(d)
  /\ GoTo(c, "get")
  /\ target' = [target EXCEPT ![c] = r]
  /\ closing' = [closing EXCEPT ![c] = how]
  /\ UNCHANGED <<docVars, createVars, seen, queue, index, closedSince, raced,
                 faults>>

ReadReservation(c) ==
  /\ stage[c] = "get"
  /\ IF IsActive(doc[target[c]])
     THEN /\ GoTo(c, "replace")
          /\ seen' = [seen EXCEPT ![c][target[c]] = doc[target[c]]]
          /\ UNCHANGED <<createVars, target, closing, queue, index, closedSince>>
     ELSE EndChange(c, "refused")
  /\ UNCHANGED <<docVars, raced, faults>>

\* UpdateAsync replaces the document by the copy that was read.
CloseReservation(c) ==
  /\ stage[c] = "replace" /\ GoTo(c, "list")
  /\ doc' = [doc EXCEPT ![target[c]] = [seen[c][target[c]] EXCEPT !.status = closing[c]]]
  /\ closedSince' = [d \in Changes |->
                       IF d # c /\ seen[d][target[c]] # Absent
                       THEN closedSince[d] \cup {target[c]} ELSE closedSince[d]]
  /\ UNCHANGED <<reservedAt, clock, createVars, target, closing, seen, queue,
                 index, raced, faults>>

\* Every way to list S by position; ties come in any order.
Sorted(S) ==
  {o \in Orders(S) :
     /\ {o[i] : i \in DOMAIN o} = S
     /\ \A i, j \in DOMAIN o : i < j => /\ o[i] # o[j]
                                       /\ doc[o[i]].position <= doc[o[j]].position}

\* UpdateQueuePositionsAsync: read the list ...
ReadQueue(c) ==
  /\ stage[c] = "list" /\ GoTo(c, "renumber")
  /\ seen' = [seen EXCEPT ![c] = [r \in Creates |->
                                    IF r \in Waiting THEN doc[r] ELSE Absent]]
  /\ \E o \in Sorted(Waiting) : queue' = [queue EXCEPT ![c] = o]
  /\ closedSince' = [closedSince EXCEPT ![c] = {}]
  /\ UNCHANGED <<docVars, createVars, target, closing, index, raced, faults>>

\* Mutant: the last place of the list is left out.
MisplacedButLast(c) ==
  {i \in DOMAIN queue[c] : /\ i > index[c] /\ i + 1 \in DOMAIN queue[c]
                          /\ seen[c][queue[c][i]].position # i}

\* List places whose reservation, as read, has another position.
Misplaced(c) ==
  {i \in DOMAIN queue[c] : i > index[c] /\ seen[c][queue[c][i]].position # i}

\* ... replace the next one that has another position than its place ...
Renumber(c) ==
  /\ stage[c] = "renumber"
  /\ \E i \in Misplaced(c) :
       /\ \A j \in Misplaced(c) : i <= j
       /\ doc' = [doc EXCEPT ![queue[c][i]] =
                    [seen[c][queue[c][i]] EXCEPT !.position = i]]
       /\ index' = [index EXCEPT ![c] = i]
  /\ UNCHANGED <<reservedAt, clock, stage, createVars, target, closing, seen,
                 queue, closedSince, raced, faults>>

\* ... until there is none.
FinishChange(c) ==
  /\ stage[c] = "renumber" /\ Misplaced(c) = {}
  /\ EndChange(c, "done")
  /\ UNCHANGED <<docVars, raced, faults>>

\* An await throws, or the process stops.
Fail(q) ==
  /\ Served(q) /\ faults < MaxFaults
  /\ faults' = faults + 1
  /\ IF q \in Creates THEN EndCreate(q, "failed") ELSE EndChange(q, "failed")
  /\ UNCHANGED <<docVars, raced>>

CreateStep(r) ==
  \/ CheckExisting(r) \/ CheckCopies(r) \/ ReadPosition(r) \/ InsertReservation(r)

ChangeStep(c) ==
  \/ ReadReservation(c) \/ CloseReservation(c) \/ ReadQueue(c)
  \/ Renumber(c) \/ FinishChange(c)

Next ==
  \/ \E r \in Creates : BeginCreate(r) \/ RefuseMember(r) \/ CreateStep(r)
  \/ \E c \in Changes :
       \/ \E r \in Creates, how \in Closed : BeginChange(c, r, how)
       \/ ChangeStep(c)
  \/ \E q \in Requests : Fail(q)

Spec == Init /\ [][Next]_vars

-----------------------------------------------------------------------------
(***************************************************************************)
(* Properties                                                              *)
(***************************************************************************)
\* Unless create requests raced, whoever reserved first stands first, and no
\* two on one position: what a create request read stays above every position
\* in use, although a cancellation may renumber the list, or stop half way,
\* before it inserts.
QueueInOrder == ~raced =>
  \A r, s \in Waiting :
    reservedAt[r] < reservedAt[s] => doc[r].position < doc[s].position

\* Unless create requests raced, a member has one active reservation of the
\* book: between the look for another and the insertion, none comes back.
OneActivePerMember == ~raced =>
  \A r, s \in Waiting : r # s => MemberOf[r] # MemberOf[s]

\* Change request c is replacing the document of r.
Replaces(c, r) ==
  \/ stage[c] = "replace" /\ stage'[c] = "list" /\ target[c] = r
  \/ /\ stage[c] = "renumber" /\ stage'[c] = "renumber"
     /\ index'[c] \in DOMAIN queue[c] \ {index[c]} /\ queue[c][index'[c]] = r

\* A cancelled or fulfilled reservation is over.  Only a change request that
\* had read it before another one closed it can still write it, whatever
\* create requests, failures and the other change requests do: each of them
\* reads again whom it has itself taken off, and skips who is closed by then.
ClosedForGood ==
  [][\A r \in Creates : doc[r].status \in Closed /\ doc'[r] # doc[r] =>
       \E c \in Changes : Replaces(c, r) /\ r \in closedSince[c]]_vars

\* README.md:92: cancelling takes a reservation off the list.  It does not
\* stand on the list again later.
NeverWaitsAgain ==
  [][\A r \in Creates : doc[r].status \in Closed => ~IsActive(doc'[r])]_vars

\* A change request leaves the positions 1 to n behind, whatever gaps and
\* equal positions failed or racing requests had left, unless somebody has
\* joined since it read the list.
Compacted ==
  [][\A c \in Changes :
       (/\ stage[c] = "renumber" /\ stage'[c] = "done"
        /\ \A r \in Waiting : seen[c][r] # Absent)
       => {doc[r].position : r \in Waiting} = 1..Cardinality(Waiting)]_vars

\* The list members see: who stands, in the order of the positions, and who
\* has left.
Line ==
  {pair \in Waiting \X Waiting : doc[pair[1]].position <= doc[pair[2]].position}
Left == {r \in Creates : doc[r].status \in Closed}

List == INSTANCE WaitingList
          WITH Places <- Creates, line <- Line, gone <- Left, orderly <- ~raced

\* ReservationService keeps the promise of a waiting list at every step:
\* renumbering, one document after another and cut short anywhere, never shows.
\* That nobody stands on the list twice (OneActivePerMember) is part of it.
ListSpec == List!Spec
-----------------------------------------------------------------------------
(***************************************************************************)
(* The inductive invariant                                                 *)
(***************************************************************************)
\* What the steps of one request rely on, whoever else is served.
Shape ==
  /\ \A r \in Creates : /\ stage[r] = "insert" => next[r] > 0
                        /\ doc[r] # Absent => stage[r] = "done"
  /\ \A c \in Changes :
       /\ stage[c] \in {"get", "replace", "list"} => target[c] \in Creates
       /\ stage[c] = "replace" => IsActive(seen[c][target[c]])
       /\ \A i \in DOMAIN queue[c] : /\ queue[c][i] \in Creates
                                     /\ IsActive(seen[c][queue[c][i]])
       /\ \A r \in Creates : seen[c][r] # Absent => stage[r] = "done"

OneChangeServed ==
  \A c, d \in Changes : Served(c) /\ Served(d) => c = d

OneCreateServed == ~raced =>
  \A r, s \in Creates : Served(r) /\ Served(s) => r = s

\* What request c has listed.
Listed(c) == {r \in Creates : seen[c][r] # Absent}

\* The documents a change request has read are still as it read them, or as
\* it left them.
Current(c) ==
  /\ stage[c] = "replace" => doc[target[c]] = seen[c][target[c]]
  /\ stage[c] # "renumber" => index[c] = 0
  /\ stage[c] = "renumber" =>
       /\ DOMAIN queue[c] = 1..Cardinality(Listed(c))
       /\ {queue[c][i] : i \in DOMAIN queue[c]} = Listed(c)
       /\ \A i, j \in DOMAIN queue[c] : i < j => queue[c][i] # queue[c][j]
       /\ \A i \in DOMAIN queue[c] :
            doc[queue[c][i]] = [status |-> "WAITING",
                                position |-> IF i <= index[c] THEN i
                                             ELSE seen[c][queue[c][i]].position]

ReadIsCurrent == \A c \in Changes : Current(c)

\* A closed reservation that a change request may still write was closed by
\* another one since it was read.
ClosedIsNoted ==
  \A c \in Changes, r \in Creates :
    /\ stage[c] \in {"idle", "get"} \cup Ended => seen[c][r] = Absent
    /\ stage[c] \in {"replace", "renumber"} /\ seen[c][r] # Absent
         /\ doc[r].status \in Closed => r \in closedSince[c]

\* Reservations are placed one at a time.
PlacedApart ==
  \A r \in Creates : doc[r] # Absent =>
    /\ reservedAt[r] <= clock
    /\ \A s \in Creates \ {r} : doc[s] # Absent => reservedAt[r] # reservedAt[s]

\* What a create request has checked still holds.
Checked == ~raced =>
  \A r \in Creates, s \in Waiting :
    /\ stage[r] = "insert" => doc[s].position < next[r]
    /\ stage[r] \in {"copies", "position", "insert"} => MemberOf[s] # MemberOf[r]

\* Renumbering moves nobody back, and who has joined since stands behind.
NobodyMovesBack == ~raced =>
  \A c \in Changes : stage[c] = "renumber" =>
    /\ \A i, j \in DOMAIN queue[c] :
         i < j => seen[c][queue[c][i]].position < seen[c][queue[c][j]].position
    /\ \A i \in DOMAIN queue[c] : i <= seen[c][queue[c][i]].position
    /\ \A s \in Waiting \ Listed(c), i \in DOMAIN queue[c] :
         doc[queue[c][i]].position < doc[s].position

\* If one cancellation or fulfilment is served at a time.
QueueInv ==
  /\ Shape /\ OneChangeServed /\ OneCreateServed /\ ReadIsCurrent
  /\ PlacedApart /\ Checked /\ NobodyMovesBack
=============================================================================
