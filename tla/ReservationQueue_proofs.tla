----------------------- MODULE ReservationQueue_proofs -----------------------
(***************************************************************************)
(* What holds of ReservationQueue for every number of members, requests    *)
(* and failures.                                                           *)
(***************************************************************************)
EXTENDS ReservationQueue, FiniteSetTheorems, FunctionTheorems, TLAPS

USE QueueAssumption

-----------------------------------------------------------------------------
\* Rising positions from 1 are at least their place in the list.
LEMMA PlaceAtMostPosition ==
  ASSUME NEW n \in Nat, NEW f \in [1..n -> Nat \ {0}],
         \A i, j \in 1..n : i < j => f[i] < f[j],
         NEW i \in 1..n
  PROVE  i <= f[i]
<1> DEFINE g == [j \in 1..i |-> f[j]]
<1>1. g \in Injection(1..i, 1..f[i])
  <2>1. \A j \in 1..i : f[j] \in Nat /\ f[j] \in 1..f[i]
    OBVIOUS
  <2>2. g \in [1..i -> 1..f[i]]
    BY <2>1
  <2>3. \A j, k \in 1..i : g[j] = g[k] => j = k
    BY <2>1
  <2> QED
    BY <2>2, <2>3 DEF Injection, IsInjective
<1>2. Cardinality(1..i) = i /\ Cardinality(1..f[i]) = f[i] /\ IsFiniteSet(1..f[i])
  BY FS_Interval
<1> QED
  BY <1>1, <1>2, FS_Injection

\* An active document is not absent.
LEMMA ActiveDoc ==
  ASSUME NEW d \in Doc \cup {Absent}
  PROVE  /\ IsActive(d) => d # Absent /\ d \in Doc
         /\ d # Absent <=> d \in Doc
         /\ d \in Doc => /\ d.position \in Nat \ {0}
                         /\ d.status \in {"WAITING"} \cup Closed
                         /\ d = [status |-> d.status, position |-> d.position]
         /\ d.position \in Nat
  BY DEF Doc, Absent, IsActive, Closed

LEMMA ListOf ==
  ASSUME NEW o \in Lists
  PROVE  \E S \in SUBSET Creates : o \in Orders(S)
  BY DEF Lists

LEMMA TypeInit == Init => TypeOK /\ Shape
<1> SUFFICES ASSUME Init PROVE TypeOK /\ Shape
  OBVIOUS
<1>1. NoOrder \in Lists /\ DOMAIN NoOrder = {}
  <2>1. NoOrder \in Orders({})
    BY FS_EmptySet DEF NoOrder, Orders
  <2> QED
    BY <2>1 DEF NoOrder, Lists
<1> QED
  <2>1. TypeOK
    <3>1. Unseen \in [Creates -> Doc \cup {Absent}] /\ "CANCELLED" \in Closed
      BY DEF Unseen, Closed
    <3> QED
      <4>1. doc \in [Creates -> Doc \cup {Absent}]
            /\ seen \in [Changes -> [Creates -> Doc \cup {Absent}]]
        BY <3>1 DEF Init
      <4>2. stage \in [Requests -> {"idle", "existing", "copies", "position", "insert",
                              "get", "replace", "list", "renumber"} \cup Ended]
        BY DEF Init
      <4>3. /\ next \in [Creates -> Nat] /\ target \in [Changes -> Creates \cup {Nothing}]
            /\ closing \in [Changes -> Closed] /\ index \in [Changes -> Nat]
            /\ closedSince \in [Changes -> SUBSET Creates]
        BY <3>1 DEF Init
      <4>4. queue \in [Changes -> Lists]
        BY <1>1 DEF Init
      <4>5. raced = FALSE /\ faults = 0 /\ clock = 0 /\ reservedAt \in [Creates -> Nat]
        BY DEF Init
      <4>6. faults \in 0..MaxFaults /\ clock \in Nat
        BY <4>5
      <4>7. raced \in BOOLEAN
        BY <4>5
      <4> QED
        BY <4>1, <4>2, <4>3, <4>4, <4>5, <4>6, <4>7 DEF TypeOK
  <2>2. \A q \in Requests : stage[q] = "idle"
    BY DEF Init
  <2>3. \A r \in Creates : doc[r] = Absent
    BY DEF Init, Unseen
  <2>4. \A c \in Changes : DOMAIN queue[c] = {} /\ \A r \in Creates : seen[c][r] = Absent
    BY <1>1 DEF Init, Unseen
  <2> QED
    BY <2>1, <2>2, <2>3, <2>4 DEF Shape, Requests

\* What ends a change request leaves everything else well formed.
LEMMA ChangeEndTyped ==
  ASSUME TypeOK, Shape, NEW c \in Changes, NEW how \in Ended, EndChange(c, how),
         UNCHANGED <<docVars, raced>>, faults' \in 0..MaxFaults
  PROVE  TypeOK' /\ Shape'
<1> USE DEF docVars, createVars
<1>0. NoOrder \in Lists /\ DOMAIN NoOrder = {}
  <2>1. NoOrder \in Orders({})
    BY FS_EmptySet DEF NoOrder, Orders
  <2> QED
    BY <2>1 DEF NoOrder, Lists
<1>1. /\ stage' = [stage EXCEPT ![c] = how]
      /\ target' = [target EXCEPT ![c] = Nothing]
      /\ seen' = [seen EXCEPT ![c] = Unseen]
      /\ queue' = [queue EXCEPT ![c] = NoOrder]
      /\ UNCHANGED <<doc, next>>
  BY DEF EndChange, GoTo
<1>2. TypeOK'
  <2>1. Unseen \in [Creates -> Doc \cup {Absent}] /\ "CANCELLED" \in Closed
    BY DEF Unseen, Closed
  <2> QED
    <3>1. doc' \in [Creates -> Doc \cup {Absent}]
          /\ seen' \in [Changes -> [Creates -> Doc \cup {Absent}]]
      BY <1>1, <2>1 DEF TypeOK
    <3>2. stage' \in [Requests -> {"idle", "existing", "copies", "position", "insert",
                            "get", "replace", "list", "renumber"} \cup Ended]
      BY <1>1 DEF TypeOK
    <3>3. queue' \in [Changes -> Lists]
      BY <1>0, <1>1 DEF TypeOK
    <3> QED
      BY <1>0, <1>1, <2>1, <3>1, <3>2, <3>3 DEF TypeOK, EndChange
<1>3. \A q \in Requests \ {c} : stage'[q] = stage[q]
  BY <1>1 DEF TypeOK
<1>4. \A r \in Creates : stage'[r] = stage[r]
  BY <1>3 DEF Requests
<1>5. stage'[c] \in Ended
  BY <1>1 DEF TypeOK, Requests
<1>6. \A d \in Changes \ {c} : /\ stage'[d] = stage[d] /\ target'[d] = target[d]
                              /\ seen'[d] = seen[d] /\ queue'[d] = queue[d]
  BY <1>1, <1>3 DEF TypeOK, Requests
<1>7. /\ DOMAIN queue'[c] = {} /\ \A r \in Creates : seen'[c][r] = Absent
  BY <1>0, <1>1 DEF TypeOK, Unseen
<1> QED
  BY <1>1, <1>2, <1>4, <1>5, <1>6, <1>7 DEF Shape, Ended

LEMMA TypeStep == TypeOK /\ Shape /\ [Next]_vars => TypeOK' /\ Shape'
<1> SUFFICES ASSUME TypeOK, Shape, [Next]_vars PROVE TypeOK' /\ Shape'
  OBVIOUS
<1> USE DEF TypeOK, Shape, docVars, createVars, changeVars, GoTo, Ended
<1>a. Creates \subseteq Requests /\ Changes \subseteq Requests
  BY DEF Requests
<1>1. ASSUME NEW r \in Creates, BeginCreate(r) PROVE TypeOK' /\ Shape'
  BY <1>1, <1>a DEF BeginCreate
<1>2. ASSUME NEW r \in Creates, RefuseMember(r) \/ CheckExisting(r) \/ CheckCopies(r)
      PROVE  TypeOK' /\ Shape'
  <2>1. PICK t \in {"refused", "copies", "position"} :
          /\ stage[r] # "done" /\ stage' = [stage EXCEPT ![r] = t]
          /\ UNCHANGED <<docVars, createVars, changeVars, raced, faults>>
    BY <1>2 DEF RefuseMember, CheckExisting, CheckCopies, CreateMoves
  <2> QED
    BY <2>1, <1>a
<1>3. ASSUME NEW r \in Creates, ReadPosition(r) PROVE TypeOK' /\ Shape'
  <2>1. NextPositions \subseteq Nat \ {0}
    <3>1. \A v \in Waiting : doc[v].position \in Nat
      BY ActiveDoc DEF Waiting
    <3> HIDE DEF TypeOK, Shape
    <3> QED
      BY <3>1 DEF NextPositions
  <2> QED
    BY <1>3, <1>a, <2>1 DEF ReadPosition
<1>4. ASSUME NEW r \in Creates, InsertReservation(r) PROVE TypeOK' /\ Shape'
  <2>1. [status |-> "WAITING", position |-> next[r]] \in Doc
    BY <1>4 DEF InsertReservation, Doc
  <2>2. TypeOK'
    BY <1>4, <1>a, <2>1 DEF InsertReservation, EndCreate
  <2> QED
    BY <1>4, <1>a, <2>2 DEF InsertReservation, EndCreate
<1>5. ASSUME NEW c \in Changes, NEW r \in Creates, NEW how \in Closed, BeginChange(c, r, how)
      PROVE  TypeOK' /\ Shape'
  BY <1>5, <1>a DEF BeginChange
<1>6. ASSUME NEW c \in Changes, ReadReservation(c) PROVE TypeOK' /\ Shape'
  <2>1. CASE IsActive(doc[target[c]])
    <3>1. target[c] \in Creates /\ stage[c] = "get" /\ stage[target[c]] = "done"
      BY <1>6, <2>1, ActiveDoc DEF ReadReservation
    <3>2. seen' = [seen EXCEPT ![c] = [seen[c] EXCEPT ![target[c]] = doc[target[c]]]]
      BY <1>6, <2>1 DEF ReadReservation
    <3>3. seen' \in [Changes -> [Creates -> Doc \cup {Absent}]]
      BY <3>1, <3>2
    <3>8. stage' = [stage EXCEPT ![c] = "replace"]
          /\ UNCHANGED <<docVars, createVars, target, closing, queue, index>>
          /\ UNCHANGED <<closedSince, raced, faults>>
      BY <1>6, <2>1 DEF ReadReservation
    <3>4. TypeOK'
      BY <1>a, <3>3, <3>8
    <3>5. \A d \in Changes : \A r \in Creates :
            seen'[d][r] = seen[d][r] \/ (d = c /\ r = target[c] /\ seen'[d][r] = doc[r])
      BY <3>1, <3>2
    <3>6. \A d \in Changes, r \in Creates :
            IsActive(seen[d][r]) => IsActive(seen'[d][r])
      BY <2>1, <3>5
    <3> QED
      BY <1>a, <2>1, <3>1, <3>2, <3>4, <3>5, <3>6, <3>8
  <2>2. CASE ~IsActive(doc[target[c]])
    BY <1>6, <2>2, ChangeEndTyped DEF ReadReservation
  <2> QED
    BY <2>1, <2>2
<1>7. ASSUME NEW c \in Changes, CloseReservation(c) PROVE TypeOK' /\ Shape'
  <2>1. seen[c][target[c]] \in Doc
    BY <1>7, ActiveDoc DEF CloseReservation
  <2>2. [seen[c][target[c]] EXCEPT !.status = closing[c]] \in Doc
    BY <2>1, <1>7 DEF Doc
  <2>3. stage[target[c]] = "done"
    BY <1>7, <2>1, ActiveDoc DEF CloseReservation
  <2>4. TypeOK'
    BY <1>7, <1>a, <2>2 DEF CloseReservation
  <2>5. target[c] # c
    BY <1>7 DEF CloseReservation
  <2> QED
    BY <1>7, <1>a, <2>2, <2>3, <2>4, <2>5 DEF CloseReservation
<1>8. ASSUME NEW c \in Changes, ReadQueue(c) PROVE TypeOK' /\ Shape'
  <2>1. PICK o \in Sorted(Waiting) : queue' = [queue EXCEPT ![c] = o]
    BY <1>8 DEF ReadQueue
  <2>2. Waiting \in SUBSET Creates
    BY DEF Waiting
  <2>3. o \in Orders(Waiting) /\ \A i \in DOMAIN o : o[i] \in Waiting
    BY <2>1 DEF Sorted
  <2>4. o \in Lists
    BY <2>2, <2>3 DEF Lists
  <2>5. TypeOK'
    BY <1>8, <1>a, <2>1, <2>4 DEF ReadQueue
  <2>6. \A r \in Waiting : IsActive(doc[r])
    BY DEF Waiting
  <2>7. \A r \in Creates : seen'[c][r] # Absent => stage[r] = "done"
    BY <1>8 DEF ReadQueue
  <2> QED
    BY <1>8, <1>a, <2>1, <2>2, <2>3, <2>5, <2>6, <2>7 DEF ReadQueue
<1>9. ASSUME NEW c \in Changes, Renumber(c) PROVE TypeOK' /\ Shape'
  <2>1. PICK i \in Misplaced(c) :
          /\ doc' = [doc EXCEPT ![queue[c][i]] = [seen[c][queue[c][i]] EXCEPT !.position = i]]
          /\ index' = [index EXCEPT ![c] = i]
    BY <1>9 DEF Renumber
  <2>2. i \in Nat \ {0} /\ i \in DOMAIN queue[c]
    <3>1. PICK S \in SUBSET Creates : queue[c] \in [1..Cardinality(S) -> S]
      <4>1. queue[c] \in Lists
        BY <1>9 DEF Renumber
      <4>2. PICK S \in SUBSET Creates : queue[c] \in Orders(S)
        BY <4>1, ListOf
      <4> QED
        BY <4>2 DEF Orders
    <3>2. Cardinality(S) \in Nat
      BY FS_CardinalityType, FS_Subset
    <3> QED
      BY <2>1, <3>1, <3>2 DEF Misplaced
  <2>3. queue[c][i] \in Creates /\ seen[c][queue[c][i]] \in Doc
    BY <2>2, ActiveDoc
  <2>4. [seen[c][queue[c][i]] EXCEPT !.position = i] \in Doc
    BY <2>2, <2>3 DEF Doc
  <2>5. stage[queue[c][i]] = "done"
    BY <2>3, ActiveDoc
  <2> QED
    BY <1>9, <2>1, <2>2, <2>3, <2>4, <2>5 DEF Renumber
<1>10. ASSUME NEW c \in Changes, FinishChange(c) PROVE TypeOK' /\ Shape'
  BY <1>10, ChangeEndTyped DEF FinishChange
<1>11. ASSUME NEW q \in Requests, Fail(q) PROVE TypeOK' /\ Shape'
  <2>1. CASE q \in Creates
    <3>1. stage[q] # "done"
      BY <1>11 DEF Fail, Served
    <3> QED
      <4>1. /\ stage' = [stage EXCEPT ![q] = "failed"] /\ next' = [next EXCEPT ![q] = 0]
            /\ faults' \in 0..MaxFaults
            /\ UNCHANGED <<docVars, changeVars, raced>>
        BY <1>11, <2>1 DEF Fail, EndCreate
      <4> QED
        BY <1>a, <2>1, <3>1, <4>1
  <2>2. CASE q \in Changes
    <3>1. q \notin Creates
      BY <2>2
    <3>2. faults' \in 0..MaxFaults
      BY <1>11 DEF Fail
    <3> QED
      BY <1>11, <2>2, <3>1, <3>2, ChangeEndTyped DEF Fail
  <2> QED
    BY <2>1, <2>2 DEF Requests
<1>12. CASE UNCHANGED vars
  BY <1>12 DEF vars, Waiting
<1> QED
  BY <1>1, <1>2, <1>3, <1>4, <1>5, <1>6, <1>7, <1>8, <1>9, <1>10, <1>11, <1>12
     DEF Next, CreateStep, ChangeStep

\* The collection, the requests and what they remember are always well
\* formed, however requests overlap: an insertion has a position, and only
\* documents that were there are replaced (ReservationService.cs:35-153).
THEOREM QueueTypes == Spec => []TypeOK
<1>1. Init => TypeOK /\ Shape
  BY TypeInit
<1>2. TypeOK /\ Shape /\ [Next]_vars => TypeOK' /\ Shape'
  BY TypeStep
<1> QED
  BY <1>1, <1>2, PTL DEF Spec
-----------------------------------------------------------------------------
(***************************************************************************)
(* One cancellation or fulfilment at a time                                *)
(***************************************************************************)
\* The steps of create request r.
CreateActs(r) ==
  \/ BeginCreate(r) \/ RefuseMember(r) \/ CreateStep(r)
  \/ r \in Creates /\ Fail(r)

\* The steps of change request c.
ChangeActs(c) ==
  \/ \E r \in Creates, how \in Closed : BeginChange(c, r, how)
  \/ ChangeStep(c) \/ Fail(c)

LEMMA NextCases ==
  ASSUME Next
  PROVE  \/ \E r \in Creates : CreateActs(r)
         \/ \E c \in Changes : ChangeActs(c)
<1>1. \A q \in Requests : q \in Creates \/ q \in Changes
  BY DEF Requests
<1> QED
  BY <1>1 DEF Next, CreateActs, ChangeActs

\* A create request leaves change requests and the other reservations alone,
\* and writes its own where there was none.
LEMMA CreateFrame ==
  ASSUME TypeOK, Shape, NEW r \in Creates, CreateActs(r)
  PROVE  /\ UNCHANGED changeVars
         /\ \A q \in Requests \ {r} : stage'[q] = stage[q]
         /\ \A s \in Creates : doc[s] # Absent => doc'[s] = doc[s]
<1>1. r \in Requests /\ (stage[r] # "done" => doc[r] = Absent)
  BY DEF Requests, Shape
<1> QED
  BY <1>1 DEF TypeOK, CreateActs, CreateStep, BeginCreate, RefuseMember, CheckExisting,
              CheckCopies, CreateMoves, ReadPosition, InsertReservation, Fail,
              EndCreate, GoTo, docVars

\* The documents on the list of a request that renumbers.
LEMMA ListedWaiting ==
  ASSUME NEW c \in Changes, Current(c), stage[c] = "renumber", NEW i \in DOMAIN queue[c]
  PROVE  /\ doc[queue[c][i]].status = "WAITING"
         /\ doc[queue[c][i]].position = IF i <= index[c] THEN i
                                        ELSE seen[c][queue[c][i]].position
         /\ i \in Nat \ {0}
<1>1. \E p : /\ doc[queue[c][i]] = [status |-> "WAITING", position |-> p]
             /\ p = IF i <= index[c] THEN i ELSE seen[c][queue[c][i]].position
  BY DEF Current
<1>2. Cardinality(Listed(c)) \in Nat /\ i \in 1..Cardinality(Listed(c))
  BY FS_CardinalityType, FS_Subset DEF Listed, Current
<1> QED
  BY <1>1, <1>2

\* A change request leaves the others alone, and writes active reservations
\* only.
LEMMA ChangeFrame ==
  ASSUME TypeOK, Shape, ReadIsCurrent, NEW c \in Changes, ChangeActs(c)
  PROVE  /\ \A q \in Requests \ {c} : stage'[q] = stage[q]
         /\ \A d \in Changes \ {c} :
              /\ index'[d] = index[d] /\ target'[d] = target[d]
              /\ seen'[d] = seen[d] /\ queue'[d] = queue[d]
         /\ UNCHANGED <<reservedAt, clock, next, raced>>
         /\ \A r \in Creates : ~IsActive(doc[r]) => doc'[r] = doc[r]
<1>1. c \in Requests /\ c \notin Creates
  BY DEF Requests
<1> USE DEF TypeOK, GoTo, docVars, createVars
<1>2. CASE \E r \in Creates, how \in Closed : BeginChange(c, r, how)
  BY <1>1, <1>2 DEF BeginChange
<1>3. CASE ReadReservation(c)
  BY <1>1, <1>3 DEF ReadReservation, EndChange
<1>4. CASE CloseReservation(c)
  <2>1. IsActive(doc[target[c]]) /\ target[c] \in Creates
    BY <1>4 DEF CloseReservation, Shape, ReadIsCurrent, Current
  <2> QED
    BY <1>1, <1>4, <2>1 DEF CloseReservation, changeVars
<1>5. CASE ReadQueue(c)
  BY <1>1, <1>5 DEF ReadQueue
<1>6. CASE Renumber(c)
  <2>1. PICK i \in DOMAIN queue[c] :
          doc' = [doc EXCEPT ![queue[c][i]] = [seen[c][queue[c][i]] EXCEPT !.position = i]]
    BY <1>6 DEF Renumber, Misplaced
  <2>2. doc[queue[c][i]].status = "WAITING"
    BY <1>6, ListedWaiting DEF Renumber, ReadIsCurrent
  <2>3. \A r \in Creates : ~IsActive(doc[r]) => doc'[r] = doc[r]
    BY <2>1, <2>2 DEF IsActive
  <2> QED
    BY <1>1, <1>6, <2>3 DEF Renumber
<1>7. CASE FinishChange(c)
  BY <1>1, <1>7 DEF FinishChange, EndChange
<1>8. CASE Fail(c)
  BY <1>1, <1>8 DEF Fail, EndChange
<1> QED
  BY <1>2, <1>3, <1>4, <1>5, <1>6, <1>7, <1>8 DEF ChangeActs, ChangeStep

\* A request that starts finds none served; none starts otherwise.
LEMMA OneChangeStep ==
  ASSUME OneChange, TypeOK, Shape, OneChangeServed, ReadIsCurrent, [Next]_vars
  PROVE  OneChangeServed'
<1>1. ASSUME NEW r \in Creates, CreateActs(r) PROVE OneChangeServed'
  <2>1. \A c \in Changes : stage'[c] = stage[c]
    BY <1>1, CreateFrame DEF Requests
  <2> QED
    BY <2>1 DEF OneChangeServed, Served
<1>2. ASSUME NEW c \in Changes, ChangeActs(c) PROVE OneChangeServed'
  <2>1. \A d \in Changes \ {c} : stage'[d] = stage[d]
    BY <1>2, ChangeFrame DEF Requests
  <2>2. Served(c) \/ \A d \in Changes \ {c} : ~Served(d)
    BY <1>2 DEF ChangeActs, ChangeStep, BeginChange, ReadReservation, CloseReservation,
                ReadQueue, Renumber, FinishChange, Fail, Served, Ended
  <2> QED
    BY <2>1, <2>2 DEF OneChangeServed, Served
<1>3. CASE UNCHANGED vars
  BY <1>3 DEF vars, OneChangeServed, Served
<1> QED
  BY <1>1, <1>2, <1>3, NextCases

\* Nobody else writes what a change request has read.
LEMMA CurrentStep ==
  ASSUME OneChange, TypeOK, Shape, OneChangeServed, ReadIsCurrent, [Next]_vars
  PROVE  ReadIsCurrent'
<1>1. ASSUME NEW r \in Creates, CreateActs(r) PROVE ReadIsCurrent'
  <2>1. UNCHANGED changeVars /\ \A c \in Changes : stage'[c] = stage[c]
    BY <1>1, CreateFrame DEF Requests
  <2>2. \A s \in Creates : doc[s] # Absent => doc'[s] = doc[s]
    BY <1>1, CreateFrame
  <2>3. ASSUME NEW c \in Changes PROVE Current(c)'
    <3>1. Current(c)
      BY DEF ReadIsCurrent
    <3>2. Listed(c)' = Listed(c)
      BY <2>1 DEF Listed, changeVars
    <3>3. ASSUME stage[c] = "replace" PROVE doc'[target[c]] = seen[c][target[c]]
      BY <2>2, <3>1, <3>3, ActiveDoc DEF Current, Shape, TypeOK
    <3>4. ASSUME stage[c] = "renumber", NEW i \in DOMAIN queue[c]
          PROVE  doc'[queue[c][i]] = doc[queue[c][i]]
      <4>1. doc[queue[c][i]] # Absent
        BY <3>1, <3>4, ListedWaiting DEF Absent
      <4> QED
        BY <2>2, <4>1 DEF Shape
    <3> QED
      BY <2>1, <3>1, <3>2, <3>3, <3>4 DEF Current, changeVars
  <2> QED
    BY <2>3 DEF ReadIsCurrent
<1>2. ASSUME NEW c \in Changes, ChangeActs(c) PROVE ReadIsCurrent'
  <2>1. ASSUME NEW d \in Changes \ {c} PROVE Current(d)'
    <3>1. ~Served(d)
      BY <1>2 DEF OneChangeServed, ChangeActs, ChangeStep, BeginChange, ReadReservation,
                  CloseReservation, ReadQueue, Renumber, FinishChange, Fail, Served, Ended
    <3>2. stage'[d] \notin {"replace", "renumber"} /\ index[d] = 0 /\ index'[d] = index[d]
      BY <1>2, <3>1, ChangeFrame DEF Served, Ended, Requests, ReadIsCurrent, Current
    <3> QED
      BY <3>2 DEF Current
  <2> SUFFICES Current(c)'
    BY <2>1 DEF ReadIsCurrent
  <2>2. ASSUME stage'[c] \notin {"replace", "renumber"}, index'[c] = 0 PROVE Current(c)'
    BY <2>2 DEF Current
  <2>0. c \in Requests /\ Current(c)
    BY DEF Requests, ReadIsCurrent
  <2>a. /\ DOMAIN stage = Requests
        /\ DOMAIN index = Changes /\ DOMAIN seen = Changes /\ DOMAIN queue = Changes
        /\ \A r \in Creates : doc[r] \in Doc \cup {Absent}
        /\ doc \in [Creates -> Doc \cup {Absent}]
        /\ seen \in [Changes -> [Creates -> Doc \cup {Absent}]]
        /\ queue \in [Changes -> Lists]
    BY DEF TypeOK
  <2> USE <2>0, <2>a DEF GoTo, createVars, docVars
  <2>b. stage[c] # "renumber" => index[c] = 0
    BY DEF Current
  <2>c. ASSUME NEW how \in Ended, EndChange(c, how) PROVE Current(c)'
    BY <2>2, <2>c DEF EndChange, Ended
  <2>3. CASE \E r \in Creates, how \in Closed : BeginChange(c, r, how)
    BY <2>2, <2>3, <2>b DEF BeginChange
  <2>4. CASE ReadReservation(c)
    <3>1. CASE IsActive(doc[target[c]])
      <4>1. target[c] \in Creates /\ stage[c] = "get"
        BY <2>4 DEF ReadReservation, Shape
      <4>2. seen' = [seen EXCEPT ![c] = [seen[c] EXCEPT ![target[c]] = doc[target[c]]]]
        BY <2>4, <3>1 DEF ReadReservation
      <4>3. seen'[c][target[c]] = doc[target[c]]
        BY <4>1, <4>2
      <4> QED
        BY <2>4, <2>b, <3>1, <4>1, <4>3 DEF ReadReservation, Current
    <3>2. CASE ~IsActive(doc[target[c]])
      BY <2>c, <2>4, <3>2 DEF ReadReservation, Ended
    <3> QED
      BY <3>1, <3>2
  <2>5. CASE CloseReservation(c)
    BY <2>2, <2>5, <2>b DEF CloseReservation, changeVars
  <2>6. CASE ReadQueue(c)
    <3>1. PICK o \in Sorted(Waiting) : queue' = [queue EXCEPT ![c] = o]
      BY <2>6 DEF ReadQueue
    <3>2. queue'[c] = o /\ index'[c] = 0 /\ stage'[c] = "renumber" /\ UNCHANGED doc
      BY <2>6, <3>1 DEF ReadQueue, Current
    <3>3. \A r \in Creates : seen'[c][r] = IF r \in Waiting THEN doc[r] ELSE Absent
      BY <2>6 DEF ReadQueue
    <3>4. Listed(c)' = Waiting
      BY <3>3, ActiveDoc DEF Listed, Waiting
    <3>5. /\ o \in [1..Cardinality(Waiting) -> Waiting]
          /\ {o[i] : i \in DOMAIN o} = Waiting
          /\ \A i, j \in DOMAIN o : i < j => o[i] # o[j]
      BY <3>1 DEF Sorted, Orders
    <3>6. Cardinality(Waiting) \in Nat
      BY FS_CardinalityType, FS_Subset DEF Waiting
    <3>7. ASSUME NEW i \in DOMAIN o
          PROVE  doc[o[i]] = [status |-> "WAITING",
                              position |-> IF i <= 0 THEN i ELSE seen'[c][o[i]].position]
      <4>1. o[i] \in Waiting /\ o[i] \in Creates /\ ~(i <= 0)
        BY <3>5, <3>6 DEF Waiting
      <4>2. doc[o[i]] \in Doc /\ doc[o[i]].status = "WAITING"
        BY <4>1, ActiveDoc DEF Waiting, IsActive
      <4> QED
        BY <3>3, <4>1, <4>2 DEF Doc
    <3> QED
      BY <3>2, <3>4, <3>5, <3>7 DEF Current
  <2>7. CASE Renumber(c)
    <3>1. PICK i \in Misplaced(c) :
            /\ \A j \in Misplaced(c) : i <= j
            /\ doc' = [doc EXCEPT ![queue[c][i]] = [seen[c][queue[c][i]] EXCEPT !.position = i]]
            /\ index' = [index EXCEPT ![c] = i]
      BY <2>7 DEF Renumber
    <3>2. /\ stage[c] = "renumber" /\ UNCHANGED <<stage, seen, queue>> /\ index'[c] = i
          /\ Listed(c)' = Listed(c)
      BY <2>7, <3>1 DEF Renumber, Listed
    <3>3. i \in DOMAIN queue[c] /\ i > index[c] /\ DOMAIN queue[c] \subseteq Int
      BY <3>1, <3>2, FS_CardinalityType, FS_Subset DEF Misplaced, Current, Listed
    <3>4. \A j \in DOMAIN queue[c] :
            /\ queue[c][j] \in Creates
            /\ seen[c][queue[c][j]] \in Doc /\ seen[c][queue[c][j]].status = "WAITING"
      BY ActiveDoc DEF Shape, IsActive
    <3>5. ASSUME NEW j \in DOMAIN queue[c]
          PROVE  doc'[queue[c][j]] = [status |-> "WAITING",
                   position |-> IF j <= i THEN j ELSE seen[c][queue[c][j]].position]
      <4>1. CASE j = i
        BY <3>1, <3>3, <3>4, <4>1 DEF Doc
      <4>2. CASE j # i
        <5>1. queue[c][j] # queue[c][i]
          BY <3>2, <3>3, <4>2 DEF Current
        <5>2. doc'[queue[c][j]] = doc[queue[c][j]]
          BY <3>1, <3>3, <3>4, <5>1
        <5>3. j > index[c] /\ j < i => seen[c][queue[c][j]].position = j
          BY <3>1, <3>3 DEF Misplaced
        <5>4. doc[queue[c][j]] = [status |-> "WAITING", position |->
                IF j <= index[c] THEN j ELSE seen[c][queue[c][j]].position]
          BY <3>2 DEF Current
        <5>5. i \in Int /\ j \in Int /\ index[c] \in Int
          BY <3>3 DEF TypeOK
        <5>6. (IF j <= index[c] THEN j ELSE seen[c][queue[c][j]].position)
                = IF j <= i THEN j ELSE seen[c][queue[c][j]].position
          BY <3>3, <4>2, <5>3, <5>5
        <5> QED
          BY <5>2, <5>4, <5>6
      <4> QED
        BY <4>1, <4>2
    <3> QED
      BY <3>2, <3>5 DEF Current
  <2>8. CASE FinishChange(c)
    BY <2>c, <2>8 DEF FinishChange, Ended
  <2>9. CASE Fail(c)
    <3>1. c \notin Creates
      OBVIOUS
    <3> QED
      BY <2>c, <2>9, <3>1 DEF Fail, Ended
  <2> QED
    BY <1>2, <2>1, <2>3, <2>4, <2>5, <2>6, <2>7, <2>8, <2>9
       DEF ChangeActs, ChangeStep
<1>3. CASE UNCHANGED vars
  <2>1. UNCHANGED <<doc, stage, target, seen, queue, index>>
    BY <1>3 DEF vars, docVars, changeVars
  <2>2. \A c \in Changes : Current(c)' <=> Current(c)
    BY <2>1 DEF Current, Listed
  <2> QED
    BY <2>2 DEF ReadIsCurrent
<1> QED
  BY <1>1, <1>2, <1>3, NextCases

LEMMA ChangesInvariant ==
  ASSUME OneChange
  PROVE  Spec => [](TypeOK /\ Shape /\ OneChangeServed /\ ReadIsCurrent)
<1>1. Init => TypeOK /\ Shape /\ OneChangeServed /\ ReadIsCurrent
  <2>1. Init => OneChangeServed /\ ReadIsCurrent
    BY DEF Init, OneChangeServed, ReadIsCurrent, Current, Served, Requests
  <2> QED
    BY <2>1, TypeInit
<1>2. TypeOK /\ Shape /\ OneChangeServed /\ ReadIsCurrent /\ [Next]_vars
        => (TypeOK /\ Shape /\ OneChangeServed /\ ReadIsCurrent)'
  BY TypeStep, OneChangeStep, CurrentStep
<1> QED
  BY <1>1, <1>2, PTL DEF Spec

\* What a step does to the documents, to those that are read, and to the
\* history of what was closed meanwhile.
LEMMA CreateNotes ==
  ASSUME TypeOK, Shape, ClosedIsNoted, NEW r \in Creates, CreateActs(r)
  PROVE  ClosedIsNoted' /\ \A s \in Creates : doc[s] # Absent => doc'[s] = doc[s]
<1>1. UNCHANGED changeVars /\ \A c \in Changes : stage'[c] = stage[c]
  BY CreateFrame DEF Requests
<1>2. \A s \in Creates : doc[s] # Absent => doc'[s] = doc[s]
  BY CreateFrame
<1>3. ASSUME NEW s \in Creates, doc[s] = Absent PROVE doc'[s].status \notin Closed
  <2>1. CASE InsertReservation(r)
    <3>1. doc' = [doc EXCEPT ![r] = [status |-> "WAITING", position |-> next[r]]]
      BY <2>1 DEF InsertReservation
    <3>2. doc'[s] \in {doc[s], [status |-> "WAITING", position |-> next[r]]}
      BY <3>1 DEF TypeOK
    <3> QED
      BY <1>3, <3>2 DEF Absent, Closed
  <2>2. CASE ~InsertReservation(r)
    <3>1. doc' = doc
      BY <2>2 DEF CreateActs, CreateStep, BeginCreate, RefuseMember, CheckExisting,
                  CheckCopies, CreateMoves, ReadPosition, Fail, docVars
    <3> QED
      BY <1>3, <3>1 DEF Absent, Closed
  <2> QED
    BY <2>1, <2>2
<1> QED
  BY <1>1, <1>2, <1>3 DEF ClosedIsNoted, changeVars

\* Ending a change request changes no document, and forgets what it read.
LEMMA EndNotes ==
  ASSUME TypeOK, ClosedIsNoted, NEW c \in Changes, NEW how \in Ended,
         EndChange(c, how), UNCHANGED docVars
  PROVE  ClosedIsNoted' /\ UNCHANGED doc
<1>1. \A d \in Changes \ {c} : /\ stage'[d] = stage[d] /\ seen'[d] = seen[d]
                               /\ closedSince'[d] = closedSince[d]
  BY DEF EndChange, GoTo, TypeOK, Requests
<1>2. /\ stage'[c] \notin {"replace", "renumber"}
      /\ \A r \in Creates : seen'[c][r] = Absent
  BY DEF EndChange, GoTo, TypeOK, Requests, Ended, Unseen
<1>3. UNCHANGED doc
  BY DEF docVars
<1> QED
  BY <1>1, <1>2, <1>3 DEF ClosedIsNoted

LEMMA ChangeNotes ==
  ASSUME TypeOK, Shape, ClosedIsNoted, NEW c \in Changes, ChangeActs(c)
  PROVE  /\ ClosedIsNoted'
         /\ \A r \in Creates : doc[r].status \in Closed /\ doc'[r] # doc[r] =>
              Replaces(c, r) /\ r \in closedSince[c]
<1> DEFINE Kept(r) == doc[r].status \in Closed /\ doc'[r] # doc[r] =>
                        Replaces(c, r) /\ r \in closedSince[c]
<1>0. c \in Requests /\ c \notin Creates
  BY DEF Requests
<1>a. ASSUME NEW how \in Ended, EndChange(c, how), UNCHANGED docVars
      PROVE  ClosedIsNoted' /\ \A r \in Creates : Kept(r)
  BY <1>a, EndNotes
<1>1. ASSUME NEW r \in Creates, NEW how \in Closed, BeginChange(c, r, how)
      PROVE  ClosedIsNoted' /\ UNCHANGED doc
  BY <1>0, <1>1 DEF BeginChange, GoTo, ClosedIsNoted, docVars, TypeOK
<1>2. CASE ReadReservation(c)
  <2>1. CASE IsActive(doc[target[c]])
    <3>1. /\ stage' = [stage EXCEPT ![c] = "replace"]
          /\ seen' = [seen EXCEPT ![c] = [seen[c] EXCEPT ![target[c]] = doc[target[c]]]]
          /\ target[c] \in Creates /\ UNCHANGED <<doc, closedSince>>
      BY <1>2, <2>1 DEF ReadReservation, GoTo, docVars, Shape
    <3>2. \A d \in Changes \ {c} : stage'[d] = stage[d] /\ seen'[d] = seen[d]
      BY <3>1 DEF TypeOK, Requests
    <3>3. ASSUME NEW r \in Creates, seen'[c][r] # Absent, doc[r].status \in Closed
          PROVE  FALSE
      <4>1. r # target[c]
        BY <2>1, <3>3 DEF IsActive, Closed
      <4>2. seen[c][r] # Absent /\ stage[c] = "get"
        BY <1>2, <3>1, <3>3, <4>1 DEF TypeOK, ReadReservation
      <4> QED
        BY <4>2 DEF ClosedIsNoted
    <3>4. stage'[c] = "replace"
      BY <1>0, <3>1 DEF TypeOK
    <3>5. \A d \in Changes \ {c}, r \in Creates :
            /\ stage'[d] \in {"idle", "get"} \cup Ended => seen'[d][r] = Absent
            /\ stage'[d] \in {"replace", "renumber"} /\ seen'[d][r] # Absent
                 /\ doc'[r].status \in Closed => r \in closedSince'[d]
      BY <3>1, <3>2 DEF ClosedIsNoted
    <3> QED
      BY <3>1, <3>3, <3>4, <3>5 DEF ClosedIsNoted, Ended
  <2>2. CASE ~IsActive(doc[target[c]])
    BY <1>2, <1>a, <2>2 DEF ReadReservation, Ended
  <2> QED
    BY <2>1, <2>2
<1>3. CASE CloseReservation(c)
  <2>1. /\ stage[c] = "replace" /\ stage' = [stage EXCEPT ![c] = "list"]
        /\ target[c] \in Creates /\ seen[c][target[c]] # Absent
        /\ \A r \in Creates : doc'[r] # doc[r] => r = target[c]
        /\ UNCHANGED seen
    BY <1>3, ActiveDoc DEF CloseReservation, GoTo, Shape, TypeOK
  <2>2. \A d \in Changes \ {c} :
          /\ stage'[d] = stage[d] /\ closedSince[d] \subseteq closedSince'[d]
          /\ seen[d][target[c]] # Absent => target[c] \in closedSince'[d]
    BY <1>3, <2>1 DEF CloseReservation, TypeOK, Requests
  <2>3. ClosedIsNoted'
    <3>1. ASSUME NEW d \in Changes, NEW r \in Creates
          PROVE  /\ stage'[d] \in {"idle", "get"} \cup Ended => seen'[d][r] = Absent
                 /\ stage'[d] \in {"replace", "renumber"} /\ seen'[d][r] # Absent
                      /\ doc'[r].status \in Closed => r \in closedSince'[d]
      <4>1. CASE d = c
        BY <1>0, <2>1, <4>1 DEF TypeOK, Ended
      <4>2. CASE d # c
        BY <2>1, <2>2, <4>2 DEF ClosedIsNoted
      <4> QED
        BY <4>1, <4>2
    <3> QED
      BY <3>1 DEF ClosedIsNoted
  <2>4. ASSUME NEW r \in Creates PROVE Kept(r)
    BY <1>0, <2>1 DEF ClosedIsNoted, Replaces, TypeOK
  <2> QED
    BY <2>3, <2>4
<1>4. CASE ReadQueue(c)
  <2>1. /\ stage' = [stage EXCEPT ![c] = "renumber"] /\ UNCHANGED doc
        /\ \A r \in Creates : seen'[c][r] # Absent => r \in Waiting
        /\ \A d \in Changes \ {c} : /\ seen'[d] = seen[d]
                                    /\ closedSince'[d] = closedSince[d]
    BY <1>4 DEF ReadQueue, GoTo, docVars, TypeOK
  <2>2. \A d \in Changes \ {c} : stage'[d] = stage[d]
    BY <2>1 DEF TypeOK, Requests
  <2>3. stage'[c] = "renumber"
    BY <1>0, <2>1 DEF TypeOK
  <2>4. \A r \in Waiting : doc[r].status \notin Closed
    BY DEF Waiting, IsActive, Closed
  <2> QED
    BY <2>1, <2>2, <2>3, <2>4 DEF ClosedIsNoted, Ended
<1>5. CASE Renumber(c)
  <2>1. PICK i \in Misplaced(c) :
          /\ doc' = [doc EXCEPT ![queue[c][i]] = [seen[c][queue[c][i]] EXCEPT !.position = i]]
          /\ index' = [index EXCEPT ![c] = i]
    BY <1>5 DEF Renumber
  <2> DEFINE w == queue[c][i]
  <2>2. /\ i \in DOMAIN queue[c] /\ i > index[c] /\ index'[c] = i
        /\ w \in Creates /\ IsActive(seen[c][w]) /\ seen[c][w] # Absent
        /\ stage[c] = "renumber" /\ UNCHANGED <<stage, seen, closedSince>>
    BY <1>5, <2>1, ActiveDoc DEF Misplaced, Renumber, Shape, TypeOK
  <2>3. seen[c][w] \in Doc
    BY <2>2, ActiveDoc DEF TypeOK
  <2>4. doc'[w].status \notin Closed /\ \A r \in Creates \ {w} : doc'[r] = doc[r]
    BY <2>1, <2>2, <2>3 DEF TypeOK, IsActive, Closed, Doc
  <2>5. i # index[c]
    BY <2>2 DEF TypeOK
  <2>6. ASSUME NEW r \in Creates PROVE Kept(r)
    BY <2>2, <2>4, <2>5 DEF ClosedIsNoted, Replaces
  <2>7. ClosedIsNoted'
    BY <2>2, <2>4 DEF ClosedIsNoted
  <2> QED
    BY <2>6, <2>7
<1>6. CASE FinishChange(c)
  BY <1>6, <1>a DEF FinishChange, Ended
<1>7. CASE Fail(c)
  BY <1>0, <1>7, <1>a DEF Fail, Ended
<1> QED
  BY <1>1, <1>2, <1>3, <1>4, <1>5, <1>6, <1>7 DEF ChangeActs, ChangeStep

\* A cancelled or fulfilled reservation is written only by a change request
\* that had read it before another one closed it, however create and change
\* requests overlap (ReservationService.cs:103-153, ReservationRepository.cs:96-108).
THEOREM ClosedForGoodHolds == Spec => ClosedForGood
<1> DEFINE Step == \A r \in Creates : doc[r].status \in Closed /\ doc'[r] # doc[r] =>
                     \E c \in Changes : Replaces(c, r) /\ r \in closedSince[c]
<1>1. Init => TypeOK /\ Shape /\ ClosedIsNoted
  <2>1. Init => ClosedIsNoted
    BY DEF Init, ClosedIsNoted, Unseen
  <2> QED
    BY <2>1, TypeInit
<1>2. TypeOK /\ Shape /\ ClosedIsNoted /\ Next => ClosedIsNoted' /\ Step
  <2> SUFFICES ASSUME TypeOK, Shape, ClosedIsNoted, Next PROVE ClosedIsNoted' /\ Step
    OBVIOUS
  <2>1. ASSUME NEW r \in Creates, CreateActs(r) PROVE ClosedIsNoted' /\ Step
    BY <2>1, CreateNotes DEF Closed, Absent
  <2>2. ASSUME NEW c \in Changes, ChangeActs(c) PROVE ClosedIsNoted' /\ Step
    BY <2>2, ChangeNotes
  <2> QED
    BY <2>1, <2>2, NextCases
<1>3. ClosedIsNoted /\ UNCHANGED vars => ClosedIsNoted'
  BY DEF vars, docVars, changeVars, ClosedIsNoted
<1>4. TypeOK /\ Shape /\ ClosedIsNoted /\ [Next]_vars
        => (TypeOK /\ Shape /\ ClosedIsNoted)' /\ [Step]_vars
  BY <1>2, <1>3, TypeStep
<1> QED
  BY <1>1, <1>4, PTL DEF Spec, ClosedForGood

\* A cancellation or fulfilment leaves positions 1 to n behind, whatever it
\* found, unless a reservation was inserted after it read the list
\* (ReservationRepository.cs:96-108; README.md:92).
THEOREM CompactedHolds ==
  ASSUME OneChange
  PROVE  Spec => Compacted
<1> DEFINE Finished(c) == /\ stage[c] = "renumber" /\ stage'[c] = "done"
                          /\ \A r \in Waiting : seen[c][r] # Absent
<1>1. TypeOK /\ Shape /\ OneChangeServed /\ ReadIsCurrent /\ [Next]_vars
        => [\A c \in Changes : Finished(c) =>
              {doc[r].position : r \in Waiting} = 1..Cardinality(Waiting)]_vars
  <2> SUFFICES ASSUME TypeOK, Shape, OneChangeServed, ReadIsCurrent, Next, NEW c \in Changes,
                      Finished(c)
               PROVE  {doc[r].position : r \in Waiting} = 1..Cardinality(Waiting)
    BY DEF vars
  <2>1. c \in Requests /\ Current(c)
    BY DEF Requests, ReadIsCurrent
  <2>2. ~ \E r \in Creates : CreateActs(r)
    <3>1. \A r \in Creates : r # c
      OBVIOUS
    <3> QED
      BY <2>1, <3>1, CreateFrame
  <2>3. ChangeActs(c)
    BY <2>1, <2>2, ChangeFrame, NextCases
  <2>4. FinishChange(c)
    BY <2>1, <2>3 DEF ChangeActs, ChangeStep, BeginChange, ReadReservation, CloseReservation,
                ReadQueue, Renumber, Fail, EndCreate, EndChange, GoTo, TypeOK
  <2>5. Waiting = Listed(c)
    <3>1. \A r \in Listed(c) : doc[r].status = "WAITING" /\ r \in Creates
      <4> SUFFICES ASSUME NEW r \in Listed(c) PROVE doc[r].status = "WAITING" /\ r \in Creates
        OBVIOUS
      <4>1. PICK i \in DOMAIN queue[c] : queue[c][i] = r
        BY <2>1 DEF Current
      <4> QED
        BY <2>1, <4>1, ListedWaiting DEF Listed
    <3> QED
      BY <3>1 DEF Listed, Waiting, IsActive
  <2>6. \A i \in DOMAIN queue[c] : doc[queue[c][i]].position = i
    <3> SUFFICES ASSUME NEW i \in DOMAIN queue[c] PROVE doc[queue[c][i]].position = i
      OBVIOUS
    <3>1. /\ doc[queue[c][i]].position = IF i <= index[c] THEN i
                                         ELSE seen[c][queue[c][i]].position
          /\ i \in Int
      BY <2>1, ListedWaiting
    <3>2. index[c] \in Int
      BY DEF TypeOK
    <3> QED
      BY <2>4, <3>1, <3>2 DEF FinishChange, Misplaced
  <2>7. {doc[r].position : r \in Waiting} = {doc[queue[c][i]].position : i \in DOMAIN queue[c]}
    BY <2>1, <2>5 DEF Current
  <2>8. {doc[queue[c][i]].position : i \in DOMAIN queue[c]} = DOMAIN queue[c]
    BY <2>6
  <2>9. DOMAIN queue[c] = 1..Cardinality(Waiting)
    BY <2>1, <2>5 DEF Current
  <2> QED
    BY <2>7, <2>8, <2>9
<1>2. Spec => [](TypeOK /\ Shape /\ OneChangeServed /\ ReadIsCurrent)
  BY ChangesInvariant
<1> QED
  BY <1>1, <1>2, PTL DEF Spec, Compacted

-----------------------------------------------------------------------------
(***************************************************************************)
(* And, as long as create requests do not race, who stands where           *)
(***************************************************************************)
\* The invariant and the properties it is for.
QueueKept == TypeOK /\ QueueInv /\ QueueInOrder /\ OneActivePerMember

\* Two reservations on the list have different positions.
LEMMA PositionsDiffer ==
  ASSUME QueueKept, ~raced, NEW r \in Waiting, NEW s \in Waiting, r # s
  PROVE  doc[r].position # doc[s].position
<1>1. r \in Creates /\ s \in Creates /\ doc[r] # Absent /\ doc[s] # Absent
  BY DEF Waiting, IsActive, Absent
<1>2. reservedAt[r] \in Nat /\ reservedAt[s] \in Nat /\ reservedAt[r] # reservedAt[s]
  BY <1>1 DEF QueueKept, QueueInv, PlacedApart, TypeOK
<1>3. doc[r].position \in Nat /\ doc[s].position \in Nat
  BY <1>1, ActiveDoc DEF QueueKept, TypeOK
<1> QED
  BY <1>2, <1>3 DEF QueueKept, QueueInOrder

\* A change request lets nobody join, moves nobody back and nobody past
\* another.
LEMMA ChangeKeepsOrder ==
  ASSUME QueueKept, ~raced, NEW c \in Changes, ChangeActs(c)
  PROVE  /\ Waiting' \subseteq Waiting
         /\ \A s \in Waiting' : doc'[s].position <= doc[s].position
         /\ \A s, t \in Waiting' : doc[s].position < doc[t].position
                                  => doc'[s].position < doc'[t].position
<1>0. Waiting' \subseteq Waiting
  BY ChangeFrame DEF QueueKept, QueueInv, Waiting
<1>1. \A s \in Waiting : s \in Creates /\ doc[s].position \in Nat
  BY ActiveDoc DEF QueueKept, TypeOK, Waiting
<1>2. CASE doc' = doc
  BY <1>0, <1>1, <1>2
<1>3. CASE CloseReservation(c)
  <2>1. target[c] \in Creates /\ closing[c] # "WAITING"
    BY <1>3 DEF CloseReservation, QueueKept, QueueInv, Shape, TypeOK, Closed
  <2>2. target[c] \notin Waiting'
    BY <1>3, <2>1 DEF CloseReservation, QueueKept, TypeOK, Waiting, IsActive
  <2>3. \A s \in Waiting' : doc'[s] = doc[s]
    BY <1>0, <1>1, <1>3, <2>2 DEF CloseReservation, QueueKept, TypeOK
  <2> QED
    BY <1>0, <1>1, <2>3
<1>4. CASE Renumber(c)
  <2>1. PICK i \in Misplaced(c) :
          /\ \A j \in Misplaced(c) : i <= j
          /\ doc' = [doc EXCEPT ![queue[c][i]] = [seen[c][queue[c][i]] EXCEPT !.position = i]]
    BY <1>4 DEF Renumber
  <2>2. Current(c) /\ stage[c] = "renumber" /\ index[c] \in Nat
    BY <1>4 DEF Renumber, QueueKept, QueueInv, ReadIsCurrent, TypeOK
  <2>3. /\ i \in DOMAIN queue[c] /\ i > index[c]
        /\ \A j \in DOMAIN queue[c] : j \in Int
    BY <2>1, <2>2, ListedWaiting DEF Misplaced
  <2>4. \A j \in DOMAIN queue[c] :
          /\ queue[c][j] \in Waiting
          /\ seen[c][queue[c][j]].position \in Nat
          /\ doc[queue[c][j]].position = IF j <= index[c] THEN j
                                         ELSE seen[c][queue[c][j]].position
    <3> SUFFICES ASSUME NEW j \in DOMAIN queue[c]
                 PROVE  /\ queue[c][j] \in Waiting
                        /\ seen[c][queue[c][j]].position \in Nat
                        /\ doc[queue[c][j]].position = IF j <= index[c] THEN j
                                         ELSE seen[c][queue[c][j]].position
      OBVIOUS
    <3>1. queue[c][j] \in Creates
      BY DEF QueueKept, QueueInv, Shape
    <3>2. /\ doc[queue[c][j]].status = "WAITING"
          /\ doc[queue[c][j]].position = IF j <= index[c] THEN j
                                         ELSE seen[c][queue[c][j]].position
      BY <2>2, ListedWaiting
    <3>3. seen[c][queue[c][j]].position \in Nat
      BY <3>1, ActiveDoc DEF QueueKept, TypeOK
    <3> QED
      BY <3>1, <3>2, <3>3 DEF Waiting, IsActive
  <2> DEFINE w == queue[c][i]
  <2>5. w \in Waiting /\ i \in Int /\ i <= doc[w].position
    BY <1>4, <2>2, <2>3, <2>4 DEF QueueKept, QueueInv, NobodyMovesBack
  <2>6. doc'[w].position = i /\ \A s \in Creates \ {w} : doc'[s] = doc[s]
    <3>1. doc'[w] = [seen[c][w] EXCEPT !.position = i]
      BY <1>1, <2>1, <2>5 DEF QueueKept, TypeOK
    <3>2. seen[c][w] \in Doc
      BY <1>1, <2>3, <2>5, ActiveDoc DEF QueueKept, TypeOK, QueueInv, Shape
    <3>3. doc'[w].position = i
      BY <3>1, <3>2 DEF Doc
    <3> QED
      BY <2>1, <3>3 DEF QueueKept, TypeOK
  <2>7. ASSUME NEW t \in Waiting, t # w, doc[t].position < doc[w].position
        PROVE  doc[t].position < i
    <3>1. CASE t \in Listed(c)
      <4>1. PICK j \in DOMAIN queue[c] : queue[c][j] = t
        BY <2>2, <3>1 DEF Current
      <4>2. j < i
        <5>1. j # i
          BY <2>7, <4>1
        <5>2. ~(i < j)
          <6>1. i < j => seen[c][w].position < seen[c][t].position
            BY <2>2, <2>3, <4>1 DEF QueueKept, QueueInv, NobodyMovesBack
          <6> QED
            BY <2>2, <2>3, <2>4, <2>7, <4>1, <6>1
        <5> QED
          BY <2>3, <5>1, <5>2
      <4>3. doc[t].position = j
        <5>1. j > index[c] => seen[c][t].position = j
          BY <2>1, <2>3, <4>1, <4>2 DEF Misplaced
        <5> QED
          BY <2>2, <2>3, <2>4, <4>1, <5>1
      <4> QED
        BY <4>2, <4>3
    <3>2. CASE t \notin Listed(c)
      <4>1. doc[w].position < doc[t].position
        BY <2>2, <2>3, <3>2 DEF QueueKept, QueueInv, NobodyMovesBack
      <4> QED
        BY <1>1, <2>5, <2>7, <4>1
    <3> QED
      BY <3>1, <3>2
  <2> HIDE DEF w
  <2>8. \A s \in Waiting' : doc'[s].position <= doc[s].position
    BY <1>0, <1>1, <2>5, <2>6
  <2>9. ASSUME NEW s \in Waiting', NEW t \in Waiting', doc[s].position < doc[t].position
        PROVE  doc'[s].position < doc'[t].position
    <3>1. s \in Waiting /\ t \in Waiting /\ s # t
      BY <1>0, <1>1, <2>9
    <3>2. CASE t = w
      BY <1>1, <2>6, <2>7, <2>9, <3>1, <3>2
    <3>3. CASE s = w
      BY <1>1, <2>5, <2>6, <2>9, <3>1, <3>3
    <3>4. CASE s # w /\ t # w
      BY <1>1, <2>6, <2>9, <3>1, <3>4
    <3> QED
      BY <3>2, <3>3, <3>4
  <2> QED
    BY <1>0, <2>8, <2>9
<1> QED
  BY <1>2, <1>3, <1>4 DEF ChangeActs, ChangeStep, BeginChange, ReadReservation, ReadQueue,
     FinishChange, Fail, docVars
\* What a create request does, seen from the list.
LEMMA CreateJoins ==
  ASSUME QueueKept, ~raced, NEW r \in Creates, CreateActs(r)
  PROVE  \/ UNCHANGED docVars
         \/ /\ stage[r] = "insert" /\ stage'[r] = "done" /\ doc[r] = Absent
            /\ Waiting' = Waiting \cup {r}
            /\ \A s \in Creates \ {r} : doc'[s] = doc[s] /\ reservedAt'[s] = reservedAt[s]
            /\ doc'[r].position = next[r] /\ doc'[r] # Absent
            /\ reservedAt'[r] = clock + 1 /\ clock' = clock + 1
<1>1. CASE InsertReservation(r)
  <2>1. stage[r] = "insert" /\ stage'[r] = "done" /\ doc[r] = Absent
    BY <1>1 DEF InsertReservation, EndCreate, GoTo, QueueKept, QueueInv, Shape, TypeOK, Requests
  <2>2. doc'[r] = [status |-> "WAITING", position |-> next[r]]
        /\ \A s \in Creates \ {r} : doc'[s] = doc[s]
    BY <1>1 DEF InsertReservation, QueueKept, TypeOK
  <2>3. reservedAt'[r] = clock + 1 /\ clock' = clock + 1
        /\ \A s \in Creates \ {r} : reservedAt'[s] = reservedAt[s]
    BY <1>1 DEF InsertReservation, QueueKept, TypeOK
  <2>4. doc'[r].status = "WAITING" /\ doc'[r].position = next[r] /\ doc'[r] # Absent
    <3>1. doc'[r].status = "WAITING" /\ doc'[r].position = next[r]
      BY <2>2
    <3> QED
      BY <3>1 DEF Absent
  <2>5. Waiting' = Waiting \cup {r}
    BY <2>2, <2>4 DEF Waiting, IsActive
  <2> QED
    BY <2>1, <2>2, <2>3, <2>4, <2>5
<1>2. CASE ~InsertReservation(r)
  BY <1>2 DEF CreateActs, CreateStep, BeginCreate, RefuseMember, CheckExisting, CheckCopies,
              CreateMoves, ReadPosition, Fail, docVars
<1> QED
  BY <1>1, <1>2

LEMMA OneCreateStep == QueueKept /\ [Next]_vars => OneCreateServed' /\ (raced => raced')
<1> SUFFICES ASSUME QueueKept, [Next]_vars PROVE OneCreateServed' /\ (raced => raced')
  OBVIOUS
<1> USE DEF QueueKept, QueueInv
<1>1. ASSUME NEW r \in Creates, CreateActs(r) PROVE OneCreateServed' /\ (raced => raced')
  <2>1. raced => raced'
    BY <1>1 DEF CreateActs, CreateStep, BeginCreate, RefuseMember, CheckExisting, CheckCopies,
                CreateMoves, ReadPosition, InsertReservation, Fail
  <2>2. \A s \in Creates \ {r} : stage'[s] = stage[s]
    BY <1>1, CreateFrame DEF Requests
  <2>3. ~raced' => Served(r) \/ (\A s \in Creates \ {r} : ~Served(s)) \/ ~Served(r)'
    BY <1>1 DEF CreateActs, CreateStep, BeginCreate, RefuseMember, CheckExisting, CheckCopies,
                CreateMoves, ReadPosition, InsertReservation, Fail, Served, Ended, GoTo, TypeOK,
                Requests
  <2> QED
    BY <2>1, <2>2, <2>3 DEF OneCreateServed, Served
<1>2. ASSUME NEW c \in Changes, ChangeActs(c) PROVE OneCreateServed' /\ (raced => raced')
  <2>1. raced' = raced /\ \A s \in Creates : stage'[s] = stage[s]
    BY <1>2, ChangeFrame DEF Requests
  <2> QED
    BY <2>1 DEF OneCreateServed, Served
<1>3. CASE UNCHANGED vars
  BY <1>3 DEF vars, OneCreateServed, Served
<1> QED
  BY <1>1, <1>2, <1>3, NextCases

LEMMA PlacedApartStep == QueueKept /\ [Next]_vars => PlacedApart'
<1> SUFFICES ASSUME QueueKept, [Next]_vars PROVE PlacedApart'
  OBVIOUS
<1> USE DEF QueueKept, QueueInv
<1>1. ASSUME NEW r \in Creates, InsertReservation(r) PROVE PlacedApart'
  <2>1. doc[r] = Absent /\ \A s \in Creates \ {r} : doc'[s] = doc[s]
    BY <1>1 DEF InsertReservation, Shape, TypeOK
  <2>2. /\ reservedAt'[r] = clock + 1 /\ clock' = clock + 1 /\ clock \in Nat
        /\ \A s \in Creates \ {r} : reservedAt'[s] = reservedAt[s] /\ reservedAt[s] \in Nat
    BY <1>1 DEF InsertReservation, TypeOK
  <2> QED
    BY <2>1, <2>2 DEF PlacedApart
<1>2. ASSUME NEW r \in Creates, CreateActs(r), ~InsertReservation(r) PROVE PlacedApart'
  <2>1. UNCHANGED docVars
    BY <1>2 DEF CreateActs, CreateStep, BeginCreate, RefuseMember, CheckExisting, CheckCopies,
                CreateMoves, ReadPosition, Fail, docVars
  <2> QED
    BY <2>1 DEF PlacedApart, docVars
<1>3. ASSUME NEW c \in Changes, ChangeActs(c) PROVE PlacedApart'
  <2>1. UNCHANGED <<reservedAt, clock>> /\ \A s \in Creates : ~IsActive(doc[s]) => doc'[s] = doc[s]
    BY <1>3, ChangeFrame
  <2>2. \A s \in Creates : doc'[s] # Absent => doc[s] # Absent
    BY <2>1 DEF IsActive, Absent
  <2> QED
    BY <2>1, <2>2 DEF PlacedApart
<1>4. CASE UNCHANGED vars
  BY <1>4 DEF vars, docVars, PlacedApart
<1> QED
  BY <1>1, <1>2, <1>3, <1>4, NextCases

\* Who waits, stands and has been checked by whom, before and after.
LEMMA OrderStep ==
  ASSUME QueueKept, TypeOK', Shape', OneCreateServed', Next, ~raced, ~raced'
  PROVE  QueueInOrder' /\ OneActivePerMember' /\ Checked'
<1> USE DEF QueueKept, QueueInv
<1>0. /\ \A s \in Waiting : /\ s \in Creates /\ doc[s].position \in Nat
                            /\ doc[s] # Absent
      /\ \A s \in Waiting' : s \in Creates /\ doc'[s].position \in Nat
      /\ \A s \in Creates : reservedAt[s] \in Nat
      /\ clock \in Nat
  BY ActiveDoc DEF TypeOK, Waiting
<1>1. ASSUME NEW c \in Changes, ChangeActs(c)
      PROVE  QueueInOrder' /\ OneActivePerMember' /\ Checked'
  <2>1. /\ Waiting' \subseteq Waiting
        /\ \A s \in Waiting' : doc'[s].position <= doc[s].position
        /\ \A s, t \in Waiting' : doc[s].position < doc[t].position
                                 => doc'[s].position < doc'[t].position
    BY <1>1, ChangeKeepsOrder
  <2>2. UNCHANGED <<reservedAt, next>> /\ \A r \in Creates : stage'[r] = stage[r]
    BY <1>1, ChangeFrame DEF Requests
  <2>3. QueueInOrder'
    BY <2>1, <2>2 DEF QueueInOrder
  <2>4. OneActivePerMember'
    BY <2>1 DEF OneActivePerMember
  <2>5. Checked'
    <3>1. \A r \in Creates : next[r] \in Nat
      BY DEF TypeOK
    <3> QED
      BY <1>0, <2>1, <2>2, <3>1 DEF Checked
  <2> QED
    BY <2>3, <2>4, <2>5
<1>2. ASSUME NEW r \in Creates, CreateActs(r)
      PROVE  QueueInOrder' /\ OneActivePerMember' /\ Checked'
  <2>1. \A s \in Creates \ {r} : stage'[s] = stage[s]
    BY <1>2, CreateFrame DEF Requests
  <2>2. \A s \in Creates \ {r} : Served(s)' => ~Served(r)'
    BY DEF OneCreateServed
  <2>3. CASE UNCHANGED docVars
    <3>1. Waiting' = Waiting /\ UNCHANGED <<doc, reservedAt>>
      BY <2>3 DEF docVars, Waiting
    <3>2. QueueInOrder' /\ OneActivePerMember'
      BY <3>1 DEF QueueInOrder, OneActivePerMember
    <3>3. ASSUME NEW s \in Creates \ {r}, NEW w \in Waiting
          PROVE  /\ stage'[s] = "insert" => doc[w].position < next'[s]
                 /\ stage'[s] \in {"copies", "position", "insert"} => MemberOf[w] # MemberOf[s]
      <4>1. next'[s] = next[s]
        BY <1>2 DEF CreateActs, CreateStep, BeginCreate, RefuseMember, CheckExisting, CheckCopies,
              CreateMoves, ReadPosition, InsertReservation, Fail, EndCreate, createVars, TypeOK
      <4> QED
        BY <2>1, <4>1 DEF Checked
    <3>4. ASSUME NEW w \in Waiting
          PROVE  /\ stage'[r] = "insert" => doc[w].position < next'[r]
                 /\ stage'[r] \in {"copies", "position", "insert"} => MemberOf[w] # MemberOf[r]
      <4>1. r \in Requests
        BY DEF Requests
      <4>2. CASE ReadPosition(r)
        <5>1. PICK p \in NextPositions : next' = [next EXCEPT ![r] = p]
          BY <4>2 DEF ReadPosition
        <5>2. doc[w].position < p
          BY <1>0, <5>1 DEF NextPositions
        <5>3. stage[r] = "position" /\ next'[r] = p
          BY <4>2, <5>1 DEF ReadPosition, TypeOK
        <5> QED
          BY <5>2, <5>3 DEF Checked
      <4>3. CASE CheckExisting(r)
        BY <4>1, <4>3 DEF CheckExisting, HasActive, CreateMoves, GoTo, TypeOK
      <4>4. CASE CheckCopies(r)
        BY <4>1, <4>4 DEF CheckCopies, CreateMoves, GoTo, TypeOK, Checked
      <4>5. CASE BeginCreate(r) \/ RefuseMember(r) \/ InsertReservation(r) \/ Fail(r)
        BY <4>1, <4>5 DEF BeginCreate, RefuseMember, CreateMoves, InsertReservation, Fail,
                          EndCreate, GoTo, TypeOK
      <4> QED
        BY <1>2, <4>2, <4>3, <4>4, <4>5 DEF CreateActs, CreateStep
    <3> QED
      BY <3>1, <3>2, <3>3, <3>4 DEF Checked
  <2>4. CASE ~UNCHANGED docVars
    <3>1. /\ stage[r] = "insert" /\ stage'[r] = "done" /\ doc[r] = Absent
          /\ Waiting' = Waiting \cup {r}
          /\ \A s \in Creates \ {r} : doc'[s] = doc[s] /\ reservedAt'[s] = reservedAt[s]
          /\ doc'[r].position = next[r]
          /\ reservedAt'[r] = clock + 1
      BY <1>2, <2>4, CreateJoins
    <3>2. r \notin Waiting
      BY <1>0, <3>1
    <3>3. \A w \in Waiting : /\ doc'[w] = doc[w] /\ reservedAt'[w] = reservedAt[w]
                            /\ reservedAt'[w] < reservedAt'[r]
                            /\ doc'[w].position < doc'[r].position
                            /\ MemberOf[w] # MemberOf[r]
      BY <1>0, <3>1, <3>2 DEF Checked, PlacedApart
    <3>4. QueueInOrder'
      <4> SUFFICES ASSUME NEW s \in Waiting', NEW t \in Waiting', reservedAt'[s] < reservedAt'[t]
                   PROVE  doc'[s].position < doc'[t].position
        BY DEF QueueInOrder
      <4>1. CASE s \in Waiting /\ t \in Waiting
        BY <3>3, <4>1 DEF QueueInOrder
      <4>2. CASE s = r
        <5>1. ~(reservedAt'[r] < reservedAt'[t])
          BY <1>0, <3>1, <3>3
        <5> QED
          BY <4>2, <5>1
      <4>3. CASE t = r /\ s \in Waiting
        BY <3>3, <4>3
      <4> QED
        BY <3>1, <4>1, <4>2, <4>3
    <3>5. OneActivePerMember'
      BY <3>1, <3>3 DEF OneActivePerMember
    <3>6. \A s \in Creates : ~Served(s)'
      <4>1. Served(r)
        BY <3>1 DEF Served, Ended
      <4>2. \A s \in Creates \ {r} : ~Served(s)
        BY <4>1 DEF OneCreateServed
      <4> QED
        BY <2>1, <3>1, <4>2 DEF Served, Ended
    <3>7. Checked'
      BY <3>6 DEF Checked, Served, Ended
    <3> QED
      BY <3>4, <3>5, <3>7
  <2> QED
    BY <2>3, <2>4
<1> QED
  BY <1>1, <1>2, NextCases

LEMMA NobodyMovesBackStep ==
  ASSUME OneChange, QueueKept, TypeOK', OneChangeServed', Next, ~raced, ~raced'
  PROVE  NobodyMovesBack'
<1> USE DEF QueueKept, QueueInv
<1>0. \A s \in Waiting : s \in Creates /\ doc[s].position \in Nat \ {0} /\ doc[s] # Absent
  BY ActiveDoc DEF TypeOK, Waiting
<1>a. ASSUME NEW d \in Changes, stage[d] = "renumber", NEW i \in DOMAIN queue[d]
      PROVE  queue[d][i] \in Waiting
  <2>1. Current(d) /\ queue[d][i] \in Creates
    BY DEF ReadIsCurrent, Shape
  <2> QED
    BY <1>a, <2>1, ListedWaiting DEF Waiting, IsActive
<1>1. ASSUME NEW r \in Creates, CreateActs(r) PROVE NobodyMovesBack'
  <2>1. UNCHANGED changeVars /\ \A d \in Changes : stage'[d] = stage[d]
    BY <1>1, CreateFrame DEF Requests
  <2>2. ASSUME NEW d \in Changes, stage[d] = "renumber", NEW s \in Waiting' \ Listed(d),
               NEW i \in DOMAIN queue[d]
        PROVE  doc'[queue[d][i]].position < doc'[s].position
    <3>1. queue[d][i] \in Waiting
      BY <1>a, <2>2
    <3>2. doc'[queue[d][i]] = doc[queue[d][i]]
      BY <1>0, <1>1, <3>1, CreateFrame
    <3>3. CASE s \in Waiting
      BY <1>0, <1>1, <2>2, <3>2, <3>3, CreateFrame DEF NobodyMovesBack
    <3>4. CASE s \notin Waiting
      <4>1. ~UNCHANGED docVars
        BY <3>4 DEF docVars, Waiting
      <4>2. s = r /\ stage[r] = "insert" /\ doc'[r].position = next[r]
        BY <1>1, <3>4, <4>1, CreateJoins
      <4> QED
        BY <3>1, <3>2, <4>2 DEF Checked
    <3> QED
      BY <3>3, <3>4
  <2>3. \A d \in Changes : Listed(d)' = Listed(d)
    BY <2>1 DEF Listed, changeVars
  <2> QED
    BY <2>1, <2>2, <2>3 DEF NobodyMovesBack, changeVars
<1>2. ASSUME NEW c \in Changes, ChangeActs(c) PROVE NobodyMovesBack'
  <2>1. \A d \in Changes \ {c} : stage'[d] = stage[d]
    BY <1>2, ChangeFrame DEF Requests
  <2>2. \A d \in Changes \ {c} : ~Served(d)
    BY <1>2 DEF OneChangeServed, ChangeActs, ChangeStep, BeginChange, ReadReservation,
                CloseReservation, ReadQueue, Renumber, FinishChange, Fail, Served, Ended
  <2>3. \A d \in Changes \ {c} : stage'[d] # "renumber"
    BY <2>1, <2>2 DEF Served, Ended
  <2>4. c \in Requests /\ c \notin Creates
    BY DEF Requests
  <2>5. CASE ReadQueue(c)
    <3>1. PICK o \in Sorted(Waiting) : queue' = [queue EXCEPT ![c] = o]
      BY <2>5 DEF ReadQueue
    <3>2. queue'[c] = o
      BY <3>1 DEF TypeOK
    <3>3. \A s \in Creates : seen'[c][s] = IF s \in Waiting THEN doc[s] ELSE Absent
      BY <2>5 DEF ReadQueue, TypeOK
    <3> DEFINE n == Cardinality(Waiting)
    <3>4. n \in Nat
      BY FS_CardinalityType, FS_Subset DEF Waiting
    <3>5. /\ o \in [1..n -> Waiting]
          /\ \A i, j \in 1..n : i < j => o[i] # o[j] /\ doc[o[i]].position <= doc[o[j]].position
      BY <3>1 DEF Sorted, Orders
    <3> DEFINE f == [i \in 1..n |-> doc[o[i]].position]
    <3>6. \A i, j \in 1..n : i < j => f[i] < f[j]
      <4> SUFFICES ASSUME NEW i \in 1..n, NEW j \in 1..n, i < j PROVE f[i] < f[j]
        OBVIOUS
      <4>1. o[i] \in Waiting /\ o[j] \in Waiting /\ o[i] # o[j]
        BY <3>5
      <4>2. doc[o[i]].position # doc[o[j]].position
        BY <4>1, PositionsDiffer
      <4> QED
        BY <1>0, <3>5, <4>1, <4>2
    <3>7. f \in [1..n -> Nat \ {0}]
      BY <1>0, <3>5
    <3>8. \A i \in 1..n : i <= f[i]
      BY <3>4, <3>6, <3>7, PlaceAtMostPosition
    <3>9. \A i \in DOMAIN o : i \in 1..n /\ seen'[c][o[i]].position = f[i]
      BY <1>0, <3>3, <3>5
    <3>10. Waiting' \ Listed(c)' = {}
      BY <1>0, <2>5, <3>3 DEF ReadQueue, docVars, Waiting, Listed
    <3> HIDE DEF n, f
    <3> QED
      BY <2>3, <3>2, <3>6, <3>8, <3>9, <3>10 DEF NobodyMovesBack
  <2>6. CASE Renumber(c)
    <3>1. stage[c] = "renumber" /\ UNCHANGED <<seen, queue>> /\ Listed(c)' = Listed(c)
      BY <2>6 DEF Renumber, Listed
    <3>2. ASSUME NEW s \in Waiting' \ Listed(c), NEW i \in DOMAIN queue[c]
          PROVE  doc'[queue[c][i]].position < doc'[s].position
      <4>1. /\ Waiting' \subseteq Waiting
            /\ \A t, u \in Waiting' : doc[t].position < doc[u].position
                                     => doc'[t].position < doc'[u].position
        BY <1>2, ChangeKeepsOrder
      <4>2. doc[queue[c][i]].position < doc[s].position
        BY <3>1, <3>2, <4>1 DEF NobodyMovesBack
      <4>3. queue[c][i] \in Waiting'
        <5>1. Current(c)'
          BY CurrentStep DEF ReadIsCurrent
        <5>2. stage'[c] = "renumber"
          BY <2>6, <3>1 DEF Renumber
        <5>3. queue[c][i] \in Creates
          BY DEF Shape
        <5>4. \A j \in DOMAIN queue'[c] :
                doc'[queue'[c][j]] = [status |-> "WAITING",
                  position |-> IF j <= index'[c] THEN j ELSE seen'[c][queue'[c][j]].position]
          BY <5>1, <5>2 DEF Current
        <5>5. doc'[queue[c][i]].status = "WAITING"
          <6>1. queue' = queue /\ i \in DOMAIN queue'[c]
            BY <3>1
          <6>2. \E p : doc'[queue[c][i]] = [status |-> "WAITING", position |-> p]
            BY <5>4, <6>1
          <6> QED
            BY <6>2
        <5> QED
          BY <5>3, <5>5 DEF Waiting, IsActive
      <4> QED
        BY <4>1, <4>2, <4>3
    <3> QED
      BY <2>3, <3>1, <3>2 DEF NobodyMovesBack
  <2>7. CASE ~ReadQueue(c) /\ ~Renumber(c)
    <3>1. stage'[c] # "renumber"
      BY <1>2, <2>4, <2>7 DEF ChangeActs, ChangeStep, BeginChange, ReadReservation,
         CloseReservation, FinishChange, Fail, EndChange, GoTo, TypeOK
    <3> QED
      BY <2>3, <3>1 DEF NobodyMovesBack
  <2> QED
    BY <2>5, <2>6, <2>7
<1> QED
  BY <1>1, <1>2, NextCases
LEMMA QueueKeptInit == Init => QueueKept
<1> SUFFICES ASSUME Init PROVE QueueKept
  OBVIOUS
<1>1. \A q \in Requests : stage[q] = "idle"
  BY DEF Init
<1>2. Waiting = {} /\ \A r \in Creates : doc[r] = Absent
  BY DEF Init, Unseen, Waiting, IsActive, Absent
<1>3. OneChangeServed /\ OneCreateServed
  BY <1>1 DEF OneChangeServed, OneCreateServed, Served, Requests
<1>4. ReadIsCurrent /\ NobodyMovesBack
  BY <1>1 DEF Init, ReadIsCurrent, Current, NobodyMovesBack, Requests
<1>5. PlacedApart /\ Checked /\ QueueInOrder /\ OneActivePerMember
  BY <1>2 DEF PlacedApart, Checked, QueueInOrder, OneActivePerMember
<1> QED
  BY <1>3, <1>4, <1>5, TypeInit DEF QueueKept, QueueInv

LEMMA QueueKeptStep ==
  ASSUME OneChange
  PROVE  QueueKept /\ [Next]_vars => QueueKept'
<1> SUFFICES ASSUME QueueKept, [Next]_vars PROVE QueueKept'
  OBVIOUS
<1>1. TypeOK' /\ Shape'
  BY TypeStep DEF QueueKept, QueueInv
<1>2. OneChangeServed' /\ ReadIsCurrent'
  BY OneChangeStep, CurrentStep DEF QueueKept, QueueInv
<1>3. OneCreateServed' /\ (raced => raced') /\ PlacedApart'
  BY OneCreateStep, PlacedApartStep
<1>4. QueueInOrder' /\ OneActivePerMember' /\ Checked' /\ NobodyMovesBack'
  <2>1. CASE Next /\ ~raced'
    BY <1>1, <1>2, <1>3, <2>1, OrderStep, NobodyMovesBackStep
  <2>2. CASE raced'
    BY <2>2 DEF QueueInOrder, OneActivePerMember, Checked, NobodyMovesBack
  <2>3. CASE UNCHANGED vars
    BY <2>3 DEF QueueKept, QueueInv, vars, docVars, createVars, changeVars, QueueInOrder,
                OneActivePerMember, Checked, NobodyMovesBack, Waiting, Listed
  <2> QED
    BY <2>1, <2>2, <2>3
<1> QED
  BY <1>1, <1>2, <1>3, <1>4 DEF QueueKept, QueueInv

LEMMA QueueKeptAlways ==
  ASSUME OneChange
  PROVE  Spec => []QueueKept
<1>1. Init => QueueKept
  BY QueueKeptInit
<1>2. QueueKept /\ [Next]_vars => QueueKept'
  BY QueueKeptStep
<1> QED
  BY <1>1, <1>2, PTL DEF Spec

\* The inductive invariant holds while cancellations and fulfilments are
\* served one at a time (ReservationService.cs:35-153).
THEOREM QueueInvariance ==
  ASSUME OneChange
  PROVE  Spec => []QueueInv
<1>1. QueueKept => QueueInv
  BY DEF QueueKept
<1> QED
  BY <1>1, QueueKeptAlways, PTL

\* Whoever reserved first stands first, unless create requests raced: a
\* create request and a renumbering may overlap, and either may fail half way
\* (ReservationService.cs:82-100, ReservationRepository.cs:43-47, 96-108).
THEOREM QueueInOrderHolds ==
  ASSUME OneChange
  PROVE  Spec => []QueueInOrder
<1>1. QueueKept => QueueInOrder
  BY DEF QueueKept
<1> QED
  BY <1>1, QueueKeptAlways, PTL

\* A member has one active reservation of a book, unless create requests
\* raced (ReservationService.cs:65-70).
THEOREM OneActivePerMemberHolds ==
  ASSUME OneChange
  PROVE  Spec => []OneActivePerMember
<1>1. QueueKept => OneActivePerMember
  BY DEF QueueKept
<1> QED
  BY <1>1, QueueKeptAlways, PTL

-----------------------------------------------------------------------------
(***************************************************************************)
(* The promise of the waiting list.                                        *)
(***************************************************************************)

\* A change request takes its own reservation off the list, or nobody.
LEMMA ChangeLeaves ==
  ASSUME QueueKept, NEW c \in Changes, ChangeActs(c)
  PROVE  \/ UNCHANGED doc
         \/ /\ Renumber(c) /\ Waiting' = Waiting /\ Left' = Left
         \/ \E r \in Waiting : /\ Waiting' = Waiting \ {r} /\ Left' = Left \cup {r}
                               /\ \A s \in Creates \ {r} : doc'[s] = doc[s]
<1>1. CASE CloseReservation(c)
  <2>1. target[c] \in Creates /\ Current(c) /\ IsActive(seen[c][target[c]])
    BY <1>1 DEF CloseReservation, QueueKept, QueueInv, Shape, ReadIsCurrent
  <2>2. doc[target[c]] = seen[c][target[c]] /\ closing[c] \in Closed
    BY <1>1, <2>1 DEF CloseReservation, Current, QueueKept, TypeOK
  <2>3. target[c] \in Waiting
    BY <2>1, <2>2 DEF Waiting
  <2>4. doc[target[c]] \in Doc
    BY <2>1, <2>3, ActiveDoc DEF Waiting, QueueKept, TypeOK
  <2>5. /\ doc'[target[c]].status = closing[c]
        /\ \A s \in Creates \ {target[c]} : doc'[s] = doc[s]
    BY <1>1, <2>1, <2>2, <2>4 DEF CloseReservation, Doc, QueueKept, TypeOK
  <2>6. Waiting' = Waiting \ {target[c]} /\ Left' = Left \cup {target[c]}
    BY <2>1, <2>2, <2>5 DEF Waiting, Left, IsActive, Closed
  <2> QED
    BY <2>3, <2>5, <2>6
<1>2. CASE Renumber(c)
  <2>1. Current(c) /\ stage[c] = "renumber"
    BY <1>2 DEF Renumber, QueueKept, QueueInv, ReadIsCurrent
  <2>2. PICK i \in DOMAIN queue[c] :
          doc' = [doc EXCEPT ![queue[c][i]] = [seen[c][queue[c][i]] EXCEPT !.position = i]]
    BY <1>2 DEF Renumber, Misplaced
  <2>3. /\ queue[c][i] \in Creates /\ IsActive(seen[c][queue[c][i]])
        /\ seen[c][queue[c][i]] \in Doc
    BY ActiveDoc DEF QueueKept, QueueInv, Shape, TypeOK
  <2>4. doc[queue[c][i]].status = "WAITING"
    BY <2>1, ListedWaiting
  <2>5. \A s \in Creates : doc'[s].status = doc[s].status
    BY <2>2, <2>3, <2>4 DEF IsActive, Doc, QueueKept, TypeOK
  <2> QED
    BY <1>2, <2>5 DEF Waiting, Left, IsActive
<1> QED
  BY <1>1, <1>2 DEF ChangeActs, ChangeStep, BeginChange, ReadReservation, ReadQueue,
     FinishChange, Fail, docVars

\* Who is on the list, and the order in which.
LEMMA OnTheLine ==
  ASSUME TypeOK, NEW r \in Creates
  PROVE  /\ <<r, r>> \in Line <=> r \in Waiting
         /\ r \in Waiting => doc[r].position \in Nat
         /\ r \in Waiting => r \notin Left
<1>1. r \in Waiting => doc[r].position \in Nat
  BY ActiveDoc DEF TypeOK, Waiting
<1> QED
  BY <1>1 DEF Line, Waiting, Left, IsActive, Closed

LEMMA CreateOnList ==
  ASSUME QueueKept, ~raced, NEW r \in Creates, CreateActs(r)
  PROVE  UNCHANGED <<Line, Left>> \/ (List!Join(r) /\ raced' = raced) \/ raced'
<1> USE DEF QueueKept, QueueInv
<1>1. CASE UNCHANGED docVars
  BY <1>1 DEF docVars, Line, Left, Waiting
<1>2. CASE ~ UNCHANGED docVars
  <2>1. /\ stage[r] = "insert" /\ doc[r] = Absent /\ Waiting' = Waiting \cup {r}
        /\ \A s \in Creates \ {r} : doc'[s] = doc[s]
        /\ doc'[r].position = next[r]
    BY <1>2, CreateJoins
  <2>2. r \notin Waiting /\ r \notin Left
    BY <2>1 DEF Waiting, Left, IsActive, Absent, Closed
  <2>3. \A s \in Waiting : /\ doc[s].position \in Nat /\ doc[s].position < next[r]
                           /\ MemberOf[s] # MemberOf[r] /\ s \in Creates /\ s # r
    BY <2>1, <2>2, OnTheLine DEF Checked, Waiting
  <2>4. next[r] \in Nat
    BY DEF TypeOK
  <2>5. List!Standing = Waiting
    BY OnTheLine DEF List!Standing, Waiting
  <2>6. Line' = Line \cup ((Waiting \cup {r}) \X {r})
    <3>1. \A s \in Waiting : doc'[s] = doc[s]
      BY <2>1, <2>3
    <3>2. \A s, t \in Waiting \cup {r} :
            doc'[s].position <= doc'[t].position
              <=> t = r \/ (s # r /\ doc[s].position <= doc[t].position)
      BY <2>1, <2>3, <2>4, <3>1
    <3> QED
      BY <2>1, <2>2, <3>2 DEF Line
  <2>7. r \in Waiting'
    BY <2>1
  <2>8. Left' = Left
    BY <2>1, <2>2, <2>7 DEF Left, Waiting, IsActive, Closed
  <2>9. raced' = raced
    BY <2>1, <1>2 DEF CreateActs, CreateStep, BeginCreate, RefuseMember, CheckExisting,
       CheckCopies, CreateMoves, ReadPosition, InsertReservation, Fail
  <2> QED
    BY <2>2, <2>3, <2>5, <2>6, <2>8, <2>9 DEF List!Join
<1> QED
  BY <1>1, <1>2

LEMMA ChangeOnList ==
  ASSUME QueueKept, ~raced, NEW c \in Changes, ChangeActs(c)
  PROVE  /\ raced' = raced
         /\ \/ UNCHANGED <<Line, Left>>
            \/ \E r \in Creates : List!Leave(r)
<1> USE DEF QueueKept, QueueInv
<1>0. raced' = raced
  BY ChangeFrame
<1>1. CASE UNCHANGED doc
  BY <1>0, <1>1 DEF Line, Left, Waiting
<1>2. CASE Renumber(c) /\ Waiting' = Waiting /\ Left' = Left
  <2>1. \A s \in Waiting : doc[s].position \in Nat /\ s \in Creates
    BY OnTheLine DEF Waiting
  <2>2. \A s, t \in Waiting : s # t => doc[s].position # doc[t].position
    BY PositionsDiffer
  <2>3. \A s, t \in Waiting : doc[s].position < doc[t].position
                              => doc'[s].position < doc'[t].position
    BY <1>2, ChangeKeepsOrder
  <2>4. \A s \in Waiting : doc'[s].position \in Nat
    <3>1. Next
      BY <1>2 DEF Next, ChangeStep
    <3>2. TypeOK'
      BY <3>1, TypeStep
    <3> QED
      BY <1>2, <2>1, <3>2, ActiveDoc DEF TypeOK, Waiting
  <2>5. \A s, t \in Waiting : doc[s].position <= doc[t].position
                              <=> doc'[s].position <= doc'[t].position
    BY <2>1, <2>2, <2>3, <2>4
  <2>6. Line' = Line
    BY <1>2, <2>5 DEF Line
  <2> QED
    BY <1>0, <1>2, <2>6
<1>3. ASSUME NEW r \in Waiting, Waiting' = Waiting \ {r}, Left' = Left \cup {r},
             \A s \in Creates \ {r} : doc'[s] = doc[s]
      PROVE  List!Leave(r) /\ r \in Creates
  <2>1. r \in Creates /\ r \in List!Standing
    BY OnTheLine DEF List!Standing, Waiting
  <2>2. Line' = {pair \in Line : pair[1] # r /\ pair[2] # r}
    <3>1. \A s \in Waiting' : s \in Waiting /\ s # r /\ doc'[s] = doc[s]
      BY <1>3 DEF Waiting
    <3>2. \A s \in Waiting : s # r => s \in Waiting'
      BY <1>3
    <3> QED
      BY <3>1, <3>2 DEF Line
  <2> QED
    BY <1>0, <1>3, <2>1, <2>2 DEF List!Leave
<1> QED
  BY <1>0, <1>1, <1>2, <1>3, ChangeLeaves

\* Once two create requests have raced, still nobody comes back.
LEMMA LeftForGood ==
  ASSUME QueueKept, [Next]_vars
  PROVE  /\ Left \subseteq Left' /\ \A r \in Left' : <<r, r>> \notin Line'
         /\ raced => raced'
         /\ raced' # raced => UNCHANGED <<Line, Left>>
<1> USE DEF QueueKept, QueueInv
<1>1. TypeOK' /\ (raced => raced') /\ raced \in BOOLEAN /\ raced' \in BOOLEAN
  BY TypeStep, OneCreateStep DEF TypeOK
<1>2. \A r \in Left' : r \in Creates /\ <<r, r>> \notin Line'
  BY <1>1 DEF Left, Line, Waiting, IsActive, Closed
<1>3. ASSUME NEW r \in Creates, CreateActs(r)
      PROVE  Left \subseteq Left' /\ (raced' # raced => UNCHANGED <<Line, Left>>)
  <2>1. Left \subseteq Left'
    BY <1>3, CreateFrame DEF Left, Absent, Closed
  <2>2. raced' # raced => UNCHANGED doc
    BY <1>3 DEF CreateActs, CreateStep, BeginCreate, RefuseMember, CheckExisting,
       CheckCopies, CreateMoves, ReadPosition, InsertReservation, Fail, docVars
  <2> QED
    BY <2>1, <2>2 DEF Line, Left, Waiting
<1>4. ASSUME NEW c \in Changes, ChangeActs(c)
      PROVE  Left \subseteq Left' /\ raced' = raced
  BY <1>4, ChangeFrame DEF Left, IsActive, Closed
<1>5. ASSUME UNCHANGED vars
      PROVE  Left \subseteq Left' /\ raced' = raced
  BY <1>5 DEF vars, docVars, Left
<1> QED
  BY <1>1, <1>2, <1>3, <1>4, <1>5, NextCases DEF vars

\* What members see is a list where one joins behind the others and leaves
\* without disturbing them; positions, their renumbering one document after
\* another and requests cut short do not show. Once two create requests have
\* raced, only that nobody comes back is left of the promise
\* (ReservationService.cs:35-153, ReservationRepository.cs:43-108).
THEOREM ListRefinement ==
  ASSUME OneChange
  PROVE  Spec => ListSpec
<1>1. Init => List!Init
  BY DEF Init, List!Init, Line, Left, Waiting, IsActive, Unseen, Absent, Closed
<1>2. QueueKept /\ [Next]_vars => [List!Next]_<<Line, Left, ~raced>>
  <2> SUFFICES ASSUME QueueKept, [Next]_vars, ~ UNCHANGED <<Line, Left, ~raced>>
               PROVE  List!Next
    OBVIOUS
  <2>0. raced \in BOOLEAN /\ raced' \in BOOLEAN
    BY TypeStep DEF QueueKept, QueueInv, TypeOK
  <2>1. CASE raced
    <3>1. raced' /\ Left \subseteq Left' /\ \A r \in Left' : <<r, r>> \notin Line'
      BY <2>1, LeftForGood
    <3>2. List!Muddle
      BY <2>1, <3>1 DEF List!Muddle
    <3> QED
      BY <3>2 DEF List!Next
  <2>2. CASE ~raced /\ raced'
    <3>1. List!Lapse
      BY <2>2, LeftForGood DEF List!Lapse
    <3> QED
      BY <3>1 DEF List!Next
  <2>3. CASE ~raced /\ ~raced'
    <3>1. ASSUME NEW r \in Creates, CreateActs(r) PROVE List!Next
      BY <2>3, <3>1, CreateOnList DEF List!Next
    <3>2. ASSUME NEW c \in Changes, ChangeActs(c) PROVE List!Next
      BY <2>3, <3>2, ChangeOnList DEF List!Next
    <3>3. CASE UNCHANGED vars
      BY <3>3 DEF vars, docVars, Line, Left, Waiting
    <3> QED
      BY <3>1, <3>2, <3>3, NextCases
  <2> QED
    BY <2>0, <2>1, <2>2, <2>3
<1> QED
  BY <1>1, <1>2, QueueKeptAlways, PTL DEF Spec, ListSpec, List!Spec
=============================================================================
