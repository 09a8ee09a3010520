-------------------------- MODULE ListPages_proofs --------------------------
(***************************************************************************)
(* Proofs about ListPages, for every set of pages, words and operations:   *)
(* ListInv is inductive, and a settled page shows the answer to what it    *)
(* asks, its own operations, and nothing that was not stored.              *)
(***************************************************************************)
EXTENDS ListPages, TLAPS

(* Every constant assumption of ListPages.                                 *)
USE WordsAssumption, LastPagesAssumption, BoundsAssumption, PagesAssumption

(* The page open is one of those described.                                *)
LEMMA PageShape ==
  ASSUME TypeOK
  PROVE  /\ page \in PageTypes
         /\ page.latest => page.writes \cap OwnLoads = {}
BY DEF TypeOK

(* The parts of a query and of a load.                                     *)
LEMMA QueryShape ==
  ASSUME NEW q \in Queries
  PROVE  /\ q.word \in Words /\ q.pick \in Picks /\ q.number \in 1..MaxPage
         /\ \A w \in Words : [q EXCEPT !.word = w] \in Queries
         /\ \A n \in 1..MaxPage : [q EXCEPT !.number = n] \in Queries
         /\ \A w \in Words, p \in Picks, n \in 1..MaxPage :
               [word |-> w, pick |-> p, number |-> n] \in Queries
         /\ [q EXCEPT !.number = 1] \in Queries
         /\ 1 \in 1..MaxPage
<1>1. q.word \in Words /\ q.pick \in Picks /\ q.number \in 1..MaxPage /\ 1 \in 1..MaxPage
  BY DEF Queries, MaxPage
<1>2. q = [word |-> q.word, pick |-> q.pick, number |-> q.number]
  BY DEF Queries
<1>3. ASSUME NEW w \in Words, NEW p \in Picks, NEW n \in 1..MaxPage
      PROVE  [word |-> w, pick |-> p, number |-> n] \in Queries
  BY DEF Queries
<1>4. \A w : [q EXCEPT !.word = w] = [word |-> w, pick |-> q.pick, number |-> q.number]
  BY <1>2
<1>5. ASSUME NEW w \in Words PROVE [q EXCEPT !.word = w] \in Queries
  <2>1. [word |-> w, pick |-> q.pick, number |-> q.number] \in Queries
    BY <1>1, <1>3
  <2>2. [q EXCEPT !.word = w] = [word |-> w, pick |-> q.pick, number |-> q.number]
    BY <1>4, Zenon
  <2> QED
    BY <2>1, <2>2, Zenon
<1>6. \A n : [q EXCEPT !.number = n] = [word |-> q.word, pick |-> q.pick, number |-> n]
  BY <1>2
<1>7. ASSUME NEW n \in 1..MaxPage PROVE [q EXCEPT !.number = n] \in Queries
  <2>1. [word |-> q.word, pick |-> q.pick, number |-> n] \in Queries
    BY <1>1, <1>3
  <2>2. [q EXCEPT !.number = n] = [word |-> q.word, pick |-> q.pick, number |-> n]
    BY <1>6, Zenon
  <2> QED
    BY <2>1, <2>2, Zenon
<1>8. [q EXCEPT !.number = 1] \in Queries
  BY <1>1, <1>7
<1>9. \A w \in Words, p \in Picks, n \in 1..MaxPage :
        [word |-> w, pick |-> p, number |-> n] \in Queries
  BY <1>3
<1> QED
  BY <1>1, <1>5, <1>7, <1>8, <1>9

LEMMA LoadShape ==
  ASSUME NEW n \in Nat, NEW q \in Queries
  PROVE  /\ Load(n, q) \in LoadTypes
         /\ Load(n, q).query = q /\ Load(n, q).answered = FALSE /\ Load(n, q).has = {}
BY DEF Load, LoadTypes

(* What a request of the page's own adds.                                  *)
LEMMA BeginShape ==
  ASSUME TypeOK, NEW q \in Queries, Begin(q)
  PROVE  /\ loads' \subseteq LoadTypes /\ loads' # {} /\ begun' \in Nat
         /\ \A l \in loads' : l \in Forgotten \/ (l.query = q /\ ~l.answered /\ l.has = {})
         /\ Forgotten \subseteq loads
<1>1. begun + 1 \in Nat
  BY DEF TypeOK
<1>2. /\ Load(begun + 1, q) \in LoadTypes
      /\ Load(begun + 1, q).query = q /\ Load(begun + 1, q).answered = FALSE
      /\ Load(begun + 1, q).has = {}
  BY <1>1, LoadShape
<1>3. Forgotten \subseteq loads
  BY DEF Forgotten
<1>4. loads \subseteq LoadTypes
  BY DEF TypeOK
<1>5. loads' = Forgotten \cup {Load(begun + 1, q)} /\ begun' = begun + 1
  BY DEF Begin
<1> QED
  BY <1>1, <1>2, <1>3, <1>4, <1>5

-----------------------------------------------------------------------------
(* The first list is on its way.                                           *)
LEMMA InitListInv ==
  ASSUME Init
  PROVE  ListInv
<1>1. FirstQuery \in Queries
  BY DEF FirstQuery, Queries, MaxPage
<1>2. query \in Queries
  BY <1>1 DEF Init
<1>3. /\ Load(1, query) \in LoadTypes
      /\ Load(1, query).query = query /\ Load(1, query).answered = FALSE
      /\ Load(1, query).has = {}
  BY <1>2, LoadShape
<1>4. box \in Words
  BY <1>2, QueryShape DEF Init
<1>6. loads = {Load(1, query)} /\ shown = [loaded |-> FALSE, query |-> query, has |-> {}]
  BY DEF Init
<1>5. TypeOK
  <2>1. shown \in [loaded : BOOLEAN, query : Queries, has : SUBSET Operations]
    BY <1>2, <1>6
  <2>2. loads \subseteq LoadTypes /\ begun \in Nat
    BY <1>3, <1>6 DEF Init
  <2>3. inputs \in 0..MaxInputs /\ faults \in 0..MaxFaults
    BY DEF Init
  <2> QED
    BY <1>2, <1>4, <2>1, <2>2, <2>3 DEF Init, TypeOK
<1>7. AnswersAreStored /\ ModesOfThePage /\ LoadsAskTheQuery /\ AnswersAreRecent
  BY <1>3, <1>6 DEF Init, AnswersAreStored, ModesOfThePage, LoadsAskTheQuery, AnswersAreRecent
<1>8. ListIsTheAnswer /\ OneChangeAtOnce /\ ListIsStored /\ AsyncNeverCrosses
  BY <1>6 DEF Init, ListIsTheAnswer, OneChangeAtOnce, ListIsStored, AsyncNeverCrosses
<1> QED
  BY <1>5, <1>7, <1>8 DEF ListInv

-----------------------------------------------------------------------------
(* What the page asks changes, and it asks again if the API can tell.      *)
Asking ==
    /\ UNCHANGED <<page, shown, ops, written, acked, faults>>
    /\ box' \in Words /\ timer' \in BOOLEAN /\ cleared' \in BOOLEAN /\ inputs' \in 0..MaxInputs
    /\ query' \in Queries
    /\ \/ \E q \in Queries : Reload(q) /\ (InUrl \/ query' = q)
       \/ Keep /\ Asked(query') = Asked(query)

LEMMA AskingKeeps ==
  ASSUME ListInv, Asking
  PROVE  ListInv'
<1> USE DEF ListInv
<1>0. /\ page' = page /\ shown' = shown /\ ops' = ops /\ written' = written
      /\ acked' = acked /\ faults' = faults
      /\ InUrl' <=> InUrl
      /\ ChangesAtOnce' <=> ChangesAtOnce
  BY DEF Asking, InUrl, ChangesAtOnce
<1>1. CASE \E q \in Queries : Reload(q) /\ (InUrl \/ query' = q)
  <2>1. PICK q \in Queries : Reload(q) /\ (InUrl \/ query' = q)
    BY <1>1
  <2>2. /\ loads' \subseteq LoadTypes /\ loads' # {} /\ begun' \in Nat
        /\ \A l \in loads' : l \in Forgotten \/ (l.query = q /\ ~l.answered /\ l.has = {})
        /\ Forgotten \subseteq loads
    BY <2>1, BeginShape DEF Reload
  <2>3. crossed' = (crossed \/ Crossing) /\ loading' = TRUE /\ failed' = FALSE
    BY <2>1 DEF Reload
  <2>4. ~crossed' => ~crossed /\ ~ChangesAtOnce /\ Forgotten = {}
    BY <2>3 DEF Crossing, Forgotten
  <2>5. TypeOK'
    BY <1>0, <2>2, <2>3 DEF TypeOK, Asking
  <2>6. AnswersAreStored' /\ ModesOfThePage'
    BY <1>0, <2>2 DEF AnswersAreStored, ModesOfThePage
  <2>7. LoadsAskTheQuery'
    <3>1. page.latest => Forgotten = {}
      BY DEF Forgotten
    <3> QED
      BY <1>0, <2>1, <2>2, <2>4, <3>1 DEF LoadsAskTheQuery, Asked
  <2>8. AnswersAreRecent' /\ ListIsTheAnswer'
    BY <1>0, <2>2, <2>4 DEF AnswersAreRecent, ListIsTheAnswer
  <2>9. OneChangeAtOnce' /\ ListIsStored'
    BY <1>0, <2>4 DEF OneChangeAtOnce, ListIsStored, ChangesAtOnce
  <2>10. AsyncNeverCrosses'
    <3> SUFFICES ASSUME page.latest, ~InUrl, page.writes \subseteq {"retry"}
                 PROVE  ~crossed'
      BY <1>0 DEF AsyncNeverCrosses
    <3>1. ~crossed
      BY DEF AsyncNeverCrosses
    <3>2. ~ChangesAtOnce
      BY DEF ChangesAtOnce, ModesOfThePage
    <3> QED
      BY <2>3, <3>1, <3>2 DEF Crossing
  <2> QED
    BY <2>5, <2>6, <2>7, <2>8, <2>9, <2>10
<1>2. CASE Keep /\ Asked(query') = Asked(query)
  <2>1. loads' = loads /\ begun' = begun /\ loading' = loading /\ failed' = failed
        /\ crossed' = crossed
    BY <1>2 DEF Keep
  <2>2. /\ Asked(query)' = Asked(query)
        /\ \A q \in Queries : (page'.paging = page.paging)
    BY <1>0, <1>2 DEF Asked
  <2>3. TypeOK'
    BY <1>0, <2>1 DEF TypeOK, Asking
  <2>4. AnswersAreStored' /\ ModesOfThePage'
    BY <1>0, <2>1 DEF AnswersAreStored, ModesOfThePage
  <2>5. LoadsAskTheQuery' /\ ListIsTheAnswer'
    BY <1>0, <2>1, <2>2 DEF LoadsAskTheQuery, ListIsTheAnswer, Asked
  <2>6. AnswersAreRecent' /\ OneChangeAtOnce'
    BY <1>0, <2>1 DEF AnswersAreRecent, OneChangeAtOnce
  <2>7. ListIsStored' /\ AsyncNeverCrosses'
    BY <1>0, <2>1 DEF ListIsStored, AsyncNeverCrosses
  <2> QED
    BY <2>3, <2>4, <2>5, <2>6, <2>7
<1> QED
  BY <1>1, <1>2 DEF Asking

(* The user's inputs, and the timer, only make the page ask.               *)
LEMMA TypeAsks ==
  ASSUME ListInv, NEW w \in Words, Type(w)
  PROVE  Asking
<1>1. query' \in Queries /\ inputs' \in 0..MaxInputs
  <2>1. query \in Queries /\ inputs \in 0..MaxInputs
    BY DEF ListInv, TypeOK
  <2> QED
    BY <2>1, QueryShape DEF Type, Input
<1>2. UNCHANGED <<page, shown, ops, written, acked, faults>> /\ box' \in Words
      /\ timer' \in BOOLEAN /\ cleared' \in BOOLEAN
  BY DEF Type, Input, ListInv, TypeOK
<1>3. ReloadIfChanged(query')
  BY DEF Type
<1> QED
  BY <1>1, <1>2, <1>3 DEF Asking, ReloadIfChanged

LEMMA TimerAsks ==
  ASSUME ListInv, TimerFires
  PROVE  Asking
<1>1. query' \in Queries /\ inputs' \in 0..MaxInputs /\ box' \in Words
  <2>1. query \in Queries /\ inputs \in 0..MaxInputs /\ box \in Words
    BY DEF ListInv, TypeOK
  <2> QED
    BY <2>1, QueryShape DEF TimerFires
<1>2. UNCHANGED <<page, shown, ops, written, acked, faults>>
      /\ timer' \in BOOLEAN /\ cleared' \in BOOLEAN
  BY DEF TimerFires, ListInv, TypeOK
<1>3. ReloadIfChanged(query')
  BY DEF TimerFires
<1> QED
  BY <1>1, <1>2, <1>3 DEF Asking, ReloadIfChanged

LEMMA TypeLocallyAsks ==
  ASSUME ListInv, NEW w \in Words, TypeLocally(w)
  PROVE  Asking
<1>1. query' \in Queries /\ inputs' \in 0..MaxInputs
  <2>1. query \in Queries /\ inputs \in 0..MaxInputs
    BY DEF ListInv, TypeOK
  <2> QED
    BY <2>1, QueryShape DEF TypeLocally, Input
<1>2. UNCHANGED <<page, shown, ops, written, acked, faults>> /\ box' \in Words
      /\ timer' \in BOOLEAN /\ cleared' \in BOOLEAN
  BY DEF TypeLocally, Input, ListInv, TypeOK
<1>3. ReloadIfChanged(query')
  BY DEF TypeLocally
<1> QED
  BY <1>1, <1>2, <1>3 DEF Asking, ReloadIfChanged

LEMMA TypeInUrlAsks ==
  ASSUME ListInv, NEW w \in Words, TypeInUrl(w)
  PROVE  Asking
<1> DEFINE q == [word |-> w, pick |-> query.pick, number |-> 1]
<1>1. query \in Queries /\ q \in Queries /\ inputs' \in 0..MaxInputs
  <2>1. query \in Queries /\ inputs \in 0..MaxInputs
    BY DEF ListInv, TypeOK
  <2>2. query.pick \in Picks /\ 1 \in 1..MaxPage
    BY <2>1, QueryShape
  <2>3. q \in Queries
    BY <2>2 DEF Queries
  <2>4. inputs' \in 0..MaxInputs
    BY <2>1 DEF TypeInUrl, Input
  <2> QED
    BY <2>1, <2>3, <2>4
<1>2. UNCHANGED <<page, shown, ops, written, acked, faults>> /\ box' \in Words
      /\ timer' \in BOOLEAN /\ cleared' \in BOOLEAN
  BY DEF TypeInUrl, Input, ListInv, TypeOK
<1>3. Reload(q) /\ query' = query /\ InUrl
  BY DEF TypeInUrl, Navigate
<1> QED
  BY <1>1, <1>2, <1>3 DEF Asking

LEMMA PickAsks ==
  ASSUME ListInv, NEW p \in Picks, Pick(p)
  PROVE  Asking
<1>0. query \in Queries /\ inputs \in 0..MaxInputs /\ box \in Words
      /\ timer \in BOOLEAN /\ cleared \in BOOLEAN
  BY DEF ListInv, TypeOK
<1>1. PICK q \in Queries : IF InUrl THEN Navigate(q) ELSE query' = q /\ Reload(q)
  <2>1. (IF page.resets THEN 1 ELSE query.number) \in 1..MaxPage
    BY <1>0, QueryShape
  <2> QED
    BY <1>0, <2>1, QueryShape DEF Pick
<1>2. UNCHANGED <<page, shown, ops, written, acked, faults>>
      /\ box' = box /\ timer' = timer /\ cleared' = cleared
      /\ inputs' \in 0..MaxInputs
  BY <1>0 DEF Pick, Input
<1>3. query' \in Queries /\ Reload(q) /\ (InUrl \/ query' = q)
  BY <1>0, <1>1 DEF Navigate
<1> QED
  BY <1>0, <1>2, <1>3 DEF Asking

LEMMA ClearAsks ==
  ASSUME ListInv, ClearFilters
  PROVE  Asking
<1>0. query \in Queries /\ inputs \in 0..MaxInputs /\ box \in Words /\ timer \in BOOLEAN
  BY DEF ListInv, TypeOK
<1>1. FirstQuery \in Queries
  BY DEF FirstQuery, Queries, MaxPage
<1>2. UNCHANGED <<page, shown, ops, written, acked, faults>> /\ box' = box
      /\ timer' = timer /\ cleared' = TRUE /\ inputs' \in 0..MaxInputs
  BY <1>0 DEF ClearFilters, Input
<1>3. query' = query /\ Reload(FirstQuery) /\ InUrl
  BY DEF ClearFilters, Navigate
<1> QED
  BY <1>0, <1>1, <1>2, <1>3 DEF Asking

LEMMA TurnPageAsks ==
  ASSUME ListInv, NEW n \in 1..MaxPage, TurnPage(n)
  PROVE  Asking
<1>0. query \in Queries /\ inputs \in 0..MaxInputs /\ box \in Words
      /\ timer \in BOOLEAN /\ cleared \in BOOLEAN
  BY DEF ListInv, TypeOK
<1>1. PICK q \in Queries : IF InUrl THEN Navigate(q) ELSE query' = q /\ ReloadIfChanged(q)
  BY <1>0, QueryShape DEF TurnPage
<1>2. UNCHANGED <<page, shown, ops, written, acked, faults>>
      /\ box' = box /\ timer' = timer /\ cleared' = cleared
      /\ inputs' \in 0..MaxInputs
  BY <1>0 DEF TurnPage, Input
<1>3. query' \in Queries
  BY <1>0, <1>1 DEF Navigate
<1>4. \/ Reload(q) /\ (InUrl \/ query' = q)
      \/ Keep /\ Asked(query') = Asked(query)
  BY <1>1 DEF Navigate, ReloadIfChanged
<1> QED
  BY <1>0, <1>2, <1>3, <1>4 DEF Asking

LEMMA RefreshAsks ==
  ASSUME ListInv, Refresh
  PROVE  Asking
<1>0. query \in Queries /\ inputs \in 0..MaxInputs /\ box \in Words
      /\ timer \in BOOLEAN /\ cleared \in BOOLEAN
  BY DEF ListInv, TypeOK
<1>1. Reload(query) /\ query' = query /\ box' = box /\ timer' = timer /\ cleared' = cleared
  BY DEF Refresh
<1>2. UNCHANGED <<page, shown, ops, written, acked, faults>> /\ inputs' \in 0..MaxInputs
  BY <1>0 DEF Refresh, Input
<1> QED
  BY <1>0, <1>1, <1>2 DEF Asking

-----------------------------------------------------------------------------
(* Answers to requests.                                                    *)
LEMMA ServeKeeps ==
  ASSUME ListInv, NEW l \in loads, Serve(l)
  PROVE  ListInv'
<1> USE DEF ListInv
<1> DEFINE m == [id |-> l.id, query |-> l.query, answered |-> TRUE, has |-> written]
<1>1. /\ page' = page /\ query' = query /\ shown' = shown /\ ops' = ops
      /\ written' = written /\ acked' = acked /\ failed' = failed /\ crossed' = crossed
      /\ box' = box /\ timer' = timer /\ cleared' = cleared /\ begun' = begun /\ loading' = loading
      /\ inputs' = inputs /\ faults' = faults
      /\ (InUrl' <=> InUrl) /\ (ChangesAtOnce' <=> ChangesAtOnce)
  BY DEF Serve, InUrl, ChangesAtOnce
<1>2. l \in LoadTypes /\ written \subseteq Operations /\ acked \subseteq written
  BY DEF TypeOK
<1>4. m \in LoadTypes /\ m.query = l.query /\ m.has = written
  BY <1>2 DEF LoadTypes
<1>5. loads' = (loads \ {l}) \cup {m} /\ loads' # {} /\ loads # {}
  BY DEF Serve
<1> HIDE DEF m
<1>6. TypeOK'
  BY <1>1, <1>4, <1>5 DEF TypeOK
<1>7. AnswersAreStored' /\ ModesOfThePage'
  BY <1>1, <1>4, <1>5 DEF AnswersAreStored, ModesOfThePage
<1>8. LoadsAskTheQuery'
  BY <1>1, <1>4, <1>5 DEF LoadsAskTheQuery, Asked
<1>9. AnswersAreRecent' /\ ListIsTheAnswer'
  BY <1>1, <1>2, <1>4, <1>5 DEF AnswersAreRecent, ListIsTheAnswer
<1>10. OneChangeAtOnce' /\ ListIsStored'
  BY <1>1, <1>5 DEF OneChangeAtOnce, ListIsStored
<1>11. AsyncNeverCrosses'
  BY <1>1 DEF AsyncNeverCrosses
<1> QED
  BY <1>6, <1>7, <1>8, <1>9, <1>10, <1>11

(* The list with other rows, or taken off the screen.                      *)
LEMMA ShownShape ==
  ASSUME TypeOK
  PROVE  /\ \A h \in SUBSET Operations :
               /\ [shown EXCEPT !.has = h] \in [loaded : BOOLEAN, query : Queries,
                                                has : SUBSET Operations]
               /\ [shown EXCEPT !.has = h].has = h
               /\ [shown EXCEPT !.has = h].query = shown.query
               /\ [shown EXCEPT !.has = h].loaded = shown.loaded
         /\ shown.has \subseteq Operations /\ shown.query \in Queries
         /\ shown.loaded \in BOOLEAN
<1>1. shown \in [loaded : BOOLEAN, query : Queries, has : SUBSET Operations]
  BY DEF TypeOK
<1> QED
  BY <1>1

LEMMA RedirectKeeps ==
  ASSUME ListInv, NEW l \in loads, Redirect(l)
  PROVE  ListInv'
<1> USE DEF ListInv
<1>1. /\ page' = page /\ query' = query /\ shown' = shown /\ ops' = ops
      /\ written' = written /\ acked' = acked /\ failed' = failed /\ crossed' = crossed
      /\ box' = box /\ timer' = timer /\ cleared' = cleared /\ loading' = loading
      /\ inputs' = inputs /\ faults' = faults
      /\ InUrl /\ (InUrl' <=> InUrl) /\ (ChangesAtOnce' <=> ChangesAtOnce)
  BY DEF Redirect, InUrl, ChangesAtOnce
<1>2. PICK q \in Queries : Begin(q)
  <2>1. l.query \in Queries
    BY DEF TypeOK, LoadTypes
  <2>2. LastPage(l.query.word, l.query.pick) \in 1..MaxPage
    <3>1. LastPage(l.query.word, l.query.pick) \in 0..MaxPage
      BY <2>1, QueryShape DEF LastPage
    <3>2. LastPage(l.query.word, l.query.pick) > 0
      BY DEF Redirect, PastTheEnd
    <3> QED
      BY <3>1, <3>2 DEF MaxPage
  <2> QED
    BY <2>1, <2>2, QueryShape DEF Redirect
<1>3. /\ loads' \subseteq LoadTypes /\ loads' # {} /\ begun' \in Nat
      /\ \A k \in loads' : k \in Forgotten \/ (k.query = q /\ ~k.answered /\ k.has = {})
      /\ Forgotten \subseteq loads
  BY <1>2, BeginShape
<1>4. loads # {}
  OBVIOUS
<1>5. TypeOK'
  BY <1>1, <1>3 DEF TypeOK
<1>6. AnswersAreStored' /\ ModesOfThePage' /\ LoadsAskTheQuery'
  BY <1>1, <1>3 DEF AnswersAreStored, ModesOfThePage, LoadsAskTheQuery
<1>7. AnswersAreRecent' /\ ListIsTheAnswer'
  BY <1>1, <1>3 DEF AnswersAreRecent, ListIsTheAnswer
<1>8. OneChangeAtOnce' /\ ListIsStored'
  BY <1>1, <1>4 DEF OneChangeAtOnce, ListIsStored
<1>9. AsyncNeverCrosses'
  BY <1>1 DEF AsyncNeverCrosses
<1> QED
  BY <1>5, <1>6, <1>7, <1>8, <1>9

LEMMA TakeKeeps ==
  ASSUME ListInv, NEW l \in loads, Take(l)
  PROVE  ListInv'
<1> USE DEF ListInv
<1>1. /\ page' = page /\ ops' = ops /\ begun' = begun
      /\ written' = written /\ acked' = acked /\ failed' = failed /\ crossed' = crossed
      /\ box' = box /\ timer' = timer /\ cleared' = cleared /\ loading' = FALSE
      /\ inputs' = inputs /\ faults' = faults
      /\ (InUrl' <=> InUrl) /\ (ChangesAtOnce' <=> ChangesAtOnce)
  BY DEF Take, InUrl, ChangesAtOnce
<1>2. /\ shown' = [loaded |-> TRUE, query |-> l.query, has |-> l.has]
      /\ shown'.query = l.query /\ shown'.has = l.has /\ shown'.loaded
      /\ loads' = loads \ {l} /\ l.answered
      /\ query' = IF InUrl THEN l.query ELSE query
  BY DEF Take
<1>3. l.query \in Queries /\ l.has \subseteq Operations /\ query \in Queries
  BY DEF TypeOK, LoadTypes
<1>4. TypeOK'
  BY <1>1, <1>2, <1>3 DEF TypeOK
<1>5. AnswersAreStored' /\ ModesOfThePage' /\ LoadsAskTheQuery' /\ AnswersAreRecent'
  BY <1>1, <1>2 DEF AnswersAreStored, ModesOfThePage, LoadsAskTheQuery, AnswersAreRecent, Asked
<1>6. ListIsTheAnswer'
  <2>1. ~crossed => acked \subseteq l.has
    BY <1>2 DEF AnswersAreRecent
  <2>2. ~crossed => Asked(l.query)' = Asked(query)'
    BY <1>1, <1>2 DEF LoadsAskTheQuery, Asked
  <2>3. Asked(shown.query)' = Asked(l.query)'
    BY <1>2
  <2> QED
    BY <1>1, <1>2, <2>1, <2>2, <2>3 DEF ListIsTheAnswer, Asked
<1>7. OneChangeAtOnce' /\ ListIsStored'
  BY <1>1, <1>2 DEF OneChangeAtOnce, ListIsStored, AnswersAreStored
<1>8. AsyncNeverCrosses'
  BY <1>1, <1>2 DEF AsyncNeverCrosses, Take
<1> QED
  BY <1>4, <1>5, <1>6, <1>7, <1>8

LEMMA LoadFailsKeeps ==
  ASSUME ListInv, NEW l \in loads, LoadFails(l)
  PROVE  ListInv'
<1> USE DEF ListInv
<1>1. /\ page' = page /\ ops' = ops /\ begun' = begun
      /\ written' = written /\ acked' = acked /\ failed' = TRUE /\ crossed' = crossed
      /\ timer' = timer /\ cleared' \in BOOLEAN /\ loading' = FALSE /\ inputs' = inputs
      /\ loads' = loads \ {l}
      /\ query' = IF InUrl THEN l.query ELSE query
      /\ (InUrl' <=> InUrl) /\ (ChangesAtOnce' <=> ChangesAtOnce)
  BY DEF LoadFails, InUrl, ChangesAtOnce
<1>2. /\ shown' \in [loaded : BOOLEAN, query : Queries, has : SUBSET Operations]
      /\ shown'.query = shown.query /\ shown'.has = shown.has
      /\ shown'.loaded => shown.loaded
  <2>1. shown \in [loaded : BOOLEAN, query : Queries, has : SUBSET Operations]
    BY DEF TypeOK
  <2>2. shown' = [shown EXCEPT !.loaded = @ /\ ~page.latest]
    BY DEF LoadFails
  <2>3. shown' = [loaded |-> shown.loaded /\ ~page.latest, query |-> shown.query,
                  has |-> shown.has]
    BY <2>1, <2>2
  <2>4. (shown.loaded /\ ~page.latest) \in BOOLEAN /\ shown.loaded \in BOOLEAN
        /\ shown.query \in Queries /\ shown.has \in SUBSET Operations
    BY <2>1
  <2> QED
    BY <2>3, <2>4
<1>3. query' \in Queries /\ box' \in Words /\ faults' \in 0..MaxFaults
  <2>1. l.query \in Queries /\ query \in Queries /\ box \in Words /\ faults \in 0..MaxFaults
    BY DEF TypeOK, LoadTypes
  <2>2. l.query.word \in Words
    BY <2>1, QueryShape
  <2>3. query' \in Queries
    BY <1>1, <2>1
  <2>4. box' \in Words
    BY <2>1, <2>2 DEF LoadFails
  <2>5. faults' \in 0..MaxFaults
    BY <2>1 DEF LoadFails
  <2> QED
    BY <2>3, <2>4, <2>5
<1>4. TypeOK'
  BY <1>1, <1>2, <1>3 DEF TypeOK
<1>5. AnswersAreStored' /\ ModesOfThePage' /\ LoadsAskTheQuery' /\ AnswersAreRecent'
  BY <1>1 DEF AnswersAreStored, ModesOfThePage, LoadsAskTheQuery, AnswersAreRecent, Asked
<1>6. ListIsTheAnswer' /\ OneChangeAtOnce' /\ ListIsStored'
  BY <1>1, <1>2 DEF ListIsTheAnswer, OneChangeAtOnce, ListIsStored
<1>7. AsyncNeverCrosses'
  BY <1>1, <1>2 DEF AsyncNeverCrosses
<1> QED
  BY <1>4, <1>5, <1>6, <1>7

-----------------------------------------------------------------------------
(* Operations.                                                             *)
LEMMA CommitKeeps ==
  ASSUME ListInv, NEW u \in ops, Commit(u)
  PROVE  ListInv'
<1> USE DEF ListInv
<1>1. /\ page' = page /\ query' = query /\ shown' = shown /\ ops' = ops /\ loads' = loads
      /\ acked' = acked /\ failed' = failed /\ crossed' = crossed
      /\ box' = box /\ timer' = timer /\ cleared' = cleared /\ begun' = begun /\ loading' = loading
      /\ inputs' = inputs /\ faults' = faults
      /\ written' = written \cup {u.id}
      /\ (InUrl' <=> InUrl) /\ (ChangesAtOnce' <=> ChangesAtOnce)
  BY DEF Commit, InUrl, ChangesAtOnce
<1>2. u.id \in Operations
  BY DEF TypeOK, OpTypes
<1>3. TypeOK'
  BY <1>1, <1>2 DEF TypeOK
<1>4. AnswersAreStored' /\ ModesOfThePage' /\ LoadsAskTheQuery' /\ AnswersAreRecent'
  BY <1>1 DEF AnswersAreStored, ModesOfThePage, LoadsAskTheQuery, AnswersAreRecent, Asked
<1>5. ListIsTheAnswer' /\ OneChangeAtOnce' /\ ListIsStored'
  BY <1>1 DEF ListIsTheAnswer, OneChangeAtOnce, ListIsStored, Asked
<1>6. AsyncNeverCrosses'
  BY <1>1 DEF AsyncNeverCrosses
<1> QED
  BY <1>3, <1>4, <1>5, <1>6

LEMMA SubmitKeeps ==
  ASSUME ListInv, NEW o \in Operations, NEW mode \in Modes, Submit(o, mode)
  PROVE  ListInv'
<1> USE DEF ListInv
<1> DEFINE v == [id |-> o, mode |-> mode, query |-> query, before |-> shown.has]
<1>1. /\ page' = page /\ query' = query /\ loads' = loads
      /\ written' = written /\ acked' = acked /\ failed' = failed
      /\ box' = box /\ timer' = timer /\ cleared' = cleared /\ begun' = begun /\ loading' = loading
      /\ inputs' = inputs /\ faults' = faults
      /\ ops' = ops \cup {v}
      /\ mode \in page.writes
      /\ crossed' = (crossed \/ ("optimistic" \in page.writes /\ (ops # {} \/ loads # {})))
      /\ (InUrl' <=> InUrl)
  BY DEF Submit, InUrl
<1>2. /\ shown.has \subseteq Operations /\ query \in Queries
      /\ shown \in [loaded : BOOLEAN, query : Queries, has : SUBSET Operations]
  BY DEF TypeOK
<1>3. /\ v.mode = mode /\ v.id = o /\ v.before = shown.has /\ v \in OpTypes
  BY <1>2 DEF OpTypes
<1>4. /\ shown' \in [loaded : BOOLEAN, query : Queries, has : SUBSET Operations]
      /\ shown'.query = shown.query /\ shown'.loaded = shown.loaded
      /\ shown'.has = IF mode = "optimistic" THEN shown.has \cup {o} ELSE shown.has
  <2>1. CASE mode = "optimistic"
    <3>1. shown.has \cup {o} \in SUBSET Operations
      BY <1>2
    <3>2. shown' = [shown EXCEPT !.has = shown.has \cup {o}]
      BY <2>1 DEF Submit
    <3> QED
      BY <2>1, <3>1, <3>2, ShownShape
  <2>2. CASE mode # "optimistic"
    BY <1>2, <2>2 DEF Submit
  <2> QED
    BY <2>1, <2>2
<1> HIDE DEF v
<1>5. TypeOK'
  BY <1>1, <1>3, <1>4 DEF TypeOK
<1>6. AnswersAreStored' /\ LoadsAskTheQuery' /\ AnswersAreRecent'
  BY <1>1 DEF AnswersAreStored, LoadsAskTheQuery, AnswersAreRecent, Asked
<1>7. ModesOfThePage'
  BY <1>1, <1>3 DEF ModesOfThePage
<1>8. ListIsTheAnswer'
  BY <1>1, <1>4 DEF ListIsTheAnswer, Asked
<1>9. OneChangeAtOnce'
  <2> SUFFICES ASSUME ~crossed', NEW u \in ops', u.mode = "optimistic"
               PROVE  /\ loads' = {} /\ ops' = {u} /\ u.id \in shown'.has
                      /\ u.before \subseteq written' /\ shown'.has \subseteq u.before \cup {u.id}
                      /\ ~failed' => acked' \subseteq u.before
    BY DEF OneChangeAtOnce
  <2>1. "optimistic" \in page.writes /\ ~crossed
    BY <1>1, <1>3 DEF ModesOfThePage
  <2>2. ops = {} /\ loads = {}
    BY <1>1, <2>1
  <2>3. u = v /\ mode = "optimistic"
    BY <1>1, <1>3, <2>2
  <2>4. shown.has \subseteq written
    BY <2>1, <2>2 DEF ListIsStored, ChangesAtOnce
  <2>5. ~failed => acked \subseteq shown.has
    BY <2>1, <2>2 DEF ListIsTheAnswer
  <2> QED
    BY <1>1, <1>3, <1>4, <2>2, <2>3, <2>4, <2>5
<1>10. ListIsStored'
  <2> SUFFICES ASSUME ~crossed', ~ChangesAtOnce'
               PROVE  shown'.has \subseteq written'
    BY DEF ListIsStored
  <2>1. mode # "optimistic" /\ ~ChangesAtOnce /\ ~crossed
    BY <1>1, <1>3 DEF ChangesAtOnce
  <2> QED
    BY <1>1, <1>4, <2>1 DEF ListIsStored
<1>11. AsyncNeverCrosses'
  BY <1>1, <1>4 DEF AsyncNeverCrosses
<1> QED
  BY <1>5, <1>6, <1>7, <1>8, <1>9, <1>10, <1>11

(* What the page is told of was written, and the operation is over.        *)
LEMMA AcknowledgeShape ==
  ASSUME ListInv, NEW u \in ops, Acknowledge(u)
  PROVE  /\ u \in OpTypes /\ u.query \in Queries /\ u.id \in Operations
         /\ u.mode \in page.writes /\ u.id \in written
         /\ ops' = ops \ {u} /\ ops' \subseteq OpTypes
         /\ acked' = acked \cup {u.id} /\ acked' \subseteq written
BY DEF ListInv, TypeOK, OpTypes, ModesOfThePage, Acknowledge

(* An operation that ends in a request of the page's own: what is common   *)
(* to retry(), load() and the review section's loads.                      *)
Reloading(q) ==
    /\ Begin(q)
    /\ UNCHANGED <<page, box, timer, cleared, written, inputs, faults, shown>>
    /\ query' \in Queries
    /\ loading' \in BOOLEAN /\ failed' \in BOOLEAN
    /\ crossed' \in BOOLEAN
    /\ ~crossed' => ~crossed /\ ~Crossing /\ q = query'
    /\ page.latest => q = query' /\ crossed' = (crossed \/ Crossing)

LEMMA ReloadingKeeps ==
  ASSUME ListInv, NEW u \in ops, Acknowledge(u), u.mode # "optimistic",
         NEW q \in Queries, Reloading(q)
  PROVE  ListInv'
<1> USE DEF ListInv
<1>0. /\ page' = page /\ box' = box /\ timer' = timer /\ cleared' = cleared /\ written' = written
      /\ inputs' = inputs /\ faults' = faults /\ shown' = shown
      /\ (InUrl' <=> InUrl)
  BY DEF Reloading, InUrl
<1>1. /\ u.id \in written /\ ops' = ops \ {u} /\ ops' \subseteq OpTypes
      /\ acked' = acked \cup {u.id} /\ acked' \subseteq written
  BY AcknowledgeShape
<1>2. /\ loads' \subseteq LoadTypes /\ loads' # {} /\ begun' \in Nat
      /\ \A l \in loads' : l \in Forgotten \/ (l.query = q /\ ~l.answered /\ l.has = {})
      /\ Forgotten \subseteq loads
  BY BeginShape DEF Reloading
<1>3. ~crossed' => ~crossed /\ ~ChangesAtOnce /\ Forgotten = {}
  BY DEF Reloading, Crossing, Forgotten
<1>4. TypeOK'
  BY <1>0, <1>1, <1>2 DEF TypeOK, Reloading
<1>5. AnswersAreStored' /\ ModesOfThePage'
  BY <1>0, <1>1, <1>2 DEF AnswersAreStored, ModesOfThePage
<1>6. LoadsAskTheQuery'
  <2>1. page.latest => Forgotten = {}
    BY DEF Forgotten
  <2> QED
    BY <1>0, <1>2, <1>3, <2>1 DEF LoadsAskTheQuery, Asked, Reloading
<1>7. AnswersAreRecent' /\ ListIsTheAnswer'
  BY <1>2, <1>3 DEF AnswersAreRecent, ListIsTheAnswer
<1>8. OneChangeAtOnce' /\ ListIsStored'
  BY <1>0, <1>1, <1>3 DEF OneChangeAtOnce, ListIsStored, ChangesAtOnce
<1>9. AsyncNeverCrosses'
  <2> SUFFICES ASSUME page.latest, ~InUrl, page.writes \subseteq {"retry"}
               PROVE  ~crossed'
    BY <1>0 DEF AsyncNeverCrosses
  <2>1. ~crossed
    BY DEF AsyncNeverCrosses
  <2>2. ~ChangesAtOnce
    BY DEF ChangesAtOnce, ModesOfThePage
  <2> QED
    BY <2>1, <2>2 DEF Crossing, Reloading
<1> QED
  BY <1>4, <1>5, <1>6, <1>7, <1>8, <1>9

LEMMA RetriedKeeps ==
  ASSUME ListInv, NEW u \in ops, Retried(u)
  PROVE  ListInv'
<1>1. query \in Queries /\ crossed \in BOOLEAN
  BY DEF ListInv, TypeOK
<1>2. Reloading(query)
  BY <1>1 DEF Retried, Reload, Unloaded, Reloading, Crossing
<1>3. Acknowledge(u) /\ u.mode # "optimistic"
  BY DEF Retried
<1> QED
  BY <1>1, <1>2, <1>3, ReloadingKeeps

(* A page with loads of its own does not use useAsync.                     *)
LEMMA OwnLoadShape ==
  ASSUME ListInv, NEW u \in ops, u.mode \in OwnLoads
  PROVE  ~page.latest /\ u.mode # "optimistic"
<1>1. u.mode \in page.writes
  BY DEF ListInv, ModesOfThePage
<1>2. page.latest => page.writes \cap OwnLoads = {}
  BY PageShape DEF ListInv
<1> QED
  BY <1>1, <1>2 DEF OwnLoads

LEMMA LoadedKeeps ==
  ASSUME ListInv, NEW u \in ops, Loaded(u)
  PROVE  ListInv'
<1>1. query \in Queries /\ crossed \in BOOLEAN
  BY DEF ListInv, TypeOK
<1>2. u.query \in Queries
  BY AcknowledgeShape DEF Loaded
<1>3. ~page.latest /\ u.mode # "optimistic"
  BY OwnLoadShape DEF Loaded, OwnLoads
<1>4. Reloading(u.query)
  BY <1>1, <1>3 DEF Loaded, Unloaded, Reloading, Crossing
<1>5. Acknowledge(u)
  BY DEF Loaded
<1> QED
  BY <1>2, <1>3, <1>4, <1>5, ReloadingKeeps

LEMMA LoadedAgainKeeps ==
  ASSUME ListInv, NEW u \in ops, LoadedAgain(u)
  PROVE  ListInv'
<1>1. query \in Queries /\ crossed \in BOOLEAN /\ loading \in BOOLEAN /\ failed \in BOOLEAN
  BY DEF ListInv, TypeOK
<1>2. u.query \in Queries
  BY AcknowledgeShape DEF LoadedAgain
<1>3. ~page.latest /\ u.mode # "optimistic"
  BY OwnLoadShape DEF LoadedAgain, OwnLoads
<1>4. Reloading(u.query)
  BY <1>1, <1>3 DEF LoadedAgain, Unloaded, Reloading, Crossing
<1>5. Acknowledge(u)
  BY DEF LoadedAgain
<1> QED
  BY <1>2, <1>3, <1>4, <1>5, ReloadingKeeps

LEMMA WentHomeKeeps ==
  ASSUME ListInv, NEW u \in ops, WentHome(u)
  PROVE  ListInv'
<1>1. query \in Queries /\ crossed \in BOOLEAN /\ loading \in BOOLEAN /\ failed \in BOOLEAN
      /\ begun \in Nat /\ loads \subseteq LoadTypes
  BY DEF ListInv, TypeOK
<1>2. u.query \in Queries /\ Acknowledge(u)
  BY AcknowledgeShape DEF WentHome
<1>3. ~page.latest /\ u.mode # "optimistic"
  BY OwnLoadShape DEF WentHome, OwnLoads
<1>4. query' \in Queries
  BY <1>1, QueryShape DEF WentHome
<1>5. CASE query.number = 1
  <2>1. query' = query
    BY <1>1, <1>5 DEF WentHome, Queries
  <2>2. Begin(u.query) /\ crossed' = (crossed \/ Crossing \/ u.query # query)
        /\ loading' = loading /\ failed' = failed
    BY <1>5 DEF WentHome
  <2>3. Reloading(u.query)
    BY <1>1, <1>3, <2>1, <2>2 DEF WentHome, Unloaded, Reloading
  <2> QED
    BY <1>2, <1>3, <2>3, ReloadingKeeps
<1>6. CASE query.number # 1
  <2> USE DEF ListInv
  <2>1. /\ page' = page /\ shown' = shown /\ written' = written /\ box' = box
        /\ timer' = timer /\ cleared' = cleared /\ inputs' = inputs /\ faults' = faults
        /\ crossed' = TRUE /\ loading' = TRUE /\ failed' = FALSE /\ begun' = begun + 2
        /\ (InUrl' <=> InUrl)
    BY <1>6 DEF WentHome, Unloaded, InUrl
  <2>2. /\ u.id \in written /\ ops' = ops \ {u} /\ ops' \subseteq OpTypes
        /\ acked' = acked \cup {u.id} /\ acked' \subseteq written
    BY <1>2, AcknowledgeShape
  <2>3. PICK k \in LoadTypes, m \in LoadTypes :
           loads' = loads \cup {k, m} /\ k.has = {} /\ m.has = {}
    <3>1. begun + 1 \in Nat /\ begun + 2 \in Nat
      BY <1>1
    <3>2. loads' = loads \cup {Load(begun + 1, u.query), Load(begun + 2, query')}
      BY <1>6 DEF WentHome
    <3>3. Load(begun + 1, u.query) \in LoadTypes /\ Load(begun + 1, u.query).has = {}
      BY <1>2, <3>1, LoadShape
    <3>4. Load(begun + 2, query') \in LoadTypes /\ Load(begun + 2, query').has = {}
      BY <1>4, <3>1, LoadShape
    <3> QED
      BY <3>2, <3>3, <3>4
  <2>4. TypeOK'
    <3>1. loads' \subseteq LoadTypes /\ begun' \in Nat
      BY <1>1, <2>1, <2>3
    <3> QED
      BY <1>4, <2>1, <2>2, <3>1 DEF TypeOK
  <2>5. AnswersAreStored' /\ ModesOfThePage'
    BY <2>1, <2>2, <2>3 DEF AnswersAreStored, ModesOfThePage
  <2>6. LoadsAskTheQuery' /\ AnswersAreRecent' /\ ListIsTheAnswer' /\ OneChangeAtOnce'
        /\ ListIsStored' /\ AsyncNeverCrosses'
    BY <1>3, <2>1 DEF LoadsAskTheQuery, AnswersAreRecent, ListIsTheAnswer, OneChangeAtOnce,
                      ListIsStored, AsyncNeverCrosses
  <2> QED
    BY <2>4, <2>5, <2>6
<1> QED
  BY <1>5, <1>6

LEMMA MergedKeeps ==
  ASSUME ListInv, NEW u \in ops, Merged(u)
  PROVE  ListInv'
<1> USE DEF ListInv
<1>1. /\ page' = page /\ query' = query /\ loads' = loads /\ begun' = begun
      /\ written' = written /\ failed' = failed /\ loading' = loading
      /\ box' = box /\ timer' = timer /\ cleared' = cleared /\ inputs' = inputs /\ faults' = faults
      /\ crossed' = (crossed \/ loads # {}) /\ u.mode = "merge"
      /\ (InUrl' <=> InUrl)
  BY DEF Merged, Unloaded, InUrl
<1>2. /\ u.id \in written /\ ops' = ops \ {u} /\ ops' \subseteq OpTypes
      /\ acked' = acked \cup {u.id} /\ acked' \subseteq written
      /\ u.mode \in page.writes
  BY AcknowledgeShape DEF Merged
<1>3. /\ shown' \in [loaded : BOOLEAN, query : Queries, has : SUBSET Operations]
      /\ shown'.query = shown.query /\ shown'.loaded = shown.loaded
      /\ shown'.has = shown.has \cup {u.id}
  <2>1. shown.has \cup {u.id} \in SUBSET Operations
    BY <1>2, ShownShape DEF TypeOK
  <2>2. shown' = [shown EXCEPT !.has = shown.has \cup {u.id}]
    BY DEF Merged
  <2> QED
    BY <2>1, <2>2, ShownShape
<1>4. TypeOK'
  BY <1>1, <1>2, <1>3 DEF TypeOK
<1>5. AnswersAreStored' /\ ModesOfThePage' /\ LoadsAskTheQuery'
  BY <1>1, <1>2 DEF AnswersAreStored, ModesOfThePage, LoadsAskTheQuery, Asked
<1>6. AnswersAreRecent' /\ ListIsTheAnswer'
  BY <1>1, <1>2, <1>3 DEF AnswersAreRecent, ListIsTheAnswer, Asked
<1>7. OneChangeAtOnce'
  <2>1. ASSUME ~crossed', NEW v \in ops', v.mode = "optimistic"
        PROVE  FALSE
    <3>1. ops = {v}
      BY <1>1, <1>2, <2>1 DEF OneChangeAtOnce
    <3> QED
      BY <1>2, <2>1, <3>1
  <2> QED
    BY <2>1 DEF OneChangeAtOnce
<1>8. ListIsStored'
  <2>1. ~ChangesAtOnce' => ~ChangesAtOnce
    BY <1>1, <1>2 DEF ChangesAtOnce
  <2> QED
    BY <1>1, <1>2, <1>3, <2>1 DEF ListIsStored
<1>9. AsyncNeverCrosses'
  BY <1>1, <1>2, <1>3 DEF AsyncNeverCrosses
<1> QED
  BY <1>4, <1>5, <1>6, <1>7, <1>8, <1>9

LEMMA ConfirmedKeeps ==
  ASSUME ListInv, NEW u \in ops, Confirmed(u)
  PROVE  ListInv'
<1> USE DEF ListInv
<1>1. /\ page' = page /\ query' = query /\ loads' = loads /\ begun' = begun
      /\ written' = written /\ failed' = failed /\ loading' = loading
      /\ box' = box /\ timer' = timer /\ cleared' = cleared /\ inputs' = inputs /\ faults' = faults
      /\ shown' = shown /\ crossed' = crossed /\ u.mode = "optimistic"
      /\ (InUrl' <=> InUrl)
  BY DEF Confirmed, Unloaded, InUrl
<1>2. /\ u.id \in written /\ ops' = ops \ {u} /\ ops' \subseteq OpTypes
      /\ acked' = acked \cup {u.id} /\ acked' \subseteq written
  BY AcknowledgeShape DEF Confirmed
<1>3. ~crossed => /\ loads = {} /\ ops = {u} /\ u.id \in shown.has
                  /\ u.before \subseteq written /\ shown.has \subseteq u.before \cup {u.id}
  BY <1>1 DEF OneChangeAtOnce
<1>4. TypeOK'
  BY <1>1, <1>2 DEF TypeOK
<1>5. AnswersAreStored' /\ ModesOfThePage' /\ LoadsAskTheQuery'
  BY <1>1, <1>2 DEF AnswersAreStored, ModesOfThePage, LoadsAskTheQuery, Asked
<1>6. AnswersAreRecent' /\ ListIsTheAnswer'
  BY <1>1, <1>2, <1>3 DEF AnswersAreRecent, ListIsTheAnswer, Asked
<1>7. OneChangeAtOnce' /\ ListIsStored'
  BY <1>1, <1>2, <1>3 DEF OneChangeAtOnce, ListIsStored
<1>8. AsyncNeverCrosses'
  BY <1>1 DEF AsyncNeverCrosses
<1> QED
  BY <1>4, <1>5, <1>6, <1>7, <1>8

LEMMA OperationFailsKeeps ==
  ASSUME ListInv, NEW u \in ops, OperationFails(u)
  PROVE  ListInv'
<1> USE DEF ListInv
<1>1. /\ page' = page /\ query' = query /\ loads' = loads /\ begun' = begun
      /\ written' = written /\ acked' = acked /\ failed' = failed /\ loading' = loading
      /\ box' = box /\ timer' = timer /\ cleared' = cleared /\ inputs' = inputs
      /\ crossed' = crossed /\ ops' = ops \ {u}
      /\ (InUrl' <=> InUrl)
  BY DEF OperationFails, InUrl
<1>2. u \in OpTypes /\ u.before \subseteq Operations /\ ops' \subseteq OpTypes
      /\ faults' \in 0..MaxFaults
  BY <1>1 DEF TypeOK, OpTypes, OperationFails
<1>3. /\ shown' \in [loaded : BOOLEAN, query : Queries, has : SUBSET Operations]
      /\ shown'.query = shown.query /\ shown'.loaded = shown.loaded
      /\ shown'.has = IF u.mode = "optimistic" THEN u.before ELSE shown.has
  <2>1. CASE u.mode = "optimistic"
    <3>1. shown' = [shown EXCEPT !.has = u.before]
      BY <2>1 DEF OperationFails
    <3> QED
      BY <1>2, <2>1, <3>1, ShownShape
  <2>2. CASE u.mode # "optimistic"
    <3>1. shown' = shown
      BY <2>2 DEF OperationFails
    <3> QED
      BY <2>2, <3>1 DEF TypeOK
  <2> QED
    BY <2>1, <2>2
<1>4. TypeOK'
  BY <1>1, <1>2, <1>3 DEF TypeOK
<1>5. AnswersAreStored' /\ ModesOfThePage' /\ LoadsAskTheQuery' /\ AnswersAreRecent'
  BY <1>1 DEF AnswersAreStored, ModesOfThePage, LoadsAskTheQuery, AnswersAreRecent, Asked
<1>6. CASE u.mode = "optimistic"
  <2>1. ~crossed => /\ loads = {} /\ ops = {u} /\ u.before \subseteq written
                    /\ (~failed => acked \subseteq u.before)
    BY <1>6 DEF OneChangeAtOnce
  <2>2. ListIsTheAnswer'
    BY <1>1, <1>3, <1>6, <2>1 DEF ListIsTheAnswer, Asked
  <2>3. OneChangeAtOnce' /\ ListIsStored'
    BY <1>1, <1>3, <1>6, <2>1 DEF OneChangeAtOnce, ListIsStored
  <2>4. AsyncNeverCrosses'
    BY <1>1, <1>3 DEF AsyncNeverCrosses
  <2> QED
    BY <1>4, <1>5, <2>2, <2>3, <2>4
<1>7. CASE u.mode # "optimistic"
  <2>1. ChangesAtOnce' <=> ChangesAtOnce
    BY <1>1, <1>7 DEF ChangesAtOnce
  <2>2. ListIsTheAnswer'
    BY <1>1, <1>3, <1>7 DEF ListIsTheAnswer, Asked
  <2>3. OneChangeAtOnce'
    BY <1>1, <1>3, <1>7 DEF OneChangeAtOnce
  <2>4. ListIsStored'
    BY <1>1, <1>3, <1>7, <2>1 DEF ListIsStored
  <2>5. AsyncNeverCrosses'
    BY <1>1, <1>3 DEF AsyncNeverCrosses
  <2> QED
    BY <1>4, <1>5, <2>2, <2>3, <2>4, <2>5
<1> QED
  BY <1>6, <1>7

LEMMA StutterKeeps ==
  ASSUME ListInv, UNCHANGED vars
  PROVE  ListInv'
<1> USE DEF ListInv, vars
<1>1. TypeOK'
  BY DEF TypeOK
<1>2. AnswersAreStored' /\ ModesOfThePage' /\ LoadsAskTheQuery' /\ AnswersAreRecent'
  BY DEF AnswersAreStored, ModesOfThePage, LoadsAskTheQuery, AnswersAreRecent, Asked, InUrl
<1>3. ListIsTheAnswer' /\ OneChangeAtOnce' /\ ListIsStored'
  BY DEF ListIsTheAnswer, OneChangeAtOnce, ListIsStored, ChangesAtOnce, Asked
<1>4. AsyncNeverCrosses'
  BY DEF AsyncNeverCrosses, InUrl
<1> QED
  BY <1>1, <1>2, <1>3, <1>4

-----------------------------------------------------------------------------
LEMMA NextKeeps ==
  ASSUME ListInv, [Next]_vars
  PROVE  ListInv'
<1>1. CASE UserActs
  <2>1. CASE \E w \in Words : Type(w) \/ TypeLocally(w) \/ TypeInUrl(w)
    BY <2>1, TypeAsks, TypeLocallyAsks, TypeInUrlAsks, AskingKeeps
  <2>2. CASE \E p \in Picks : Pick(p)
    BY <2>2, PickAsks, AskingKeeps
  <2>6. CASE ClearFilters
    BY <2>6, ClearAsks, AskingKeeps
  <2>3. CASE \E n \in 1..MaxPage : TurnPage(n)
    BY <2>3, TurnPageAsks, AskingKeeps
  <2>4. CASE Refresh
    BY <2>4, RefreshAsks, AskingKeeps
  <2>5. CASE \E o \in Operations, mode \in Modes : Submit(o, mode)
    BY <2>5, SubmitKeeps
  <2> QED
    BY <1>1, <2>1, <2>2, <2>3, <2>4, <2>5, <2>6 DEF UserActs
<1>2. CASE Progress
  <2>1. CASE TimerFires
    BY <2>1, TimerAsks, AskingKeeps
  <2>2. CASE \E l \in loads : Arrives(l)
    BY <2>2, ServeKeeps, RedirectKeeps, TakeKeeps DEF Arrives
  <2>3. CASE \E u \in ops : Commit(u) \/ Ends(u)
    BY <2>3, CommitKeeps, RetriedKeeps, LoadedKeeps, LoadedAgainKeeps, WentHomeKeeps,
       MergedKeeps, ConfirmedKeeps DEF Ends
  <2> QED
    BY <1>2, <2>1, <2>2, <2>3 DEF Progress
<1>3. CASE Fails
  BY <1>3, LoadFailsKeeps, OperationFailsKeeps DEF Fails
<1> QED
  BY <1>1, <1>2, <1>3, StutterKeeps DEF Next

(* Whatever the page and however its requests and operations interleave,   *)
(* its parts stay related: what is under way, what is shown and what the   *)
(* API has stored (use-async.ts, and the handlers of every list page).     *)
THEOREM ListInvariance == Spec => []ListInv
<1>1. Init => ListInv
  BY InitListInv
<1>2. ListInv /\ [Next]_vars => ListInv'
  BY NextKeeps
<1> QED
  BY <1>1, <1>2, PTL DEF Spec

(* A settled page shows the answer to what it asks for.                    *)
THEOREM AnswersTheQueryHolds == Spec => []AnswersTheQuery
<1>1. ListInv => AnswersTheQuery
  BY DEF ListInv, ListIsTheAnswer, AnswersTheQuery, Settled
<1> QED
  BY <1>1, ListInvariance, PTL

(* ... and every operation it was told had succeeded.                      *)
THEOREM ShowsOwnWritesHolds == Spec => []ShowsOwnWrites
<1>1. ListInv => ShowsOwnWrites
  BY DEF ListInv, ListIsTheAnswer, ShowsOwnWrites, Settled
<1> QED
  BY <1>1, ListInvariance, PTL

(* ... and none that was not stored, the failed ones included.             *)
THEOREM NothingMadeUpHolds == Spec => []NothingMadeUp
<1>1. ListInv => NothingMadeUp
  BY DEF ListInv, ListIsStored, ChangesAtOnce, NothingMadeUp, Settled
<1> QED
  BY <1>1, ListInvariance, PTL

-----------------------------------------------------------------------------
(* A step that puts another query's list on the screen takes an answer,    *)
(* and the request of a page that uses useAsync is for its query.          *)
LEMMA StepTakesTheLatest ==
  ASSUME ListInv, [Next]_vars, page.latest, ~InUrl, shown' # shown,
         shown'.query # shown.query
  PROVE  Asked(shown'.query) = Asked(query')
<1> USE DEF ListInv
<1>0. \A h \in SUBSET Operations : [shown EXCEPT !.has = h].query = shown.query
  BY ShownShape
<1>1. CASE \E l \in loads : Take(l)
  <2>1. PICK l \in loads : Take(l)
    BY <1>1
  <2>2. shown'.query = l.query /\ query' = query
    BY <2>1 DEF Take
  <2> QED
    BY <2>2 DEF LoadsAskTheQuery
<1>2. CASE \E l \in loads : LoadFails(l)
  <2>1. shown' = [shown EXCEPT !.loaded = @ /\ ~page.latest]
    BY <1>2 DEF LoadFails
  <2>2. shown \in [loaded : BOOLEAN, query : Queries, has : SUBSET Operations]
    BY DEF TypeOK
  <2>3. shown'.query = shown.query
    BY <2>1, <2>2
  <2> QED
    BY <2>3
<1>3. CASE \E o \in Operations, mode \in Modes : Submit(o, mode)
  <2>1. PICK o \in Operations, mode \in Modes : Submit(o, mode)
    BY <1>3
  <2>2. shown' = [shown EXCEPT !.has = shown.has \cup {o}]
    BY <2>1 DEF Submit
  <2>3. shown.has \cup {o} \in SUBSET Operations
    BY ShownShape
  <2> QED
    BY <1>0, <2>2, <2>3
<1>4. CASE \E u \in ops : Merged(u)
  <2>1. PICK u \in ops : Merged(u)
    BY <1>4
  <2>2. shown' = [shown EXCEPT !.has = shown.has \cup {u.id}] /\ u.id \in Operations
    BY <2>1, AcknowledgeShape DEF Merged
  <2>3. shown.has \cup {u.id} \in SUBSET Operations
    BY <2>2, ShownShape
  <2> QED
    BY <1>0, <2>2, <2>3
<1>5. CASE \E u \in ops : OperationFails(u)
  <2>1. PICK u \in ops : OperationFails(u)
    BY <1>5
  <2>2. shown' = [shown EXCEPT !.has = u.before] /\ u.before \in SUBSET Operations
    BY <2>1 DEF OperationFails, TypeOK, OpTypes
  <2> QED
    BY <1>0, <2>2
<1>6. \/ \E l \in loads : Take(l) \/ LoadFails(l)
      \/ \E o \in Operations, mode \in Modes : Submit(o, mode)
      \/ \E u \in ops : Merged(u) \/ OperationFails(u)
  <2>1. CASE UserActs
    <3>1. \A w \in Words : (Type(w) \/ TypeLocally(w) \/ TypeInUrl(w)) => shown' = shown
      BY DEF Type, TypeLocally, TypeInUrl, Input
    <3>2. /\ \A p \in Picks : Pick(p) => shown' = shown
          /\ ClearFilters => shown' = shown
      BY DEF Pick, ClearFilters, Input
    <3>3. \A n \in 1..MaxPage : TurnPage(n) => shown' = shown
      BY DEF TurnPage, Input
    <3>4. Refresh => shown' = shown
      BY DEF Refresh, Input
    <3> QED
      BY <2>1, <3>1, <3>2, <3>3, <3>4 DEF UserActs
  <2>2. CASE Progress
    <3>1. TimerFires => shown' = shown
      BY DEF TimerFires
    <3>2. \A l \in loads : Serve(l) \/ Redirect(l) => shown' = shown
      BY DEF Serve, Redirect
    <3>3. \A u \in ops : Commit(u) \/ Retried(u) \/ Loaded(u) \/ LoadedAgain(u)
                         \/ WentHome(u) \/ Confirmed(u) => shown' = shown
      BY DEF Commit, Retried, Loaded, LoadedAgain, WentHome, Confirmed
    <3> QED
      BY <2>2, <3>1, <3>2, <3>3 DEF Progress, Arrives, Ends
  <2>3. CASE Fails
    BY <2>3 DEF Fails
  <2>4. CASE UNCHANGED vars
    BY <2>4 DEF vars
  <2> QED
    BY <2>1, <2>2, <2>3, <2>4 DEF Next
<1> QED
  BY <1>1, <1>2, <1>3, <1>4, <1>5, <1>6

(* The list of a page that uses useAsync only ever changes to the answer   *)
(* for what the page asks at that moment (use-async.ts).                   *)
THEOREM OnlyTheLatestHolds == Spec => OnlyTheLatest
<1>1. ListInv /\ [Next]_vars
        => [page.latest /\ ~InUrl /\ shown' # shown /\ shown'.query # shown.query
            => Asked(shown'.query) = Asked(query')]_vars
  BY StepTakesTheLatest
<1> QED
  BY <1>1, ListInvariance, PTL DEF Spec, OnlyTheLatest

(* What a page at rest shows is what is there (the list pages of both      *)
(* clients).                                                               *)
THEOREM ListIsTrueHolds == Spec => []ListIsTrue
<1>1. AnswersTheQuery /\ ShowsOwnWrites /\ NothingMadeUp => ListIsTrue
  BY DEF ListIsTrue
<1> QED
  BY <1>1, AnswersTheQueryHolds, ShowsOwnWritesHolds, NothingMadeUpHolds, PTL
=============================================================================
