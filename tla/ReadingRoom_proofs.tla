------------------------- MODULE ReadingRoom_proofs -------------------------
(***************************************************************************)
(* Proofs about ReadingRoom, for any chapters and any bounds, and for both *)
(* hooks alone or together: the inductive invariant RoomInv and what       *)
(* follows.                                                                *)
(***************************************************************************)
EXTENDS ReadingRoom, TLAPS

CallTypes == [visit : Visits, kind : {"start", "beat", "end"}, no : Nat,
              at : {"sent", "read", "answered"}]

-----------------------------------------------------------------------------
(* Types.                                                                  *)

LEMMA BoundTypes == MaxVisits \in Nat /\ MaxMoves \in Nat /\ MaxFaults \in Nat /\ 0 \in Places
BY BoundsAssumption DEF Places

LEMMA HereTypes == TypeOK => Here \in Payload
BY DEF TypeOK, Here, Payload

(* Sending a save keeps the types of what has to do with saves.            *)
LEMMA SaveTypes ==
    ASSUME TypeOK, Save
    PROVE  /\ sent' \in Nat /\ saves' \subseteq [no : Nat, what : Payload]
           /\ stored' \in [no : Nat, what : Payload] /\ newest' \in Nat /\ lost' \in Nat
<1>1. [no |-> sent + 1, what |-> Here] \in [no : Nat, what : Payload]
  BY HereTypes DEF TypeOK
<1> QED
  BY <1>1 DEF TypeOK, Save

LEMMA CallIsTyped ==
    ASSUME NEW v \in Visits, NEW kind \in {"start", "beat", "end"}, NEW no \in Nat
    PROVE  Call(v, kind, no) \in CallTypes
BY DEF Call, CallTypes

LEMMA StartTypes ==
    ASSUME NEW v \in Visits
    PROVE  Start(v) \in SUBSET CallTypes
BY CallIsTyped DEF Start

(* The cleanup keeps the types of what has to do with sessions.            *)
LEMMA CleanupTypes ==
    ASSUME TypeOK, VisitsInOrder, NEW started \in SUBSET CallTypes, Cleanup(started)
    PROVE  /\ tracked' \in BOOLEAN /\ gone' \in 0..MaxVisits
           /\ calls' \subseteq CallTypes /\ beats' \in Nat
           /\ sessions' \in [Visits -> {"none", "open", "ended"}]
           /\ unsure' \subseteq Visits
<1>1. tracked => visit \in Visits
  BY BoundTypes DEF TypeOK, VisitsInOrder, Visits
<1>2. tracked => Call(visit, "end", 0) \in CallTypes
  BY <1>1, CallIsTyped
<1>3. calls \subseteq CallTypes
  BY DEF TypeOK, CallTypes
<1>4. CASE tracked
  BY <1>1, <1>2, <1>3, <1>4 DEF Cleanup, TypeOK
<1>5. CASE ~tracked
  BY <1>3, <1>5 DEF Cleanup, TypeOK
<1> QED
  BY <1>4, <1>5

LEMMA InitTypes == Init => TypeOK
<1> SUFFICES ASSUME Init PROVE TypeOK
  OBVIOUS
<1>1. stored \in [no : Nat, what : Payload] /\ place \in Places
  BY BoundTypes DEF Init
<1>2. /\ visit \in 0..MaxVisits /\ gone \in 0..MaxVisits
      /\ moves \in 0..MaxMoves /\ faults \in 0..MaxFaults
  BY BoundTypes DEF Init
<1>3. sessions \in [Visits -> {"none", "open", "ended"}]
  BY DEF Init
<1> QED
  BY <1>1, <1>2, <1>3 DEF Init, TypeOK

(* The reader's steps.                                                     *)
LEMMA ReaderTypes == ASSUME TypeOK, VisitsInOrder, Reader PROVE TypeOK'
<1>1. Moves => moves' \in 0..MaxMoves
  BY BoundTypes DEF Moves, TypeOK
<1>2. ASSUME NEW p \in Places, Scroll(p) PROVE TypeOK'
  BY <1>1, <1>2 DEF Scroll, TypeOK, clientVars, saveVars, sessionVars
<1>3. ASSUME NEW c \in Chapters, Follow(c)
      PROVE  next' \subseteq [chapter : Chapters, rendered : BOOLEAN, initial : Places]
  BY <1>3, BoundTypes DEF Follow
<1>4. ASSUME NEW c \in Chapters, ClickLink(c) PROVE TypeOK'
  BY <1>1, <1>3, <1>4 DEF ClickLink, Follow, TypeOK, clientVars, saveVars, sessionVars
<1>5. ASSUME NEW c \in Chapters, PressKey(c) PROVE TypeOK'
  BY <1>1, <1>3, <1>5, SaveTypes DEF PressKey, Follow, TypeOK, clientVars, sessionVars
<1>6. CASE Hide \/ Show
  BY <1>1, <1>6, SaveTypes DEF Hide, Show, TypeOK, clientVars, saveVars, sessionVars
<1>7. CASE Leave
  <2>1. Leaves /\ Save /\ Cleanup({}) /\ Moves
    BY <1>7 DEF Leave
  <2> QED
    BY <1>1, <1>7, <2>1, SaveTypes, CleanupTypes DEF Leave, Leaves, TypeOK, CallTypes
<1>8. CASE Close
  <2>1. unsure' \subseteq Visits
    <3>1. tracked => visit \in Visits
      BY BoundTypes DEF TypeOK, VisitsInOrder, Visits
    <3> QED
      BY <1>8, <3>1 DEF Close, TypeOK
  <2> QED
    BY <1>1, <1>8, <2>1, SaveTypes DEF Close, Leaves, TypeOK
<1> QED
  BY <1>2, <1>4, <1>5, <1>6, <1>7, <1>8 DEF Reader

(* The steps of the page.                                                  *)
LEMMA PageTypes == ASSUME TypeOK, VisitsInOrder, Page \/ Beat PROVE TypeOK'
<1>1. ASSUME NEW x \in next, Render(x) PROVE TypeOK'
  <2>1. stored.what.place \in Places
    BY DEF TypeOK, Payload
  <2>2. [x EXCEPT !.rendered = TRUE, !.initial = stored.what.place]
          \in [chapter : Chapters, rendered : BOOLEAN, initial : Places]
    BY <2>1 DEF TypeOK
  <2> QED
    BY <1>1, <2>2 DEF Render, Rests, TypeOK, clientVars, saveVars, sessionVars
<1>2. ASSUME NEW x \in next, Visit(x)
      PROVE  /\ visit + 1 \in Visits /\ visit' \in 0..MaxVisits
             /\ chapter' \in Chapters /\ timer' \in BOOLEAN /\ next' = {}
             /\ hooks' \in Hooks /\ hidden' \in BOOLEAN /\ moves' \in 0..MaxMoves
             /\ faults' \in 0..MaxFaults /\ x.initial \in Places /\ Restored(x) \subseteq Places
  <2>1. visit + 1 \in Visits /\ visit + 1 \in 0..MaxVisits
    BY BoundTypes DEF TypeOK, VisitsInOrder, Visits
  <2>2. x.initial \in Places /\ x.chapter \in Chapters
    BY DEF TypeOK
  <2> QED
    BY <1>2, <2>1, <2>2 DEF Visit, Rests, Saving, TypeOK, Restored
<1>3. ASSUME NEW x \in next, Mount(x) PROVE TypeOK'
  <2>1. Visit(x)
    BY <1>3 DEF Mount
  <2>2. Start(visit + 1) \in SUBSET CallTypes
    BY <1>2, <2>1, StartTypes
  <2>3. place' \in Places
    BY <1>2, <1>3, <2>1, BoundTypes DEF Mount
  <2> QED
    BY <1>2, <1>3, <2>1, <2>2, <2>3 DEF Mount, TypeOK, CallTypes, saveVars
<1>4. ASSUME NEW x \in next, Turn(x) PROVE TypeOK'
  <2>1. Visit(x) /\ Save /\ Cleanup(Start(visit + 1))
    BY <1>4 DEF Turn
  <2>2. Start(visit + 1) \in SUBSET CallTypes
    BY <1>2, <2>1, StartTypes
  <2>3. place' \in Places
    BY <1>4, BoundTypes DEF Turn, TypeOK
  <2>4. target' \subseteq Places
    BY <1>2, <1>4, <2>1 DEF Turn, TypeOK
  <2>5. /\ tracked' \in BOOLEAN /\ gone' \in 0..MaxVisits
        /\ calls' \subseteq CallTypes /\ beats' \in Nat
        /\ sessions' \in [Visits -> {"none", "open", "ended"}]
        /\ unsure' \subseteq Visits
    BY <2>1, <2>2, CleanupTypes
  <2> QED
    BY <1>2, <1>4, <2>1, <2>3, <2>4, <2>5, SaveTypes DEF Turn, TypeOK, CallTypes
<1>5. ASSUME NEW p \in target, Restore(p) PROVE TypeOK'
  BY <1>5 DEF Restore, Rests, TypeOK, clientVars, saveVars, sessionVars
<1>6. CASE TimerFires
  BY <1>6, SaveTypes DEF TimerFires, Rests, TypeOK, clientVars, sessionVars
<1>7. CASE Beat
  <2>1. Call(visit, "beat", beats + 1) \in CallTypes
    BY <1>7, BoundTypes, CallIsTyped DEF Beat, TypeOK, VisitsInOrder, Visits
  <2> QED
    BY <1>7, <2>1 DEF Beat, Rests, TypeOK, pageVars, clientVars, saveVars, CallTypes
<1> QED
  BY <1>1, <1>3, <1>4, <1>5, <1>6, <1>7 DEF Page

(* The steps of the API, its answers, and losses.                          *)
LEMMA AnswerTypes == ASSUME TypeOK, Served \/ Lost PROVE TypeOK'
<1>1. ASSUME NEW s \in saves, StoreSave(s) PROVE TypeOK'
  <2>1. s \in [no : Nat, what : Payload]
    BY DEF TypeOK
  <2> QED
    BY <1>1, <2>1 DEF StoreSave, Api, Rests, TypeOK, pageVars, clientVars, sessionVars
<1>2. ASSUME NEW c \in calls, Answered(c)
      PROVE  /\ calls' \subseteq CallTypes
             /\ sessions' \in [Visits -> {"none", "open", "ended"}]
             /\ tracked' \in BOOLEAN
             /\ UNCHANGED <<pageVars, visit, gone, saveVars, beats, unsure, faults, moves>>
  <2>1. c \in CallTypes
    BY DEF TypeOK, CallTypes
  <2>2. /\ [c EXCEPT !.at = "answered"] \in CallTypes /\ [c EXCEPT !.at = "read"] \in CallTypes
        /\ Call(c.visit, "end", 0) \in CallTypes
    BY <2>1, CallIsTyped DEF CallTypes
  <2>3. CASE OpenSession(c)
    BY <2>2, <2>3 DEF OpenSession, Api, Rests, TypeOK, CallTypes, clientVars
  <2>4. CASE ReadSession(c)
    BY <2>2, <2>4 DEF ReadSession, Api, Rests, TypeOK, CallTypes, clientVars
  <2>5. CASE ReplaceSession(c)
    BY <2>5 DEF ReplaceSession, Api, Rests, TypeOK, CallTypes, clientVars
  <2>6. CASE Tracked(c)
    BY <2>6 DEF Tracked, Rests, TypeOK, CallTypes
  <2>7. CASE EndOrphan(c)
    BY <2>2, <2>7 DEF EndOrphan, Api, Rests, TypeOK, CallTypes, clientVars
  <2>8. CASE NobodyHears(c)
    BY <2>8 DEF NobodyHears, Api, Rests, TypeOK, CallTypes, clientVars
  <2> QED
    BY <1>2, <2>3, <2>4, <2>5, <2>6, <2>7, <2>8 DEF Answered
<1>3. ASSUME NEW c \in calls, Answered(c) PROVE TypeOK'
  BY <1>2, <1>3 DEF TypeOK, CallTypes, pageVars, saveVars
<1>4. faults < MaxFaults => faults + 1 \in 0..MaxFaults
  BY BoundTypes DEF TypeOK
<1>5. ASSUME NEW x \in next, RenderWithout(x) PROVE TypeOK'
  <2>1. [x EXCEPT !.rendered = TRUE] \in [chapter : Chapters, rendered : BOOLEAN, initial : Places]
    BY DEF TypeOK
  <2> QED
    BY <1>4, <1>5, <2>1 DEF RenderWithout, Rests, TypeOK, clientVars, saveVars, sessionVars
<1>6. ASSUME NEW s \in saves, LoseSave(s) PROVE TypeOK'
  BY <1>4, <1>6 DEF LoseSave, Rests, TypeOK, pageVars, clientVars, sessionVars
<1>7. ASSUME NEW c \in calls, LoseCall(c) PROVE TypeOK'
  BY <1>4, <1>7 DEF LoseCall, Rests, TypeOK, pageVars, clientVars, saveVars
<1> QED
  BY <1>1, <1>3, <1>5, <1>6, <1>7 DEF Served, Lost

-----------------------------------------------------------------------------
(* Saves.                                                                  *)

(* Nothing is sent, and a new place starts the timer.                      *)
LEMMA NothingSent ==
    ASSUME SaveInv, UNCHANGED <<hooks, saveVars>>,
           ~Saving \/ timer' = TRUE \/ UNCHANGED <<timer, chapter, place>>
    PROVE  SaveInv'
<1>1. Numbered' /\ LatestKnown'
  BY DEF SaveInv, Numbered, LatestKnown, Saving, saveVars
<1>2. LatestIsHere'
  BY DEF SaveInv, Numbered, LatestIsHere, Here, saveVars
<1> QED
  BY <1>1, <1>2 DEF SaveInv

(* What is sent is here, unless the timer will send it again.              *)
LEMMA HereIsSent ==
    ASSUME TypeOK, SaveInv, Save, hooks' = hooks,
           ~Saving \/ timer' = TRUE \/ UNCHANGED <<chapter, place>>
    PROVE  SaveInv'
<1>1. CASE ~Saving
  BY <1>1, NothingSent DEF Save, saveVars
<1>2. CASE Saving
  <2>1. /\ sent' = sent + 1 /\ sent \in Nat
        /\ saves' = saves \cup {[no |-> sent + 1, what |-> Here]}
        /\ UNCHANGED <<stored, newest, lost>>
    BY <1>2 DEF Save, TypeOK
  <2>2. \A s \in saves : s.no \in Nat /\ s.no <= sent
    BY <2>1 DEF SaveInv, Numbered
  <2>3. stored.no \in Nat /\ newest \in Nat /\ lost \in Nat
    BY DEF TypeOK
  <2>4. Numbered'
    <3>1. \A s \in saves' : s.no \in 1..sent'
      BY <2>1, <2>2 DEF SaveInv, Numbered
    <3>2. \A s, t \in saves' : s.no = t.no => s = t
      BY <2>1, <2>2 DEF SaveInv, Numbered
    <3>3. stored'.no <= newest' /\ newest' <= sent' /\ lost' <= sent' /\ Saving'
      BY <1>2, <2>1, <2>3 DEF SaveInv, Numbered, Saving
    <3> QED
      BY <3>1, <3>2, <3>3 DEF Numbered
  <2>5. LatestIsHere'
    <3>1. \A s \in saves' : s.no = sent' => s.what = Here
      BY <2>1, <2>2
    <3>2. stored'.no # sent'
      BY <2>1, <2>3 DEF SaveInv, Numbered
    <3>3. timer' = TRUE \/ Here' = Here
      BY <1>2 DEF Here
    <3> QED
      BY <3>1, <3>2, <3>3 DEF LatestIsHere
  <2>6. LatestKnown'
    <3>1. [no |-> sent + 1, what |-> Here] \in saves'
      BY <2>1
    <3>2. [no |-> sent + 1, what |-> Here].no = sent'
      BY <2>1
    <3> QED
      BY <3>1, <3>2 DEF LatestKnown
  <2> QED
    BY <2>4, <2>5, <2>6 DEF SaveInv
<1> QED
  BY <1>1, <1>2

(* A save is served or lost: the latest one is known to be.                *)
LEMMA SaveEnds ==
    ASSUME TypeOK, SaveInv, NEW s \in saves, StoreSave(s) \/ LoseSave(s)
    PROVE  SaveInv'
<1>1. /\ s.no \in Nat /\ s.no <= sent /\ sent \in Nat /\ newest \in Nat /\ lost \in Nat
      /\ stored.no \in Nat /\ stored.no <= newest /\ newest <= sent /\ lost <= sent
  BY DEF SaveInv, Numbered, TypeOK
<1>2. /\ saves' = saves \ {s} /\ UNCHANGED <<hooks, timer, chapter, place, sent>>
  BY DEF StoreSave, LoseSave, Api, pageVars
<1>3. \/ /\ stored' = s /\ lost' = lost
         /\ newest' = IF s.no > newest THEN s.no ELSE newest
      \/ /\ stored' = stored /\ newest' = newest
         /\ lost' = IF s.no > lost THEN s.no ELSE lost
  BY DEF StoreSave, LoseSave
<1>4. Numbered'
  <2>1. stored'.no <= newest' /\ newest' <= sent' /\ lost' <= sent'
    BY <1>1, <1>2, <1>3
  <2> QED
    BY <1>2, <2>1 DEF SaveInv, Numbered, Saving
<1>5. LatestIsHere'
  BY <1>2, <1>3 DEF SaveInv, LatestIsHere, Here
<1>6. LatestKnown'
  <2>1. s.no = sent => lost' = sent \/ newest' = sent
    BY <1>1, <1>3
  <2>2. lost = sent \/ newest = sent => lost' = sent \/ newest' = sent
    BY <1>1, <1>3
  <2> QED
    BY <1>2, <2>1, <2>2 DEF SaveInv, LatestKnown
<1> QED
  BY <1>4, <1>5, <1>6 DEF SaveInv

LEMMA SaveStep == ASSUME TypeOK, SaveInv, [Next]_vars PROVE SaveInv'
<1>1. ASSUME UNCHANGED <<hooks, saveVars, timer, chapter, place>> PROVE SaveInv'
  BY <1>1, NothingSent
<1>2. ASSUME NEW p \in Places, Scroll(p) PROVE SaveInv'
  BY <1>2, NothingSent DEF Scroll
<1>3. ASSUME NEW c \in Chapters, ClickLink(c) PROVE SaveInv'
  BY <1>1, <1>3 DEF ClickLink
<1>4. ASSUME NEW c \in Chapters, PressKey(c) PROVE SaveInv'
  BY <1>4, HereIsSent DEF PressKey
<1>5. CASE Hide \/ Leave \/ Close
  BY <1>5, HereIsSent DEF Hide, Leave, Close
<1>6. CASE Show
  BY <1>1, <1>6 DEF Show
<1>7. ASSUME NEW x \in next, Render(x) \/ RenderWithout(x) PROVE SaveInv'
  BY <1>1, <1>7 DEF Render, RenderWithout
<1>8. ASSUME NEW x \in next, Mount(x) PROVE SaveInv'
  BY <1>8, NothingSent DEF Mount, Visit
<1>9. ASSUME NEW x \in next, Turn(x) PROVE SaveInv'
  BY <1>9, HereIsSent DEF Turn, Visit
<1>10. ASSUME NEW p \in target, Restore(p) PROVE SaveInv'
  BY <1>10, NothingSent DEF Restore
<1>11. CASE TimerFires
  BY <1>11, HereIsSent DEF TimerFires
<1>12. CASE Beat
  BY <1>1, <1>12 DEF Beat, pageVars
<1>13. ASSUME NEW s \in saves, StoreSave(s) \/ LoseSave(s) PROVE SaveInv'
  BY <1>13, SaveEnds
<1>14. ASSUME NEW c \in calls, Answered(c) PROVE SaveInv'
  BY <1>1, <1>14 DEF Answered, OpenSession, ReadSession, ReplaceSession, Tracked, EndOrphan,
                     NobodyHears, Api, pageVars
<1>15. ASSUME NEW c \in calls, LoseCall(c) PROVE SaveInv'
  BY <1>1, <1>15 DEF LoseCall, pageVars
<1>16. CASE UNCHANGED vars
  BY <1>1, <1>16 DEF vars, pageVars
<1> QED
  BY <1>2, <1>3, <1>4, <1>5, <1>6, <1>7, <1>8, <1>9, <1>10, <1>11, <1>12, <1>13, <1>14, <1>15,
     <1>16 DEF Next, Reader, Page, Served, Lost

-----------------------------------------------------------------------------
(* Sessions.                                                               *)

(* What a typed call is, said of the calls there are.                      *)
LEMMA CallsAreTyped ==
    ASSUME TypeOK, NEW c \in calls
    PROVE  /\ c \in CallTypes /\ c.visit \in Visits /\ c.visit \in Nat /\ visit \in Nat
           /\ gone \in Nat /\ sessions[c.visit] \in {"none", "open", "ended"}
BY BoundTypes DEF TypeOK, CallTypes, Visits

LEMMA VisitsAreNumbers == Visits \subseteq Nat /\ (TypeOK => visit \in Nat /\ gone \in Nat)
BY BoundTypes DEF Visits, TypeOK

(* Nothing that has to do with sessions happens.                           *)
LEMMA SessionsRest ==
    ASSUME SessionInv, UNCHANGED <<open, clientVars, sessionVars>>,
           next' # {} => visit < MaxVisits
    PROVE  SessionInv'
<1>1. VisitsInOrder'
  BY DEF SessionInv, VisitsInOrder, clientVars, sessionVars
<1>2. CallsFit'
  BY DEF SessionInv, CallsFit, Current, clientVars, sessionVars
<1>3. Followed'
  BY DEF SessionInv, Followed, Ending, Current, clientVars, sessionVars
<1> QED
  BY <1>1, <1>2, <1>3 DEF SessionInv

(* The cleanup, when another chapter or none is on the screen afterwards.  *)
LEMMA CleanedUp ==
    ASSUME TypeOK, SessionInv, open, next' = {},
           \/ Cleanup({}) /\ ~open' /\ visit' = visit
           \/ Cleanup(Start(visit + 1)) /\ open' /\ visit' = visit + 1 /\ visit < MaxVisits
    PROVE  SessionInv'
<1> DEFINE started == IF visit' = visit THEN {} ELSE Start(visit + 1)
<1>1. /\ visit \in Nat /\ gone \in Nat /\ gone <= visit /\ MaxVisits \in Nat
      /\ visit' \in {visit, visit + 1} /\ visit' <= MaxVisits
  BY VisitsAreNumbers, BoundTypes DEF SessionInv, VisitsInOrder, TypeOK
<1>2. /\ Cleanup(started) /\ tracked' = FALSE /\ gone' = gone /\ sessions' = sessions
      /\ \A v \in Visits : ~(open' /\ v = visit') \/ v = visit + 1
      /\ \A v \in Visits : Current(v)' => v = visit + 1
  BY <1>1 DEF Cleanup, Current
<1>3. \A c \in started :
         /\ c.visit = visit + 1 /\ c.kind = "start" /\ c.at = "sent" /\ c.no = 0
         /\ visit + 1 \in Visits /\ visit' = visit + 1
  BY <1>1 DEF Start, Call, Visits
<1>4. \A c \in calls' : \/ c \in calls \/ c \in started
                        \/ c = Call(visit, "end", 0) /\ tracked
  BY <1>2 DEF Cleanup
<1>5. calls \subseteq calls' /\ (tracked => Call(visit, "end", 0) \in calls')
  BY <1>2 DEF Cleanup
<1>6. unsure \subseteq unsure' /\ (tracked /\ Beating(visit) => visit \in unsure')
  BY <1>2 DEF Cleanup
<1>7. Call(visit, "end", 0).visit = visit /\ Call(visit, "end", 0).kind = "end"
      /\ Call(visit, "end", 0).at = "sent"
  BY DEF Call
<1>8. tracked => visit \in Visits /\ sessions[visit] # "none"
  BY <1>1 DEF SessionInv, VisitsInOrder, Visits
<1>9. VisitsInOrder'
  <2>1. \A c \in calls' : c.visit <= visit'
    BY <1>1, <1>3, <1>4, <1>7, CallsAreTyped DEF SessionInv, VisitsInOrder
  <2>2. \A v \in Visits : v > visit' => sessions'[v] = "none"
    BY <1>1, <1>2, VisitsAreNumbers DEF SessionInv, VisitsInOrder
  <2> QED
    BY <1>1, <1>2, <2>1, <2>2 DEF VisitsInOrder
<1>10. CallsFit'
  <2> SUFFICES ASSUME NEW c \in calls'
               PROVE  /\ c.kind = "start" => c.no = 0
                      /\ c.at = "answered" => c.kind = "start"
                      /\ c.at = "read" => c.kind # "start"
                      /\ c.kind = "start" /\ c.at = "sent" <=> sessions[c.visit] = "none"
                      /\ c.kind = "start" /\ c.visit <= gone => c.visit \in unsure'
                      /\ c.kind = "beat" => c.visit \in unsure'
                      /\ c.kind = "end" => ~Current(c.visit)'
    BY <1>2 DEF CallsFit
  <2>1. CASE c \in calls
    <3>1. c.visit \in Nat /\ c.visit <= visit /\ ~Current(c.visit)'
      BY <1>1, <1>2, <2>1, CallsAreTyped DEF SessionInv, VisitsInOrder
    <3>2. c.kind = "beat" => c.visit \in unsure'
      BY <1>6, <2>1 DEF SessionInv, CallsFit, Current, Beating
    <3> QED
      BY <1>6, <2>1, <3>1, <3>2 DEF SessionInv, CallsFit
  <2>2. CASE c \in started
    <3>1. visit + 1 \in Visits /\ sessions[visit + 1] = "none" /\ ~(visit + 1 <= gone)
      BY <1>1, <1>3, <2>2 DEF SessionInv, VisitsInOrder
    <3> QED
      BY <1>3, <2>2, <3>1
  <2>3. CASE c = Call(visit, "end", 0) /\ tracked
    BY <1>1, <1>2, <1>7, <1>8, <2>3
  <2> QED
    BY <1>4, <2>1, <2>2, <2>3
<1>11. Followed'
  <2> SUFFICES ASSUME NEW v \in Visits
               PROVE  /\ sessions[v] = "open" => v \in unsure' \/ Ending(v)'
                      /\ sessions[v] = "ended" => ~Current(v)'
    BY <1>2 DEF Followed
  <2>1. sessions[v] # "none" => v <= visit
    BY <1>1, VisitsAreNumbers DEF SessionInv, VisitsInOrder
  <2>2. sessions[v] = "ended" => ~Current(v)'
    BY <1>1, <1>2, <2>1, VisitsAreNumbers
  <2>3. Current(v) /\ tracked => Ending(v)'
    BY <1>5, <1>7 DEF Current, Ending
  <2>4. Ending(v) => Ending(v)'
    BY <1>5 DEF Ending
  <2> QED
    BY <1>6, <2>2, <2>3, <2>4 DEF SessionInv, Followed
<1> QED
  BY <1>9, <1>10, <1>11 DEF SessionInv

(* A page that was closed is opened on a chapter.                          *)
LEMMA Mounted ==
    ASSUME TypeOK, SessionInv, ~open, open', next' = {}, visit < MaxVisits,
           visit' = visit + 1, calls' = calls \cup Start(visit + 1),
           UNCHANGED <<tracked, gone, sessions, unsure>>
    PROVE  SessionInv'
<1>1. visit \in Nat /\ gone \in Nat /\ gone <= visit /\ MaxVisits \in Nat /\ tracked = FALSE
  BY VisitsAreNumbers, BoundTypes DEF SessionInv, VisitsInOrder, TypeOK
<1>2. visit + 1 \in Visits /\ sessions[visit + 1] = "none"
  BY <1>1 DEF Visits, SessionInv, VisitsInOrder
<1>3. \A v : Current(v)' <=> v = visit + 1
  BY DEF Current
<1>4. \A c \in Start(visit + 1) :
         c.visit = visit + 1 /\ c.kind = "start" /\ c.at = "sent" /\ c.no = 0
  BY DEF Start, Call
<1>5. \A c \in calls : c.visit \in Nat /\ c.visit <= visit
  BY CallsAreTyped DEF SessionInv, VisitsInOrder
<1>6. VisitsInOrder'
  <2>1. \A c \in calls' : c.visit <= visit'
    BY <1>1, <1>4, <1>5
  <2>2. \A v \in Visits : v > visit' => sessions'[v] = "none"
    BY <1>1, VisitsAreNumbers DEF SessionInv, VisitsInOrder
  <2> QED
    BY <1>1, <2>1, <2>2 DEF VisitsInOrder
<1>7. CallsFit'
  <2> SUFFICES ASSUME NEW c \in calls'
               PROVE  /\ c.kind = "start" => c.no = 0
                      /\ c.at = "answered" => c.kind = "start"
                      /\ c.at = "read" => c.kind # "start"
                      /\ c.kind = "start" /\ c.at = "sent" <=> sessions[c.visit] = "none"
                      /\ c.kind = "start" /\ c.visit <= gone => c.visit \in unsure
                      /\ c.kind = "beat" => c.visit \in unsure
                      /\ c.kind = "end" => ~Current(c.visit)'
    BY DEF CallsFit
  <2>1. CASE c \in calls
    BY <1>1, <1>3, <1>5, <2>1 DEF SessionInv, CallsFit
  <2>2. CASE c \in Start(visit + 1)
    BY <1>1, <1>2, <1>4, <2>2
  <2> QED
    BY <2>1, <2>2
<1>8. Followed'
  <2>1. \A v \in Visits : sessions[v] # "none" => v # visit + 1
    BY <1>2
  <2>2. \A v \in Visits : Ending(v) => Ending(v)'
    BY DEF Ending
  <2> QED
    BY <1>1, <1>3, <2>1, <2>2 DEF SessionInv, Followed
<1> QED
  BY <1>6, <1>7, <1>8 DEF SessionInv

(* The tab is closed: nobody will hear of the sessions it was opening.     *)
LEMMA Closed ==
    ASSUME TypeOK, SessionInv, Close
    PROVE  SessionInv'
<1>1. /\ open /\ ~open' /\ next' = {} /\ gone' = visit /\ tracked' = FALSE
      /\ UNCHANGED <<visit, calls, sessions>>
      /\ unsure \subseteq unsure' /\ (tracked => visit \in unsure')
      /\ \A c \in calls : c.kind = "start" => c.visit \in unsure'
  BY DEF Close, Leaves
<1>2. \A v : ~Current(v)'
  BY <1>1 DEF Current
<1>3. VisitsInOrder'
  BY <1>1, VisitsAreNumbers DEF SessionInv, VisitsInOrder
<1>4. CallsFit'
  BY <1>1, <1>2 DEF SessionInv, CallsFit, Current
<1>5. Followed'
  <2>1. \A v \in Visits : Ending(v) => Ending(v)'
    BY <1>1 DEF Ending
  <2>2. \A v \in Visits : Current(v) /\ tracked => v \in unsure'
    BY <1>1 DEF Current
  <2> QED
    BY <1>1, <1>2, <2>1, <2>2 DEF SessionInv, Followed
<1> QED
  BY <1>3, <1>4, <1>5 DEF SessionInv

(* What calls do while the page stays as it is.                            *)
PageRests == UNCHANGED <<open, visit, gone, next>>

LEMMA OrderKept ==
    ASSUME TypeOK, SessionInv, PageRests,
           \A c \in calls' : c.visit <= visit,
           \A v \in Visits : sessions[v] = "none" /\ v > visit => sessions'[v] = "none",
           tracked' => open /\ visit > 0 /\ sessions'[visit] # "none"
    PROVE  VisitsInOrder'
BY DEF SessionInv, VisitsInOrder, PageRests

(* A call is sent: a heartbeat of the chapter on the screen.               *)
LEMMA Beats == ASSUME TypeOK, SessionInv, Beat PROVE SessionInv'
<1> DEFINE b == Call(visit, "beat", beats + 1)
<1>1. /\ PageRests /\ calls' = calls \cup {b} /\ open /\ tracked
      /\ UNCHANGED <<tracked, sessions, unsure>>
  BY DEF Beat, PageRests, pageVars, clientVars
<1>2. b.visit = visit /\ b.kind = "beat" /\ b.at = "sent"
  BY DEF Call
<1>3. visit \in Nat /\ sessions[visit] # "none"
  BY <1>1, VisitsAreNumbers DEF SessionInv, VisitsInOrder
<1>4. VisitsInOrder'
  BY <1>1, <1>2, <1>3, OrderKept DEF SessionInv, VisitsInOrder
<1>5. \A v : Current(v)' <=> Current(v)
  BY <1>1 DEF Current, PageRests
<1>6. CallsFit'
  <2> SUFFICES ASSUME NEW c \in calls'
               PROVE  /\ c.kind = "start" => c.no = 0
                      /\ c.at = "answered" => c.kind = "start"
                      /\ c.at = "read" => c.kind # "start"
                      /\ c.kind = "start" /\ c.at = "sent" <=> sessions[c.visit] = "none"
                      /\ c.kind = "start" /\ c.visit <= gone => c.visit \in unsure
                      /\ c.kind = "beat" => c.visit \in unsure \/ (Current(c.visit) /\ tracked)
                      /\ c.kind = "end" => ~Current(c.visit)
    BY <1>1, <1>5 DEF CallsFit, PageRests
  <2>1. CASE c \in calls
    BY <2>1 DEF SessionInv, CallsFit
  <2>2. CASE c = b
    BY <1>1, <1>2, <1>3, <2>2 DEF Current
  <2> QED
    BY <1>1, <2>1, <2>2
<1>7. Followed'
  BY <1>1, <1>5 DEF SessionInv, Followed, Ending
<1> QED
  BY <1>4, <1>6, <1>7 DEF SessionInv

(* The API opens the session.                                              *)
LEMMA Opens == ASSUME TypeOK, SessionInv, NEW c \in calls, OpenSession(c) PROVE SessionInv'
<1> DEFINE a == [c EXCEPT !.at = "answered"]
<1>1. /\ PageRests /\ calls' = (calls \ {c}) \cup {a}
      /\ sessions' = [sessions EXCEPT ![c.visit] = "open"]
      /\ c.kind = "start" /\ c.at = "sent" /\ UNCHANGED <<tracked, unsure>>
  BY DEF OpenSession, Api, PageRests, pageVars, clientVars
<1>2. c \in CallTypes /\ c.visit \in Visits /\ sessions[c.visit] = "none"
  BY <1>1, CallsAreTyped DEF SessionInv, CallsFit
<1>3. a.visit = c.visit /\ a.kind = "start" /\ a.at = "answered"
  BY <1>1, <1>2 DEF CallTypes
<1>4. /\ sessions'[c.visit] = "open"
      /\ \A v \in Visits : v # c.visit => sessions'[v] = sessions[v]
  BY <1>1, <1>2 DEF TypeOK
<1>5. c.visit <= visit /\ c.visit \in Nat /\ visit \in Nat
  BY CallsAreTyped DEF SessionInv, VisitsInOrder
<1>6. VisitsInOrder'
  <2>1. \A d \in calls' : d.visit <= visit
    BY <1>1, <1>3, <1>5 DEF SessionInv, VisitsInOrder
  <2>2. \A v \in Visits : sessions[v] = "none" /\ v > visit => sessions'[v] = "none"
    BY <1>4, <1>5
  <2>3. tracked' => open /\ visit > 0 /\ sessions'[visit] # "none"
    <3>1. tracked => open /\ visit > 0 /\ visit \in Visits /\ sessions[visit] # "none"
      BY <1>5, BoundTypes DEF SessionInv, VisitsInOrder, TypeOK, Visits
    <3> QED
      BY <1>1, <1>4, <3>1
  <2> QED
    BY <1>1, <2>1, <2>2, <2>3, OrderKept
<1>7. \A v : Current(v)' <=> Current(v)
  BY <1>1 DEF Current, PageRests
<1>8. \A d \in calls \ {c} : d.visit # c.visit
  <2> SUFFICES ASSUME NEW d \in calls, d.visit = c.visit PROVE d = c
    OBVIOUS
  <2>1. d.kind = "start" /\ d.at = "sent" /\ d.no = 0 /\ c.no = 0
    BY <1>1, <1>2 DEF SessionInv, CallsFit
  <2>2. d \in CallTypes
    BY CallsAreTyped
  <2> QED
    BY <1>1, <1>2, <2>1, <2>2 DEF CallTypes
<1>9. CallsFit'
  <2> SUFFICES ASSUME NEW d \in calls'
               PROVE  /\ d.kind = "start" => d.no = 0
                      /\ d.at = "answered" => d.kind = "start"
                      /\ d.at = "read" => d.kind # "start"
                      /\ d.kind = "start" /\ d.at = "sent" <=> sessions'[d.visit] = "none"
                      /\ d.kind = "start" /\ d.visit <= gone => d.visit \in unsure
                      /\ d.kind = "beat" => d.visit \in unsure \/ (Current(d.visit) /\ tracked)
                      /\ d.kind = "end" => ~Current(d.visit)
    BY <1>1, <1>7 DEF CallsFit, PageRests
  <2>1. CASE d \in calls \ {c}
    <3>1. d.visit \in Visits /\ d.visit # c.visit
      BY <1>8, <2>1, CallsAreTyped
    <3> QED
      BY <1>4, <2>1, <3>1 DEF SessionInv, CallsFit
  <2>2. CASE d = a
    <3>1. a.no = 0 /\ (c.visit <= gone => c.visit \in unsure)
      BY <1>1, <1>2 DEF SessionInv, CallsFit, CallTypes
    <3> QED
      BY <1>3, <1>4, <2>2, <3>1
  <2> QED
    BY <1>1, <2>1, <2>2
<1>10. Followed'
  <2> SUFFICES ASSUME NEW v \in Visits
               PROVE  /\ sessions'[v] = "open" =>
                            v \in unsure \/ (Current(v) /\ tracked) \/ Ending(v)'
                      /\ sessions'[v] = "ended" => ~Current(v)
    BY <1>1, <1>7 DEF Followed
  <2>1. CASE v = c.visit
    BY <1>1, <1>3, <1>4, <2>1 DEF Ending
  <2>2. CASE v # c.visit
    <3>1. Ending(v) => Ending(v)'
      BY <1>1, <2>2 DEF Ending
    <3> QED
      BY <1>4, <2>2, <3>1 DEF SessionInv, Followed
  <2> QED
    BY <2>1, <2>2
<1> QED
  BY <1>6, <1>9, <1>10 DEF SessionInv

(* The API reads the session for a heartbeat or an end.                    *)
LEMMA ReadsSession == ASSUME TypeOK, SessionInv, NEW c \in calls, ReadSession(c) PROVE SessionInv'
<1> DEFINE a == [c EXCEPT !.at = "read"]
<1>1. /\ PageRests /\ c.kind # "start" /\ UNCHANGED <<tracked, unsure, sessions>>
      /\ calls' \subseteq (calls \ {c}) \cup {a} /\ calls \ {c} \subseteq calls'
      /\ a \in calls' \/ sessions[c.visit] = "ended"
  BY DEF ReadSession, Api, PageRests, pageVars, clientVars
<1>2. c \in CallTypes /\ a.visit = c.visit /\ a.kind = c.kind /\ a.at = "read" /\ a.no = c.no
  BY CallsAreTyped DEF CallTypes
<1>3. VisitsInOrder'
  <2>1. \A d \in calls' : d.visit <= visit
    BY <1>1, <1>2 DEF SessionInv, VisitsInOrder
  <2> QED
    BY <1>1, <2>1, OrderKept DEF SessionInv, VisitsInOrder
<1>4. \A v : Current(v)' <=> Current(v)
  BY <1>1 DEF Current, PageRests
<1>5. CallsFit'
  <2> SUFFICES ASSUME NEW d \in calls'
               PROVE  /\ d.kind = "start" => d.no = 0
                      /\ d.at = "answered" => d.kind = "start"
                      /\ d.at = "read" => d.kind # "start"
                      /\ d.kind = "start" /\ d.at = "sent" <=> sessions[d.visit] = "none"
                      /\ d.kind = "start" /\ d.visit <= gone => d.visit \in unsure
                      /\ d.kind = "beat" => d.visit \in unsure \/ (Current(d.visit) /\ tracked)
                      /\ d.kind = "end" => ~Current(d.visit)
    BY <1>1, <1>4 DEF CallsFit, PageRests
  <2>1. CASE d \in calls
    BY <2>1 DEF SessionInv, CallsFit
  <2>2. CASE d = a
    BY <1>1, <1>2, <2>2 DEF SessionInv, CallsFit
  <2> QED
    BY <1>1, <2>1, <2>2
<1>6. Followed'
  <2>1. \A v \in Visits : Ending(v) => Ending(v)' \/ sessions[v] = "ended"
    <3> SUFFICES ASSUME NEW v \in Visits, NEW d \in calls, d.visit = v,
                        d.kind = "end" \/ d.at = "answered"
                 PROVE  Ending(v)' \/ sessions[v] = "ended"
      BY DEF Ending
    <3>1. CASE d # c
      BY <1>1, <3>1 DEF Ending
    <3>2. CASE d = c
      <4>1. a.kind = "end"
        BY <1>1, <1>2, <3>2 DEF SessionInv, CallsFit
      <4> QED
        BY <1>1, <1>2, <3>2, <4>1 DEF Ending
    <3> QED
      BY <3>1, <3>2
  <2> QED
    BY <1>1, <1>4, <2>1 DEF SessionInv, Followed
<1> QED
  BY <1>3, <1>5, <1>6 DEF SessionInv

(* ... and replaces it by the copy it read.                                *)
LEMMA ReplacesSession ==
    ASSUME TypeOK, SessionInv, NEW c \in calls, ReplaceSession(c)
    PROVE  SessionInv'
<1>1. /\ PageRests /\ c.at = "read" /\ UNCHANGED <<tracked, unsure>> /\ calls' = calls \ {c}
      /\ sessions' = [sessions EXCEPT ![c.visit] = IF c.kind = "end" THEN "ended" ELSE "open"]
  BY DEF ReplaceSession, Api, PageRests, pageVars, clientVars
<1>2. /\ c.kind \in {"beat", "end"} /\ c.visit \in Visits /\ sessions[c.visit] # "none"
  BY <1>1, CallsAreTyped DEF SessionInv, CallsFit, CallTypes
<1>3. /\ sessions'[c.visit] = IF c.kind = "end" THEN "ended" ELSE "open"
      /\ \A v \in Visits : v # c.visit => sessions'[v] = sessions[v]
  BY <1>1, <1>2 DEF TypeOK
<1>4. \A v \in Visits : sessions'[v] = "none" <=> sessions[v] = "none"
  BY <1>2, <1>3
<1>5. \A v : Current(v)' <=> Current(v)
  BY <1>1 DEF Current, PageRests
<1>6. VisitsInOrder'
  <2>1. tracked => open /\ visit > 0 /\ visit \in Visits /\ sessions[visit] # "none"
    BY VisitsAreNumbers, BoundTypes DEF SessionInv, VisitsInOrder, TypeOK, Visits
  <2> QED
    BY <1>1, <1>4, <2>1, OrderKept DEF SessionInv, VisitsInOrder
<1>7. CallsFit'
  <2>1. \A d \in calls' : d \in calls /\ d.visit \in Visits
    BY <1>1, CallsAreTyped
  <2> QED
    BY <1>1, <1>4, <1>5, <2>1 DEF SessionInv, CallsFit, PageRests
<1>8. Followed'
  <2> SUFFICES ASSUME NEW v \in Visits
               PROVE  /\ sessions'[v] = "open" =>
                            v \in unsure \/ (Current(v) /\ tracked) \/ Ending(v)'
                      /\ sessions'[v] = "ended" => ~Current(v)
    BY <1>1, <1>5 DEF Followed
  <2>1. CASE v = c.visit
    BY <1>2, <1>3, <2>1 DEF SessionInv, CallsFit
  <2>2. CASE v # c.visit
    <3>1. Ending(v) => Ending(v)'
      BY <1>1, <2>2 DEF Ending
    <3> QED
      BY <1>3, <2>2, <3>1 DEF SessionInv, Followed
  <2> QED
    BY <2>1, <2>2
<1> QED
  BY <1>6, <1>7, <1>8 DEF SessionInv

(* A call is over for nobody: if it would have ended a session, that one   *)
(* is unsure.                                                              *)
LEMMA CallIsGone ==
    ASSUME TypeOK, SessionInv, NEW c \in calls, PageRests,
           calls' = calls \ {c}, UNCHANGED <<tracked, sessions>>, unsure \subseteq unsure',
           c.kind = "end" \/ c.at = "answered" => c.visit \in unsure'
    PROVE  SessionInv'
<1>1. \A v : Current(v)' <=> Current(v)
  BY DEF Current, PageRests
<1>2. VisitsInOrder'
  BY OrderKept DEF SessionInv, VisitsInOrder
<1>3. CallsFit'
  BY <1>1 DEF SessionInv, CallsFit, PageRests
<1>4. Followed'
  <2>1. \A v \in Visits : Ending(v) => Ending(v)' \/ v \in unsure'
    BY DEF Ending
  <2> QED
    BY <1>1, <2>1 DEF SessionInv, Followed
<1> QED
  BY <1>2, <1>3, <1>4 DEF SessionInv

LEMMA Unheard ==
    ASSUME TypeOK, SessionInv, NEW c \in calls, NobodyHears(c) \/ LoseCall(c)
    PROVE  SessionInv'
<1>1. CASE NobodyHears(c)
  <2>1. c.visit \in unsure
    BY <1>1 DEF NobodyHears, Heard, SessionInv, CallsFit
  <2> QED
    BY <1>1, <2>1, CallIsGone DEF NobodyHears, Api, PageRests, pageVars, clientVars
<1>2. CASE LoseCall(c)
  <2>1. c.at = "answered" => c.kind = "start"
    BY DEF SessionInv, CallsFit
  <2>2. c.kind = "end" \/ c.at = "answered" => c.visit \in unsure'
    BY <1>2, <2>1 DEF LoseCall, Heard
  <2>3. unsure \subseteq unsure'
    BY <1>2 DEF LoseCall
  <2> QED
    BY <1>2, <2>2, <2>3, CallIsGone DEF LoseCall, PageRests, pageVars, clientVars
<1> QED
  BY <1>1, <1>2

(* The page hears of the session of the chapter it shows.                  *)
LEMMA Hears == ASSUME TypeOK, SessionInv, NEW c \in calls, Tracked(c) PROVE SessionInv'
<1>1. /\ PageRests /\ c.kind = "start" /\ c.at = "answered" /\ open /\ c.visit = visit
      /\ tracked' = TRUE /\ calls' = calls \ {c} /\ UNCHANGED <<sessions, unsure>>
  BY DEF Tracked, Heard, Current, PageRests, pageVars
<1>2. visit \in Visits /\ visit > 0 /\ sessions[visit] # "none"
  <2>1. visit \in Visits
    BY <1>1, CallsAreTyped
  <2> QED
    BY <1>1, <2>1, BoundTypes DEF SessionInv, CallsFit, Visits
<1>3. \A v : Current(v)' <=> Current(v)
  BY <1>1 DEF Current, PageRests
<1>4. VisitsInOrder'
  BY <1>1, <1>2, OrderKept DEF SessionInv, VisitsInOrder
<1>5. CallsFit'
  BY <1>1, <1>3 DEF SessionInv, CallsFit, PageRests
<1>6. Followed'
  <2>1. \A v \in Visits : Ending(v) => Ending(v)' \/ Current(v)
    BY <1>1 DEF Ending, Current
  <2> QED
    BY <1>1, <1>3, <2>1 DEF SessionInv, Followed
<1> QED
  BY <1>4, <1>5, <1>6 DEF SessionInv

(* The chapter was left before its session was known: whoever hears ends   *)
(* it.                                                                     *)
LEMMA EndsOrphan == ASSUME TypeOK, SessionInv, NEW c \in calls, EndOrphan(c) PROVE SessionInv'
<1> DEFINE e == Call(c.visit, "end", 0)
<1>1. /\ PageRests /\ c.kind = "start" /\ c.at = "answered" /\ ~Current(c.visit)
      /\ calls' = (calls \ {c}) \cup {e} /\ UNCHANGED <<tracked, sessions, unsure>>
  BY DEF EndOrphan, Heard, Api, PageRests, pageVars, clientVars
<1>2. e.visit = c.visit /\ e.kind = "end" /\ e.at = "sent"
  BY DEF Call
<1>3. sessions[c.visit] # "none"
  BY <1>1 DEF SessionInv, CallsFit
<1>4. \A v : Current(v)' <=> Current(v)
  BY <1>1 DEF Current, PageRests
<1>5. VisitsInOrder'
  BY <1>1, <1>2, OrderKept DEF SessionInv, VisitsInOrder
<1>6. CallsFit'
  <2> SUFFICES ASSUME NEW d \in calls'
               PROVE  /\ d.kind = "start" => d.no = 0
                      /\ d.at = "answered" => d.kind = "start"
                      /\ d.at = "read" => d.kind # "start"
                      /\ d.kind = "start" /\ d.at = "sent" <=> sessions[d.visit] = "none"
                      /\ d.kind = "start" /\ d.visit <= gone => d.visit \in unsure
                      /\ d.kind = "beat" => d.visit \in unsure \/ (Current(d.visit) /\ tracked)
                      /\ d.kind = "end" => ~Current(d.visit)
    BY <1>1, <1>4 DEF CallsFit, PageRests
  <2>1. CASE d \in calls
    BY <2>1 DEF SessionInv, CallsFit
  <2>2. CASE d = e
    BY <1>1, <1>2, <1>3, <2>2
  <2> QED
    BY <1>1, <2>1, <2>2
<1>7. Followed'
  <2>1. \A v \in Visits : Ending(v) => Ending(v)'
    BY <1>1, <1>2 DEF Ending
  <2> QED
    BY <1>1, <1>4, <2>1 DEF SessionInv, Followed
<1> QED
  BY <1>5, <1>6, <1>7 DEF SessionInv

LEMMA SessionStep == ASSUME TypeOK, SessionInv, [Next]_vars PROVE SessionInv'
<1>1. next # {} => visit < MaxVisits
  BY DEF SessionInv, VisitsInOrder
<1>2. ASSUME UNCHANGED <<open, clientVars, sessionVars>>, next' # {} => visit < MaxVisits
      PROVE  SessionInv'
  BY <1>2, SessionsRest
<1>3. ASSUME UNCHANGED <<open, next, clientVars, sessionVars>> PROVE SessionInv'
  BY <1>1, <1>2, <1>3
<1>4. ASSUME NEW p \in Places, Scroll(p) PROVE SessionInv'
  BY <1>3, <1>4 DEF Scroll
<1>5. ASSUME NEW c \in Chapters, ClickLink(c) \/ PressKey(c) PROVE SessionInv'
  BY <1>2, <1>5 DEF ClickLink, PressKey, Follow
<1>6. CASE Hide \/ Show \/ TimerFires
  BY <1>3, <1>6 DEF Hide, Show, TimerFires
<1>7. CASE Leave
  BY <1>7, CleanedUp DEF Leave, Leaves
<1>8. CASE Close
  BY <1>8, Closed
<1>9. ASSUME NEW x \in next, Render(x) \/ RenderWithout(x) PROVE SessionInv'
  BY <1>1, <1>2, <1>9 DEF Render, RenderWithout
<1>10. ASSUME NEW x \in next, Mount(x) PROVE SessionInv'
  BY <1>1, <1>10, Mounted DEF Mount, Visit
<1>11. ASSUME NEW x \in next, Turn(x) PROVE SessionInv'
  BY <1>1, <1>11, CleanedUp DEF Turn, Visit
<1>12. ASSUME NEW p \in target, Restore(p) PROVE SessionInv'
  BY <1>3, <1>12 DEF Restore
<1>13. CASE Beat
  BY <1>13, Beats
<1>14. ASSUME NEW s \in saves, StoreSave(s) \/ LoseSave(s) PROVE SessionInv'
  BY <1>3, <1>14 DEF StoreSave, LoseSave, Api, pageVars
<1>15. ASSUME NEW c \in calls, Answered(c) \/ LoseCall(c) PROVE SessionInv'
  BY <1>15, Opens, ReadsSession, ReplacesSession, Hears, EndsOrphan, Unheard DEF Answered
<1>16. CASE UNCHANGED vars
  BY <1>3, <1>16 DEF vars, pageVars
<1> QED
  BY <1>4, <1>5, <1>6, <1>7, <1>8, <1>9, <1>10, <1>11, <1>12, <1>13, <1>14, <1>15, <1>16
     DEF Next, Reader, Page, Served, Lost

-----------------------------------------------------------------------------
(* Theorems.                                                               *)

LEMMA InitRoom == Init => RoomInv
<1> SUFFICES ASSUME Init PROVE RoomInv
  OBVIOUS
<1>1. SaveInv
  BY DEF Init, SaveInv, Numbered, LatestIsHere, LatestKnown
<1>2. SessionInv
  BY BoundTypes DEF Init, SessionInv, VisitsInOrder, CallsFit, Followed
<1> QED
  BY <1>1, <1>2, InitTypes DEF RoomInv

LEMMA RoomStep == RoomInv /\ [Next]_vars => RoomInv'
<1> SUFFICES ASSUME RoomInv, [Next]_vars PROVE RoomInv'
  OBVIOUS
<1>1. TypeOK'
  <2>1. CASE UNCHANGED vars
    BY <2>1 DEF RoomInv, TypeOK, vars, pageVars, clientVars, saveVars, sessionVars
  <2> QED
    BY <2>1, ReaderTypes, PageTypes, AnswerTypes DEF Next, RoomInv, SessionInv
<1> QED
  BY <1>1, SaveStep, SessionStep DEF RoomInv

(* The inductive invariant of the page, its saves and its session calls    *)
(* (useReadingProgress.ts, useReadingSession.ts).                          *)
THEOREM RoomInvariance == Spec => []RoomInv
BY InitRoom, RoomStep, PTL DEF Spec

(* Every variable keeps its type: no visit, place or call leaves its set.  *)
THEOREM RoomTypes == Spec => []TypeOK
<1>1. RoomInv => TypeOK
  BY DEF RoomInv
<1> QED
  BY <1>1, RoomInvariance, PTL

(* The place the reader left is the place stored, once the saves of        *)
(* useReadingProgress have arrived, but for a last save that was lost and  *)
(* saves served out of order.                                              *)
THEOREM SavedWhereLeftHolds == Spec => []SavedWhereLeft
<1>1. RoomInv => SavedWhereLeft
  <2> SUFFICES ASSUME RoomInv, ~timer, saves = {}, sent > 0, ~Excused
               PROVE  stored.no = sent /\ stored.what = Here
    BY DEF SavedWhereLeft
  <2>1. newest = sent
    BY DEF RoomInv, SaveInv, LatestKnown, Excused
  <2>2. stored.no = sent
    <3>1. stored.no \in Nat /\ newest \in Nat
      BY DEF RoomInv, TypeOK
    <3> QED
      BY <2>1, <3>1 DEF RoomInv, SaveInv, Numbered, Excused
  <2> QED
    BY <2>2 DEF RoomInv, SaveInv, LatestIsHere
<1> QED
  BY <1>1, RoomInvariance, PTL

(* Only the chapter on the screen has an open session, but for those whose *)
(* end was lost, not sent, or met a heartbeat (useReadingSession.ts).      *)
THEOREM OpenWhileReadHolds == Spec => []OpenWhileRead
<1>1. RoomInv => OpenWhileRead
  BY DEF RoomInv, SessionInv, Followed, Ending, OpenWhileRead
<1> QED
  BY <1>1, RoomInvariance, PTL

(* No session is opened again after its end, but by a heartbeat that was   *)
(* under way when the end was sent (ReadingProgressService.cs:183).        *)
THEOREM EndedStaysEndedHolds == Spec => EndedStaysEnded
<1>1. RoomInv /\ [Next]_vars =>
        [\A v \in Visits \ unsure : sessions[v] = "ended" => sessions'[v] = "ended"]_vars
  <2> SUFFICES ASSUME RoomInv, Next, NEW v \in Visits \ unsure, sessions[v] = "ended"
               PROVE  sessions'[v] = "ended"
    OBVIOUS
  <2>1. CASE sessions' = sessions
    BY <2>1
  <2>2. ASSUME NEW c \in calls, OpenSession(c) PROVE sessions'[v] = "ended"
    <3>1. sessions[c.visit] = "none"
      BY <2>2 DEF OpenSession, RoomInv, SessionInv, CallsFit
    <3> QED
      BY <2>2, <3>1 DEF OpenSession, RoomInv, TypeOK
  <2>3. ASSUME NEW c \in calls, ReplaceSession(c) PROVE sessions'[v] = "ended"
    <3>1. CASE c.visit # v
      BY <2>3, <3>1 DEF ReplaceSession, RoomInv, TypeOK
    <3>2. CASE c.visit = v
      <4>1. c.kind \in {"beat", "end"}
        BY <2>3, CallsAreTyped DEF ReplaceSession, RoomInv, SessionInv, CallsFit, CallTypes
      <4>2. c.kind # "beat"
        BY <3>2 DEF RoomInv, SessionInv, CallsFit, Followed
      <4> QED
        BY <2>3, <3>2, <4>1, <4>2 DEF ReplaceSession, RoomInv, TypeOK
    <3> QED
      BY <3>1, <3>2
  <2>4. ASSUME NEW c \in calls,
               ReadSession(c) \/ Tracked(c) \/ EndOrphan(c) \/ NobodyHears(c) \/ LoseCall(c)
        PROVE  sessions' = sessions
    BY <2>4 DEF ReadSession, Tracked, EndOrphan, NobodyHears, LoseCall
  <2>5. CASE Reader \/ Beat
    BY <2>1, <2>5 DEF Reader, Scroll, ClickLink, PressKey, Hide, Show, Leave, Close, Cleanup,
                      Beat, sessionVars
  <2>6. CASE Page
    BY <2>1, <2>6 DEF Page, Render, Mount, Turn, Restore, TimerFires, Cleanup, sessionVars
  <2>7. ASSUME NEW s \in saves, StoreSave(s) \/ LoseSave(s) PROVE sessions' = sessions
    BY <2>7 DEF StoreSave, LoseSave, sessionVars
  <2>8. ASSUME NEW x \in next, RenderWithout(x) PROVE sessions' = sessions
    BY <2>8 DEF RenderWithout, sessionVars
  <2> QED
    BY <2>1, <2>2, <2>3, <2>4, <2>5, <2>6, <2>7, <2>8 DEF Next, Served, Lost, Answered
<1> QED
  BY <1>1, RoomInvariance, PTL DEF Spec, EndedStaysEnded
=============================================================================
