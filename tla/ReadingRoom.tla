------------------------------ MODULE ReadingRoom ------------------------------
(***************************************************************************)
(* The page on which a member reads a book, in one tab: useReadingProgress *)
(* keeps saving the place, useReadingSession opens a session for every     *)
(* chapter, keeps it alive and ends it; the API stores the one and the     *)
(* other.  The router keeps the page's state from chapter to chapter, and  *)
(* no call waits for the answer of another.                                *)
(*                                                                         *)
(* A place is how far a chapter has been scrolled, 0 its top, and stands   *)
(* for the percentage computed from it.  A visit is one run of the effects *)
(* for one chapter.  The API's save is a single step here: this client     *)
(* always sends version 1, which never refuses another 1, and              *)
(* ReadingProgress has the steps inside.  The hooks share the steps of the *)
(* page but no state; hooks says which of them run, so that they can be    *)
(* looked at one at a time.                                                *)
(***************************************************************************)
EXTENDS Naturals

CONSTANTS
    Chapters, NoChapter,
    Hooks,         \* the hooks a page may run: sets of "progress", "session"
    MaxPlace,      \* places of a chapter (bound)
    MaxVisits,     \* chapters that are shown, again or for the first time (bound)
    MaxMoves,      \* things the reader does (bound)
    MaxBeats,      \* heartbeats (bound)
    MaxFaults      \* requests or answers that are lost (bound)

ASSUME ChapterAssumption == NoChapter \notin Chapters
ASSUME BoundsAssumption == {MaxPlace, MaxVisits, MaxMoves, MaxBeats, MaxFaults} \subseteq Nat

VARIABLES
    hooks,      \* the hooks that run
    open,       \* the page is on the screen
    chapter, place,     \* what it shows, or showed last
    timer,      \* a save is due once the reader has rested
    hidden,     \* document.visibilityState
    target,     \* the places scrollTo is still to be called with
    next,       \* the page the server renders for a link
    visit,      \* the last visit
    tracked,    \* it knows its session
    gone,       \* the visits up to this one died with their tab
    saves, sent,          \* saves under way, how many were sent
    calls, beats,         \* session calls under way, heartbeats sent
    stored,     \* the progress the API has
    newest,     \* the latest save it has served
    sessions,   \* the session of each visit
    moves, faults,
    lost,       \* history: the latest save that was lost
    unsure      \* history: sessions whose end was not sent, was lost, or was
                \* sent while a heartbeat was under way

pageVars    == <<hooks, open, chapter, place, timer, hidden, target, next>>
clientVars  == <<visit, tracked, gone>>
saveVars    == <<saves, sent, stored, newest, lost>>
sessionVars == <<calls, beats, sessions, unsure>>
vars == <<pageVars, clientVars, saveVars, sessionVars, moves, faults>>

Places  == 0..MaxPlace
Visits  == 1..MaxVisits
Payload == [chapter : Chapters \cup {NoChapter}, place : Places]
Here    == [chapter |-> chapter, place |-> place]

Call(v, kind, no) == [visit |-> v, kind |-> kind, no |-> no, at |-> "sent"]

Saving   == "progress" \in hooks
Sessions == "session" \in hooks

Init ==
    /\ hooks \in Hooks
    /\ open = FALSE /\ chapter = NoChapter /\ place = 0
    /\ timer = FALSE /\ hidden = FALSE /\ target = {} /\ next = {}
    /\ visit = 0 /\ tracked = FALSE /\ gone = 0
    /\ saves = {} /\ sent = 0 /\ calls = {} /\ beats = 0
    /\ stored \in [no : {0}, what : Payload]
    /\ stored.what.chapter = NoChapter => stored.what.place = 0
    /\ ~Saving => stored.what.chapter = NoChapter
    /\ newest = 0 /\ sessions = [v \in Visits |-> "none"]
    /\ moves = 0 /\ faults = 0 /\ lost = 0 /\ unsure = {}

-----------------------------------------------------------------------------
(* What the hooks send.                                                    *)

Save ==
    /\ IF Saving THEN /\ sent' = sent + 1
                      /\ saves' = saves \cup {[no |-> sent + 1, what |-> Here]}
                 ELSE UNCHANGED <<saves, sent>>
    /\ UNCHANGED <<stored, newest, lost>>

Start(v) == IF Sessions THEN {Call(v, "start", 0)} ELSE {}

Beating(v) == \E c \in calls : c.visit = v /\ c.kind = "beat"

(* The cleanup of useReadingSession: the interval is cleared, the session  *)
(* ended; if it is not known yet, its answer will find isCancelled.        *)
Cleanup(started) ==
    /\ tracked' = FALSE
    /\ IF tracked
       THEN /\ calls' = calls \cup {Call(visit, "end", 0)} \cup started
            /\ unsure' = IF Beating(visit) THEN unsure \cup {visit} ELSE unsure
       ELSE calls' = calls \cup started /\ UNCHANGED unsure
    /\ UNCHANGED <<gone, beats, sessions>>

Moves == moves < MaxMoves /\ moves' = moves + 1
Rests == UNCHANGED moves

-----------------------------------------------------------------------------
(* The reader.                                                             *)

\* Mutant: a new place starts no timer.
ScrollUnsaved(p) ==
    /\ open /\ Saving /\ p # place /\ Moves
    /\ place' = p
    /\ UNCHANGED <<hooks, open, chapter, timer, hidden, target, next, clientVars, saveVars, sessionVars,
                   faults>>

Scroll(p) ==
    /\ open /\ Saving /\ p # place /\ Moves
    /\ place' = p /\ timer' = TRUE
    /\ UNCHANGED <<hooks, open, chapter, hidden, target, next, clientVars, saveVars, sessionVars, faults>>

(* A link of the footer, of the contents or of another page.               *)
Follow(c) ==
    /\ visit < MaxVisits /\ Moves
    /\ open => c # chapter
    /\ next' = {[chapter |-> c, rendered |-> FALSE, initial |-> 0]}

ClickLink(c) ==
    /\ Follow(c)
    /\ UNCHANGED <<hooks, open, chapter, place, timer, hidden, target, clientVars, saveVars,
                   sessionVars, faults>>

(* An arrow key: saveNow, then the same.                                   *)
PressKey(c) ==
    /\ open /\ Follow(c)
    /\ Save /\ timer' = FALSE
    /\ UNCHANGED <<hooks, open, chapter, place, hidden, target, clientVars, sessionVars, faults>>

(* visibilitychange                                                        *)
Hide ==
    /\ open /\ ~hidden /\ Moves
    /\ hidden' = TRUE /\ Save
    /\ UNCHANGED <<hooks, open, chapter, place, timer, target, next, clientVars, sessionVars,
                   faults>>

Show ==
    /\ open /\ hidden /\ Moves
    /\ hidden' = FALSE
    /\ UNCHANGED <<hooks, open, chapter, place, timer, target, next, clientVars, saveVars,
                   sessionVars, faults>>

Leaves == open' = FALSE /\ timer' = FALSE /\ target' = {} /\ next' = {}

(* To another page of the site: the effects are cleaned up.                *)
Leave ==
    /\ open /\ Moves
    /\ Leaves /\ Save /\ Cleanup({})
    /\ UNCHANGED <<hooks, chapter, place, hidden, visit, faults>>

(* The tab is closed or loaded anew.  beforeunload saves; pagehide may     *)
(* save the same once more, which is left out.  No cleanup runs.           *)
Close ==
    /\ open /\ Moves
    /\ Leaves /\ hidden' = FALSE /\ Save
    /\ gone' = visit /\ tracked' = FALSE
    /\ unsure' = unsure \cup {c.visit : c \in {d \in calls : d.kind = "start"}}
                        \cup (IF tracked THEN {visit} ELSE {})
    /\ UNCHANGED <<hooks, chapter, place, visit, calls, beats, sessions, faults>>

-----------------------------------------------------------------------------
(* The page.                                                               *)

(* BookReadPage reads the progress while it renders a chapter.             *)
Render(x) ==
    /\ ~x.rendered
    /\ next' = {[x EXCEPT !.rendered = TRUE, !.initial = stored.what.place]}
    /\ Rests
    /\ UNCHANGED <<hooks, open, chapter, place, timer, hidden, target, clientVars, saveVars,
                   sessionVars, faults>>

(* getReadingProgress answers null when its request fails.                 *)
RenderWithout(x) ==
    /\ ~x.rendered /\ faults < MaxFaults /\ faults' = faults + 1
    /\ next' = {[x EXCEPT !.rendered = TRUE]}
    /\ Rests
    /\ UNCHANGED <<hooks, open, chapter, place, timer, hidden, target, clientVars, saveVars,
                   sessionVars>>

Restored(x) == IF Saving /\ x.initial > 0 THEN {x.initial} ELSE {}

(* What the effects of a visit set up.                                     *)
Visit(x) ==
    /\ x.rendered /\ next' = {}
    /\ chapter' = x.chapter /\ timer' = Saving
    /\ visit' = visit + 1
    /\ Rests /\ UNCHANGED <<hooks, hidden, faults>>

Mount(x) ==
    /\ ~open /\ Visit(x)
    /\ open' = TRUE /\ place' = (IF Saving THEN x.initial ELSE 0) /\ target' = Restored(x)
    /\ calls' = calls \cup Start(visit + 1)
    /\ UNCHANGED <<tracked, gone, beats, sessions, unsure, saveVars>>

\* Mutant: the next chapter is shown, the session of the last not ended.
TurnWithoutCleanup(x) ==
    /\ open /\ Visit(x) /\ Save
    /\ place' \in {place, 0}
    /\ target' = target \cup Restored(x)
    /\ calls' = calls \cup Start(visit + 1)
    /\ tracked' = FALSE
    /\ UNCHANGED <<open, gone, beats, sessions, unsure>>

(* The next chapter in the same page: what the effects of the last visit   *)
(* clean up, and the router scrolls to the top, or need not.               *)
Turn(x) ==
    /\ open /\ Visit(x) /\ Save
    /\ place' \in {place, 0}
    /\ target' = target \cup Restored(x)
    /\ Cleanup(Start(visit + 1))
    /\ UNCHANGED open

(* restoreScroll, two frames later                                         *)
Restore(p) ==
    /\ p \in target /\ target' = target \ {p}
    /\ place' = p /\ timer' = TRUE
    /\ Rests
    /\ UNCHANGED <<hooks, open, chapter, hidden, next, clientVars, saveVars, sessionVars, faults>>

TimerFires ==
    /\ timer /\ timer' = FALSE
    /\ Save /\ Rests
    /\ UNCHANGED <<hooks, open, chapter, place, hidden, target, next, clientVars, sessionVars,
                   faults>>

\* Mutant: the interval of a chapter that was left is not cleared.
BeatOn ==
    /\ visit > gone /\ ~hidden /\ beats < MaxBeats /\ sessions[visit] # "none"
    /\ beats' = beats + 1
    /\ calls' = calls \cup {Call(visit, "beat", beats + 1)}
    /\ Rests /\ UNCHANGED <<pageVars, clientVars, saveVars, sessions, unsure, faults>>

(* Every 30 seconds, if the tab is seen.                                   *)
Beat ==
    /\ open /\ tracked /\ ~hidden /\ beats < MaxBeats
    /\ beats' = beats + 1
    /\ calls' = calls \cup {Call(visit, "beat", beats + 1)}
    /\ Rests /\ UNCHANGED <<pageVars, clientVars, saveVars, sessions, unsure, faults>>

-----------------------------------------------------------------------------
(* The API.                                                                *)

Api == Rests /\ UNCHANGED <<pageVars, clientVars, faults>>

StoreSave(s) ==
    /\ stored' = s /\ saves' = saves \ {s}
    /\ newest' = IF s.no > newest THEN s.no ELSE newest
    /\ Api /\ UNCHANGED <<sent, lost, sessionVars>>

(* StartReadingSessionAsync                                                *)
OpenSession(c) ==
    /\ c.kind = "start" /\ c.at = "sent"
    /\ sessions' = [sessions EXCEPT ![c.visit] = "open"]
    /\ calls' = (calls \ {c}) \cup {[c EXCEPT !.at = "answered"]}
    /\ Api /\ UNCHANGED <<beats, unsure, saveVars>>

(* HeartbeatSessionAsync and EndReadingSessionAsync: both read the session *)
(* first, and one that has ended is left alone.                            *)
ReadSession(c) ==
    /\ c.kind # "start" /\ c.at = "sent"
    /\ calls' = (calls \ {c}) \cup
                  {d \in {[c EXCEPT !.at = "read"]} : sessions[c.visit] # "ended"}
    /\ Api /\ UNCHANGED <<beats, sessions, unsure, saveVars>>

(* ... and then replace it by the copy they read.                          *)
ReplaceSession(c) ==
    /\ c.at = "read" /\ calls' = calls \ {c}
    /\ sessions' = [sessions EXCEPT ![c.visit] = IF c.kind = "end" THEN "ended" ELSE "open"]
    /\ Api /\ UNCHANGED <<beats, unsure, saveVars>>

-----------------------------------------------------------------------------
(* The answer of startReadingSession.                                      *)

Heard(c) == c.kind = "start" /\ c.at = "answered"

Current(v) == open /\ v = visit

Tracked(c) ==
    /\ Heard(c) /\ Current(c.visit)
    /\ tracked' = TRUE /\ calls' = calls \ {c}
    /\ Rests /\ UNCHANGED <<pageVars, visit, gone, saveVars, beats, sessions, unsure, faults>>

\* Mutant: isCancelled is not looked at, and nobody will end the session.
KeepOrphan(c) ==
    /\ Heard(c) /\ ~Current(c.visit) /\ c.visit > gone
    /\ calls' = calls \ {c}
    /\ Api /\ UNCHANGED <<beats, sessions, unsure, saveVars>>

(* The chapter was left meanwhile: isCancelled.                            *)
EndOrphan(c) ==
    /\ Heard(c) /\ ~Current(c.visit) /\ c.visit > gone
    /\ calls' = (calls \ {c}) \cup {Call(c.visit, "end", 0)}
    /\ Api /\ UNCHANGED <<beats, sessions, unsure, saveVars>>

(* ... with its tab.                                                       *)
NobodyHears(c) ==
    /\ Heard(c) /\ c.visit <= gone
    /\ calls' = calls \ {c}
    /\ Api /\ UNCHANGED <<beats, sessions, unsure, saveVars>>

(* Nothing is tried again.                                                 *)
LoseSave(s) ==
    /\ faults < MaxFaults /\ faults' = faults + 1
    /\ saves' = saves \ {s} /\ lost' = IF s.no > lost THEN s.no ELSE lost
    /\ Rests /\ UNCHANGED <<pageVars, clientVars, sent, stored, newest, sessionVars>>

LoseCall(c) ==
    /\ faults < MaxFaults /\ faults' = faults + 1
    /\ calls' = calls \ {c}
    /\ unsure' = IF c.kind = "end" \/ Heard(c) THEN unsure \cup {c.visit} ELSE unsure
    /\ Rests /\ UNCHANGED <<pageVars, clientVars, saveVars, beats, sessions>>

-----------------------------------------------------------------------------
Reader ==
    \/ \E p \in Places : Scroll(p)
    \/ \E c \in Chapters : ClickLink(c) \/ PressKey(c)
    \/ Hide \/ Show \/ Leave \/ Close

Page ==
    \/ \E x \in next : Render(x) \/ Mount(x) \/ Turn(x)
    \/ \E p \in target : Restore(p)
    \/ TimerFires

Answered(c) ==
    \/ OpenSession(c) \/ ReadSession(c) \/ ReplaceSession(c)
    \/ Tracked(c) \/ EndOrphan(c) \/ NobodyHears(c)

Served == \/ \E s \in saves : StoreSave(s)
          \/ \E c \in calls : Answered(c)

Lost == \/ \E x \in next : RenderWithout(x)
        \/ \E s \in saves : LoseSave(s)
        \/ \E c \in calls : LoseCall(c)

Next == Reader \/ Page \/ Beat \/ Served \/ Lost

Spec == Init /\ [][Next]_vars

(* Timers fire, frames are drawn, and requests that are not lost arrive.   *)
FairSpec == Spec /\ WF_vars(Page) /\ WF_vars(Served)

-----------------------------------------------------------------------------
TypeOK ==
    /\ hooks \in Hooks /\ open \in BOOLEAN /\ chapter \in Chapters \cup {NoChapter}
    /\ place \in Places
    /\ timer \in BOOLEAN /\ hidden \in BOOLEAN /\ target \subseteq Places
    /\ next \subseteq [chapter : Chapters, rendered : BOOLEAN, initial : Places]
    /\ visit \in 0..MaxVisits /\ tracked \in BOOLEAN /\ gone \in 0..MaxVisits
    /\ sent \in Nat /\ saves \subseteq [no : Nat, what : Payload]
    /\ calls \subseteq [visit : Visits, kind : {"start", "beat", "end"}, no : Nat,
                        at : {"sent", "read", "answered"}]
    /\ beats \in Nat /\ stored \in [no : Nat, what : Payload] /\ newest \in Nat
    /\ sessions \in [Visits -> {"none", "open", "ended"}]
    /\ moves \in 0..MaxMoves /\ faults \in 0..MaxFaults
    /\ lost \in Nat /\ unsure \subseteq Visits

(* The last save was lost, or an older one was served after it.            *)
Excused == lost = sent \/ stored.no < newest

(***************************************************************************)
(* Once the reader has rested or gone, and every save has arrived, the API *)
(* has the chapter and the place the page shows or showed last, whichever  *)
(* of the timer, the keys, the tab that was hidden or closed and the       *)
(* cleanup of the effects saved it.  Exceptions are a last save that was   *)
(* lost and saves that were served in another order than they were sent.   *)
(***************************************************************************)
SavedWhereLeft ==
    ~timer /\ saves = {} /\ sent > 0 => Excused \/ (stored.no = sent /\ stored.what = Here)

(***************************************************************************)
(* A session with no call under way is open only while its chapter is on   *)
(* the screen: of a reader who leafs through chapters faster than their    *)
(* sessions are opened, none stays behind.  Exceptions are a tab that is   *)
(* closed, a call that is lost, and an end sent while a heartbeat is under *)
(* way, which can write the session back as it read it.                    *)
(***************************************************************************)
OpenWhileRead ==
    \A v \in Visits :
        sessions[v] = "open" /\ (\A c \in calls : c.visit # v) => Current(v) \/ v \in unsure

(* A session that was ended is not opened again, unless by a heartbeat     *)
(* that was under way when the end was sent.                               *)
EndedStaysEnded ==
    [][\A v \in Visits \ unsure : sessions[v] = "ended" => sessions'[v] = "ended"]_vars

(***************************************************************************)
(* In the end the place is stored and the sessions of chapters that are    *)
(* not shown any more are ended, with the exceptions above.                *)
(***************************************************************************)
ReachesTheApi ==
    <>[](/\ sent = 0 \/ Excused \/ stored.what = Here
         /\ \A v \in Visits : sessions[v] = "open" => Current(v) \/ v \in unsure)

(***************************************************************************)
(* The inductive invariant.  The latest save is under way, lost or served, *)
(* and carries what the page shows unless a timer will send it again.      *)
(***************************************************************************)
Numbered ==
    /\ \A s \in saves : s.no \in 1..sent
    /\ \A s, t \in saves : s.no = t.no => s = t
    /\ stored.no <= newest /\ newest <= sent /\ lost <= sent
    /\ ~Saving => sent = 0

LatestIsHere ==
    ~timer /\ sent > 0 =>
        /\ \A s \in saves : s.no = sent => s.what = Here
        /\ stored.no = sent => stored.what = Here

LatestKnown ==
    sent > 0 => lost = sent \/ newest = sent \/ \E s \in saves : s.no = sent

(***************************************************************************)
(* A session goes from none to open to ended, and a call is at a line that *)
(* fits; what is open and not followed by the page is about to be ended.   *)
(***************************************************************************)
VisitsInOrder ==
    /\ next # {} => visit < MaxVisits
    /\ tracked => open /\ visit > 0 /\ sessions[visit] # "none"
    /\ gone <= visit
    /\ \A c \in calls : c.visit <= visit
    /\ \A v \in Visits : v > visit => sessions[v] = "none"

CallsFit ==
    \A c \in calls :
        /\ c.kind = "start" => c.no = 0
        /\ c.at = "answered" => c.kind = "start"
        /\ c.at = "read" => c.kind # "start"
        /\ c.kind = "start" /\ c.at = "sent" <=> sessions[c.visit] = "none"
        /\ c.kind = "start" /\ c.visit <= gone => c.visit \in unsure
        /\ c.kind = "beat" => c.visit \in unsure \/ (Current(c.visit) /\ tracked)
        /\ c.kind = "end" => ~Current(c.visit)

Ending(v) == \E c \in calls : c.visit = v /\ (c.kind = "end" \/ c.at = "answered")

Followed ==
    \A v \in Visits :
        /\ sessions[v] = "open" => v \in unsure \/ (Current(v) /\ tracked) \/ Ending(v)
        /\ sessions[v] = "ended" => ~Current(v)

SaveInv    == Numbered /\ LatestIsHere /\ LatestKnown
SessionInv == VisitsInOrder /\ CallsFit /\ Followed
RoomInv    == TypeOK /\ SaveInv /\ SessionInv
=============================================================================
